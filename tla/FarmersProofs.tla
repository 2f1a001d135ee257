--------------------------- MODULE FarmersProofs ---------------------------
(***************************************************************************)
(* Proofs about Farmers, for any farmers, requests and page size.          *)
(***************************************************************************)
EXTENDS Farmers, StoreProofs

\* The scan takes the first farmer of what is left of its page.
LEMMA FirstOfPage ==
  ASSUME TypeOK, scanner.todo # {}
  PROVE  Min(scanner.todo) \in scanner.todo
<1>1. scanner.todo \subseteq Nat
  BY FarmersAssumption DEF TypeOK, ScannerState
<1>2. \E l \in scanner.todo : \A m \in scanner.todo : l <= m
  BY <1>1, LeastExists
<1> QED BY <1>2 DEF Min

LEMMA LatestIsPast ==
  ASSUME TypeOK
  PROVE  get_latest_payout(payouts) \in Times /\ get_latest_payout(payouts) \in payouts \cup {0}
BY FarmersAssumption, LargestPayout DEF TypeOK, Times

-----------------------------------------------------------------------------

\* A scan that goes on to a farmer has one to go on to, and then is at one.
PositionOK(s) ==
  /\ s.pc = "launcher" => s.todo # {}
  /\ s.pc \notin {"idle", "fetch", "launcher"} => s.launcher \in Launchers

LauncherInv == PositionOK(scanner)

LEMMA TypeInit == Init => TypeOK /\ LauncherInv
BY FarmersAssumption
   DEF Init, TypeOK, LauncherInv, PositionOK, Times, CoinState, FarmerRow, PartialRow, IdleRequest,
       RequestState, IdleScanner, ScannerState

LEMMA AcknowledgeType ==
  ASSUME TypeOK, NEW r \in Requests, NEW l \in Launchers, NEW instructions \in Instructions,
         Acknowledge(r, l, instructions)
  PROVE  /\ DOMAIN acked' \subseteq Followed /\ acked' \in [DOMAIN acked' -> Instructions]
         /\ contested' \subseteq Followed
BY DEF TypeOK, Acknowledge, history, Upsert

\* The chain, the clock and the other loops
LEMMA OthersType ==
  ASSUME TypeOK, LauncherInv,
         \/ Tick \/ Payout
         \/ \E l \in Launchers : CoinMoves(l) \/ Confirm(l)
         \/ \E p \in Proofs : Discard(p)
  PROVE  TypeOK' /\ LauncherInv'
<1> USE FarmersAssumption DEF TypeOK, LauncherInv, tables, history, OtherLoop
<1>1. CASE Tick
  BY <1>1 DEF Tick, Times
<1>2. CASE Payout
  BY <1>2 DEF Payout, add_payout
<1>3. ASSUME NEW l \in Launchers, CoinMoves(l) PROVE TypeOK' /\ LauncherInv'
  BY <1>3 DEF CoinMoves, CoinState
<1>4. ASSUME NEW l \in Launchers, Confirm(l) PROVE TypeOK' /\ LauncherInv'
  <2>1. PICK until \in 0 .. now + 1 : partials' = confirm_partials(partials, l, until)
    BY <1>4 DEF Confirm
  <2>2. \A p \in DOMAIN partials : [partials[p] EXCEPT !.confirmed = TRUE] \in PartialRow
    BY DEF PartialRow
  <2>3. DOMAIN partials' = DOMAIN partials
    BY <2>1 DEF confirm_partials
  <2>4. partials' \in [DOMAIN partials -> PartialRow]
    BY <2>1, <2>2 DEF confirm_partials
  <2> QED BY <1>4, <2>3, <2>4 DEF Confirm
<1>5. ASSUME NEW p \in Proofs, Discard(p) PROVE TypeOK' /\ LauncherInv'
  BY <1>5 DEF Discard, delete_partial, Without
<1> QED BY <1>1, <1>2, <1>3, <1>4, <1>5

\* The handlers
LEMMA RequestType ==
  ASSUME TypeOK, LauncherInv, NEW r \in Requests, RequestNext(r)
  PROVE  TypeOK' /\ LauncherInv'
<1> USE FarmersAssumption
<1>1. ASSUME NEW next \in RequestState, RequestStep(r, next),
             DOMAIN farmers' \subseteq Launchers, farmers' \in [DOMAIN farmers' -> FarmerRow],
             DOMAIN partials' \subseteq Proofs, partials' \in [DOMAIN partials' -> PartialRow],
             DOMAIN acked' \subseteq Followed, acked' \in [DOMAIN acked' -> Instructions],
             contested' \subseteq Followed
      PROVE  TypeOK' /\ LauncherInv'
  BY <1>1 DEF RequestStep, TypeOK, LauncherInv
<1>2. /\ request[r] \in RequestState /\ IdleRequest \in RequestState
      /\ DOMAIN farmers \subseteq Launchers /\ farmers \in [DOMAIN farmers -> FarmerRow]
      /\ DOMAIN partials \subseteq Proofs /\ partials \in [DOMAIN partials -> PartialRow]
      /\ DOMAIN acked \subseteq Followed /\ acked \in [DOMAIN acked -> Instructions]
      /\ contested \subseteq Followed
      /\ now \in Times
  BY DEF TypeOK, RequestState
<1>3. ASSUME NEW l \in Launchers, PostFarmerCheck(r, l) PROVE TypeOK' /\ LauncherInv'
  BY <1>1, <1>2, <1>3 DEF PostFarmerCheck, RequestState, history
<1>4. ASSUME NEW l \in Launchers, PutFarmerRead(r, l) PROVE TypeOK' /\ LauncherInv'
  <2>1. PICK new \in FarmerRow, fields \in SUBSET DOMAIN farmers[l] :
          RequestStep(r, [pc |-> "put", launcher |-> l, farmer |-> Merged(farmers[l], new, fields),
                          instructed |-> "payout_instructions" \in fields])
    BY <1>4 DEF PutFarmerRead
  <2>2. farmers[l] \in FarmerRow
    BY <1>2, <1>4 DEF PutFarmerRead
  <2>3. Merged(farmers[l], new, fields) \in FarmerRow
    BY <2>2 DEF Merged, FarmerRow
  <2>4. [pc |-> "put", launcher |-> l, farmer |-> Merged(farmers[l], new, fields),
         instructed |-> "payout_instructions" \in fields] \in RequestState
    BY <2>3 DEF RequestState
  <2> QED BY <1>1, <1>2, <1>4, <2>1, <2>4 DEF PutFarmerRead, history
<1>5. ASSUME NEW p \in Proofs, PartialRead(r, p) PROVE TypeOK' /\ LauncherInv'
  <2>1. [pc |-> "check", launcher |-> Owner[p], proof |-> p, farmer |-> farmers[Owner[p]],
         current_time |-> now] \in RequestState
    BY <1>2, <1>5 DEF PartialRead, RequestState
  <2> QED BY <1>1, <1>2, <1>5, <2>1 DEF PartialRead, history
<1>6. CASE PostFarmerStore(r)
  <2>1. /\ request[r].launcher \in Launchers /\ request[r].farmer \in FarmerRow
        /\ request[r].farmer.payout_instructions \in Instructions
    BY <1>2, <1>6 DEF PostFarmerStore, RequestState, IdleRequest, FarmerRow
  <2>2. DOMAIN farmers' \subseteq Launchers /\ farmers' \in [DOMAIN farmers' -> FarmerRow]
    BY <1>2, <1>6, <2>1 DEF PostFarmerStore, add_farmer, Upsert
  <2>3. /\ DOMAIN acked' \subseteq Followed /\ acked' \in [DOMAIN acked' -> Instructions]
        /\ contested' \subseteq Followed
    BY <1>2, <1>6, <2>1, AcknowledgeType DEF PostFarmerStore, history
  <2> QED BY <1>1, <1>2, <1>6, <2>2, <2>3 DEF PostFarmerStore
<1>7. CASE PutFarmerStore(r)
  <2>1. /\ request[r].launcher \in Launchers /\ request[r].farmer \in FarmerRow
        /\ request[r].farmer.payout_instructions \in Instructions
    BY <1>2, <1>7 DEF PutFarmerStore, RequestState, IdleRequest, FarmerRow
  <2>2. DOMAIN farmers' \subseteq Launchers /\ farmers' \in [DOMAIN farmers' -> FarmerRow]
    BY <1>2, <1>7, <2>1 DEF PutFarmerStore, add_farmer, Upsert
  <2>3. /\ DOMAIN acked' \subseteq Followed /\ acked' \in [DOMAIN acked' -> Instructions]
        /\ contested' \subseteq Followed
    BY <1>2, <1>7, <2>1, AcknowledgeType DEF PutFarmerStore, history
  <2> QED BY <1>1, <1>2, <1>7, <2>2, <2>3 DEF PutFarmerStore
<1>8. CASE PartialStore(r)
  <2>1. /\ request[r].launcher \in Launchers /\ request[r].farmer \in FarmerRow
        /\ request[r].proof \in Proofs /\ request[r].current_time \in Times
    BY <1>2, <1>8 DEF PartialStore, RequestState, IdleRequest
  <2>2. [launcher_id |-> request[r].launcher, timestamp |-> request[r].current_time,
         confirmed |-> FALSE] \in PartialRow
    BY <2>1 DEF PartialRow
  <2>3. DOMAIN partials' \subseteq Proofs /\ partials' \in [DOMAIN partials' -> PartialRow]
    BY <1>2, <1>8, <2>1, <2>2 DEF PartialStore, add_partial, Upsert
  <2>4. [pc |-> "adjust", launcher |-> request[r].launcher, farmer |-> request[r].farmer]
          \in RequestState
    BY <2>1 DEF RequestState
  <2> QED BY <1>1, <1>2, <1>8, <2>3, <2>4 DEF PartialStore, history
<1>9. CASE PartialReject(r)
  BY <1>1, <1>2, <1>9 DEF PartialReject, history
<1>10. CASE PartialWriteBack(r)
  <2>1. request[r].launcher \in Launchers /\ request[r].farmer \in FarmerRow
    BY <1>2, <1>10 DEF PartialWriteBack, RequestState, IdleRequest
  <2>2. PICK d \in Difficulties :
          farmers' = add_farmer(farmers, request[r].launcher, [request[r].farmer EXCEPT !.difficulty = d])
    BY <1>10 DEF PartialWriteBack
  <2>3. [request[r].farmer EXCEPT !.difficulty = d] \in FarmerRow
    BY <2>1 DEF FarmerRow
  <2>4. DOMAIN farmers' \subseteq Launchers /\ farmers' \in [DOMAIN farmers' -> FarmerRow]
    BY <1>2, <2>1, <2>2, <2>3 DEF add_farmer, Upsert
  <2> QED BY <1>1, <1>2, <1>10, <2>4 DEF PartialWriteBack, history
<1> QED BY <1>3, <1>4, <1>5, <1>6, <1>7, <1>8, <1>9, <1>10 DEF RequestNext

LEMMA FindableType ==
  ASSUME TypeOK, NEW confirmed
  PROVE  Findable(confirmed) \in SUBSET (Proofs \X Times)
BY DEF TypeOK, Findable, get_partials, PartialRow

\* The scan
LEMMA ScannerType ==
  ASSUME TypeOK, LauncherInv, ScannerNext
  PROVE  TypeOK' /\ LauncherInv'
<1> USE FarmersAssumption
<1>1. ASSUME NEW next \in ScannerState, ScannerStep(next),
             PositionOK(next),
             DOMAIN farmers' \subseteq Launchers, farmers' \in [DOMAIN farmers' -> FarmerRow],
             DOMAIN singletons' \subseteq Launchers,
             singletons' \in [DOMAIN singletons' -> {"coin"}],
             DOMAIN partials' \subseteq Proofs, partials' \in [DOMAIN partials' -> PartialRow]
      PROVE  TypeOK' /\ LauncherInv'
  BY <1>1 DEF ScannerStep, TypeOK, LauncherInv, history
<1>2. /\ scanner \in ScannerState /\ IdleScanner \in ScannerState
      /\ DOMAIN farmers \subseteq Launchers /\ farmers \in [DOMAIN farmers -> FarmerRow]
      /\ DOMAIN singletons \subseteq Launchers /\ singletons \in [DOMAIN singletons -> {"coin"}]
      /\ DOMAIN partials \subseteq Proofs /\ partials \in [DOMAIN partials -> PartialRow]
      /\ get_latest_payout(payouts) \in Times
  BY LatestIsPast DEF TypeOK, ScannerState, IdleScanner, Times
<1>3. Continue \in ScannerState /\ PositionOK(Continue)
  BY <1>2 DEF Continue, PositionOK, ScannerState, IdleScanner
<1>4. ASSUME NEW next \in ScannerState, Reading(next), PositionOK(next)
      PROVE  TypeOK' /\ LauncherInv'
  BY <1>1, <1>2, <1>4 DEF Reading
<1>5. CASE ScanBegin
  <2>1. [IdleScanner EXCEPT !.pc = "fetch"] \in ScannerState
    BY <1>2 DEF ScannerState
  <2> QED BY <1>4, <1>5, <2>1 DEF ScanBegin, IdleScanner, PositionOK
<1>6. CASE ScanFetch
  <2> DEFINE page == get_launcher_ids(farmers, scanner.start, PageSize)
             next == [IdleScanner EXCEPT !.pc = "launcher", !.todo = page,
                                         !.start = scanner.start + PageSize]
  <2>1. page \subseteq Launchers
    BY <1>2 DEF get_launcher_ids
  <2>2. scanner.start + PageSize \in Nat
    BY <1>2 DEF ScannerState
  <2>3. next \in ScannerState /\ next.todo = page
    <3> HIDE DEF page
    <3> QED BY <1>2, <2>1, <2>2 DEF ScannerState, IdleScanner
  <2>4. IF page = {} THEN Reading(IdleScanner) ELSE Reading(next)
    BY <1>6 DEF ScanFetch
  <2>5. PositionOK(IdleScanner) /\ (page # {} => PositionOK(next))
    <3> HIDE DEF page
    <3> QED BY DEF IdleScanner, PositionOK
  <2> HIDE DEF page, next
  <2> QED BY <1>2, <1>4, <2>3, <2>4, <2>5
<1>7. CASE ScanRead
  <2>1. Min(scanner.todo) \in Launchers
    BY <1>2, <1>7, FirstOfPage DEF ScanRead, LauncherInv, PositionOK, ScannerState
  <2>2. PICK l \in Launchers, own \in BOOLEAN :
          Reading([scanner EXCEPT !.pc = "lookup", !.todo = @ \ {l}, !.launcher = l,
                     !.own_key = own])
    BY <1>7, <2>1 DEF ScanRead
  <2>3. [scanner EXCEPT !.pc = "lookup", !.todo = @ \ {l}, !.launcher = l,
                     !.own_key = own] \in ScannerState
    BY <1>2 DEF ScannerState
  <2>4. PositionOK([scanner EXCEPT !.pc = "lookup", !.todo = @ \ {l}, !.launcher = l,
                     !.own_key = own])
    BY <1>2 DEF ScannerState, PositionOK
  <2> QED BY <1>4, <2>2, <2>3, <2>4
<1>8. CASE ScanLookup
  <2>1. [scanner EXCEPT !.pc = IF CoinFound = "absent" THEN "payout" ELSE "found"]
          \in ScannerState
    BY <1>2 DEF ScannerState
  <2> QED BY <1>2, <1>4, <1>8, <2>1 DEF ScannerState, ScanLookup, LauncherInv, PositionOK
<1>9. CASE ScanYoung
  BY <1>3, <1>4, <1>9 DEF ScanYoung
<1>10. CASE ScanAddSingleton
  <2>1. scanner.launcher \in Launchers
    BY <1>10 DEF ScanAddSingleton, LauncherInv, PositionOK
  <2>2. DOMAIN singletons' \subseteq Launchers /\ singletons' \in [DOMAIN singletons' -> {"coin"}]
    BY <1>2, <1>10, <2>1 DEF ScanAddSingleton, add_singleton, Upsert
  <2> QED BY <1>1, <1>2, <1>3, <1>10, <2>2 DEF ScanAddSingleton
<1>11. CASE ScanPayout
  <2>1. [scanner EXCEPT !.pc = "confirmed", !.since = get_latest_payout(payouts)]
          \in ScannerState
    BY <1>2 DEF ScannerState
  <2> QED BY <1>2, <1>4, <1>11, <2>1
          DEF ScanPayout, ScannerState, LauncherInv, PositionOK
<1>12. CASE ScanConfirmed
  <2>1. PICK active \in BOOLEAN, found \in SUBSET (Proofs \X Times) :
          Reading([scanner EXCEPT !.pc = "unconfirmed", !.active = active, !.found = found])
    BY <1>12, FindableType DEF ScanConfirmed
  <2>2. [scanner EXCEPT !.pc = "unconfirmed", !.active = active, !.found = found]
          \in ScannerState
    BY <1>2, <2>1 DEF ScannerState
  <2> QED BY <1>2, <1>4, <1>12, <2>1, <2>2
          DEF ScanConfirmed, ScannerState, LauncherInv, PositionOK
<1>13. CASE ScanUnconfirmed
  <2> DEFINE next == [scanner EXCEPT !.pc = "delete_farmer",
                                     !.found = @ \cup Findable(FALSE)]
  <2>1. next \in ScannerState
    BY <1>2, FindableType DEF ScannerState
  <2>2. CASE Reading(Continue)
    BY <1>3, <1>4, <2>2
  <2>3. CASE Reading(next)
    BY <1>2, <1>4, <1>13, <2>1, <2>3
       DEF ScanUnconfirmed, ScannerState, LauncherInv, PositionOK
  <2> QED BY <1>13, <2>2, <2>3 DEF ScanUnconfirmed
<1>14. CASE ScanDeleteFarmer
  <2>1. [scanner EXCEPT !.pc = "delete_singleton"] \in ScannerState
    BY <1>2 DEF ScannerState
  <2> QED BY <1>1, <1>2, <1>14, <2>1
          DEF ScanDeleteFarmer, ScannerState, LauncherInv, PositionOK, delete_farmer, Without
<1>15. CASE ScanDeleteSingleton
  <2>1. [scanner EXCEPT !.pc = "delete_partials"] \in ScannerState
    BY <1>2 DEF ScannerState
  <2> QED BY <1>1, <1>2, <1>15, <2>1
          DEF ScanDeleteSingleton, ScannerState, LauncherInv, PositionOK, delete_singleton, Without
<1>16. CASE ScanDeletePartials
  BY <1>1, <1>2, <1>3, <1>16 DEF ScanDeletePartials, delete_all_partials, Without
<1>17. CASE ScanSeveral
  BY <1>2, <1>4, <1>17 DEF ScanSeveral, IdleScanner, PositionOK
<1> QED BY <1>5, <1>6, <1>7, <1>8, <1>9, <1>10, <1>11, <1>12, <1>13, <1>14, <1>15, <1>16, <1>17
        DEF ScannerNext

\* A handler or a scan raises, or the server is restarted.
LEMMA AbortType ==
  ASSUME TypeOK, LauncherInv,
         Restart \/ \E r \in Requests : RequestFails(r)
  PROVE  TypeOK' /\ LauncherInv'
<1> USE FarmersAssumption DEF TypeOK, LauncherInv, Abort, tables, history
<1>1. IdleRequest \in RequestState /\ IdleScanner \in ScannerState /\ PositionOK(IdleScanner)
  BY DEF RequestState, IdleScanner, ScannerState, PositionOK, Times
<1>2. CASE Restart
  BY <1>1, <1>2 DEF Restart
<1>3. ASSUME NEW r \in Requests, RequestFails(r) PROVE TypeOK' /\ LauncherInv'
  BY <1>1, <1>3 DEF RequestFails
<1> QED BY <1>2, <1>3

LEMMA NextType ==
  ASSUME TypeOK, LauncherInv, [Next]_vars
  PROVE  TypeOK' /\ LauncherInv'
<1>1. CASE UNCHANGED vars
  BY <1>1 DEF vars, tables, history, TypeOK, LauncherInv
<1> QED BY <1>1, OthersType, RequestType, ScannerType, AbortType DEF Next

\* TypeOK holds for any farmers, requests, page size and owners: the scan is
\* never at a farmer it does not have, and no handler writes a row that is not
\* one (farmer_rpc/v2.py, service.py:94-138).
THEOREM TypeCorrect == Spec => []TypeOK
<1>1. Init => TypeOK /\ LauncherInv
  BY TypeInit
<1>2. TypeOK /\ LauncherInv /\ [Next]_vars => (TypeOK /\ LauncherInv)'
  BY NextType
<1> QED BY <1>1, <1>2, PTL DEF Spec

-----------------------------------------------------------------------------

\* The scan has only farmers of the table before it, and itself removes the one
\* it is at; nobody else deletes a farmer.
BeforeDelete == {"lookup", "found", "payout", "confirmed", "unconfirmed", "delete_farmer"}

MembersOK(s) ==
  /\ s.todo \subseteq DOMAIN farmers
  /\ s.launcher \notin s.todo
  /\ s.pc \in BeforeDelete => s.launcher \in DOMAIN farmers

MembersInv == TypeOK /\ LauncherInv /\ MembersOK(scanner) /\ NothingKeptOfUnknown

LEMMA MembersInit == Init => MembersInv
BY TypeInit
   DEF Init, MembersInv, MembersOK, BeforeDelete, IdleScanner, NothingKeptOfUnknown, RowsOf

\* A step of others that keeps every farmer and adds rows to farmers or to a
\* handler that will put its farmer back.
LEMMA MembersGrow ==
  ASSUME MembersInv, TypeOK', LauncherInv',
         DOMAIN farmers \subseteq DOMAIN farmers',
         scanner' = scanner, singletons' = singletons, aborts' = aborts,
         \A l \in Launchers \ DOMAIN farmers' :
           (RowsOf(l))' # {} => RowsOf(l) # {} \/ Adjusting(l)',
         \A l \in Launchers \ DOMAIN farmers' : Adjusting(l) => Adjusting(l)'
  PROVE  MembersInv'
<1>1. MembersOK(scanner)'
  BY DEF MembersInv, MembersOK
<1>2. NothingKeptOfUnknown'
  <2> SUFFICES ASSUME aborts = 0, NEW l \in Launchers \ DOMAIN farmers'
               PROVE  /\ (RowsOf(l))' # {} => Pruning(l)' \/ Adjusting(l)'
                      /\ l \in DOMAIN singletons => Pruning(l)' /\ scanner.pc = "delete_singleton"
    BY DEF NothingKeptOfUnknown
  <2>1. l \in Launchers \ DOMAIN farmers
    OBVIOUS
  <2>2. Pruning(l)' <=> Pruning(l)
    BY DEF Pruning
  <2>3. /\ RowsOf(l) # {} => Pruning(l) \/ Adjusting(l)
        /\ l \in DOMAIN singletons => Pruning(l) /\ scanner.pc = "delete_singleton"
    BY <2>1 DEF MembersInv, NothingKeptOfUnknown
  <2> QED BY <2>2, <2>3
<1> QED BY <1>1, <1>2 DEF MembersInv

LEMMA OthersMembers ==
  ASSUME MembersInv,
         \/ Tick \/ Payout
         \/ \E l \in Launchers : CoinMoves(l) \/ Confirm(l)
         \/ \E p \in Proofs : Discard(p)
  PROVE  MembersInv'
<1>1. TypeOK' /\ LauncherInv'
  BY OthersType DEF MembersInv
<1>2. /\ farmers' = farmers /\ scanner' = scanner /\ singletons' = singletons
      /\ aborts' = aborts /\ request' = request
  BY DEF Tick, Payout, CoinMoves, Confirm, Discard, OtherLoop, tables
<1>3. \A l \in Launchers : Adjusting(l)' <=> Adjusting(l)
  BY <1>2 DEF Adjusting
<1>4. \A l \in Launchers : (RowsOf(l))' \subseteq RowsOf(l)
  <2>1. CASE partials' = partials
    BY <2>1 DEF RowsOf
  <2>2. ASSUME NEW k \in Launchers, Confirm(k)
        PROVE  \A l \in Launchers : (RowsOf(l))' \subseteq RowsOf(l)
    <3>1. PICK until : partials' = confirm_partials(partials, k, until)
      BY <2>2 DEF Confirm
    <3>2. DOMAIN partials' = DOMAIN partials
      BY <3>1 DEF confirm_partials
    <3>3. \A p \in DOMAIN partials : partials[p] \in PartialRow
      BY DEF MembersInv, TypeOK
    <3>4. \A p \in DOMAIN partials : partials'[p].launcher_id = partials[p].launcher_id
      BY <3>1, <3>3 DEF confirm_partials, PartialRow
    <3> QED BY <3>2, <3>4 DEF RowsOf
  <2>3. ASSUME NEW p \in Proofs, Discard(p)
        PROVE  \A l \in Launchers : (RowsOf(l))' \subseteq RowsOf(l)
    BY <2>3 DEF Discard, delete_partial, Without, RowsOf
  <2> QED BY <2>1, <2>2, <2>3 DEF Tick, Payout, CoinMoves, tables
<1> QED BY <1>1, <1>2, <1>3, <1>4, MembersGrow

LEMMA RequestMembers ==
  ASSUME MembersInv, NEW r \in Requests, RequestNext(r)
  PROVE  MembersInv'
<1>1. TypeOK' /\ LauncherInv' /\ TypeOK
  BY RequestType DEF MembersInv
<1>2. /\ scanner' = scanner /\ singletons' = singletons /\ aborts' = aborts
      /\ \E next : request' = [request EXCEPT ![r] = next]
  BY DEF RequestNext, PostFarmerCheck, PutFarmerRead, PartialRead, PostFarmerStore,
         PutFarmerStore, PartialStore, PartialReject, PartialWriteBack, RequestStep
<1>3. request \in [Requests -> RequestState]
  BY <1>1 DEF TypeOK
<1>4. ASSUME farmers' = farmers, partials' = partials, request[r].pc # "adjust"
      PROVE  MembersInv'
  <2>1. \A l \in Launchers : (RowsOf(l))' = RowsOf(l)
    BY <1>4 DEF RowsOf
  <2>2. \A l \in Launchers : Adjusting(l) => Adjusting(l)'
    BY <1>2, <1>3, <1>4 DEF Adjusting
  <2> QED BY <1>1, <1>2, <1>4, <2>1, <2>2, MembersGrow
<1>5. ASSUME NEW row, farmers' = add_farmer(farmers, request[r].launcher, row),
             partials' = partials
      PROVE  MembersInv'
  <2>1. DOMAIN farmers' = DOMAIN farmers \cup {request[r].launcher}
    BY <1>5 DEF add_farmer, Upsert
  <2>2. \A l \in Launchers : (RowsOf(l))' = RowsOf(l)
    BY <1>5 DEF RowsOf
  <2>3. \A l \in Launchers \ DOMAIN farmers' : Adjusting(l) => Adjusting(l)'
    BY <1>2, <1>3, <2>1 DEF Adjusting
  <2> QED BY <1>1, <1>2, <2>1, <2>2, <2>3, MembersGrow
<1>6. CASE PartialStore(r)
  <2>1. /\ farmers' = farmers /\ request[r].pc = "check"
        /\ partials' = add_partial(partials, request[r].launcher, request[r].proof,
                                   request[r].current_time)
        /\ request' = [request EXCEPT ![r] = [pc |-> "adjust", launcher |-> request[r].launcher,
                                              farmer |-> request[r].farmer]]
    BY <1>6 DEF PartialStore, RequestStep
  <2>2. Adjusting(request[r].launcher)'
    BY <1>3, <2>1 DEF Adjusting
  <2>3. \A l \in Launchers : Adjusting(l) => Adjusting(l)'
    BY <1>3, <2>1 DEF Adjusting
  <2>4. \A l \in Launchers : l # request[r].launcher => (RowsOf(l))' \subseteq RowsOf(l)
    BY <2>1 DEF RowsOf, add_partial, Upsert
  <2> QED BY <1>1, <1>2, <2>1, <2>2, <2>3, <2>4, MembersGrow
<1>7. ASSUME NEW l \in Launchers, PostFarmerCheck(r, l) \/ PutFarmerRead(r, l) PROVE MembersInv'
  BY <1>4, <1>7 DEF PostFarmerCheck, PutFarmerRead
<1>8. ASSUME NEW p \in Proofs, PartialRead(r, p) PROVE MembersInv'
  BY <1>4, <1>8 DEF PartialRead
<1>9. CASE PostFarmerStore(r)
  BY <1>5, <1>9 DEF PostFarmerStore
<1>10. CASE PutFarmerStore(r)
  BY <1>5, <1>10 DEF PutFarmerStore
<1>11. CASE PartialReject(r)
  BY <1>4, <1>11 DEF PartialReject
<1>12. CASE PartialWriteBack(r)
  BY <1>5, <1>12 DEF PartialWriteBack
<1> QED BY <1>6, <1>7, <1>8, <1>9, <1>10, <1>11, <1>12 DEF RequestNext

LEMMA ScannerMembers ==
  ASSUME MembersInv, ScannerNext
  PROVE  MembersInv'
<1>1. TypeOK' /\ LauncherInv' /\ TypeOK /\ LauncherInv
  BY ScannerType DEF MembersInv
<1>2. /\ aborts' = aborts /\ request' = request
      /\ scanner \in ScannerState /\ MembersOK(scanner)
      /\ \A l \in Launchers : Adjusting(l)' <=> Adjusting(l)
  BY <1>1 DEF MembersInv, TypeOK, Adjusting, ScannerNext, ScannerStep, Reading, ScanBegin,
              ScanFetch, ScanRead, ScanSeveral, ScanLookup, ScanYoung, ScanAddSingleton, ScanPayout,
              ScanConfirmed, ScanUnconfirmed, ScanDeleteFarmer, ScanDeleteSingleton,
              ScanDeletePartials
<1>3. ASSUME farmers' = farmers, singletons' = singletons, partials' = partials,
             scanner.pc \notin {"delete_singleton", "delete_partials"}, MembersOK(scanner')
      PROVE  MembersInv'
  <2>1. \A l \in Launchers : (RowsOf(l))' = RowsOf(l)
    BY <1>3 DEF RowsOf
  <2>2. NothingKeptOfUnknown'
    BY <1>2, <1>3, <2>1 DEF MembersInv, NothingKeptOfUnknown, Pruning
  <2>3. MembersOK(scanner)'
    BY <1>3 DEF MembersOK
  <2> QED BY <1>1, <2>2, <2>3 DEF MembersInv
<1>4. MembersOK(Continue) /\ MembersOK(IdleScanner)
  BY <1>1, <1>2, FarmersAssumption
     DEF MembersOK, Continue, IdleScanner, BeforeDelete, ScannerState
<1>5. ASSUME NEW next, Reading(next), MembersOK(next),
             scanner.pc \notin {"delete_singleton", "delete_partials"}
      PROVE  MembersInv'
  BY <1>3, <1>5 DEF Reading, ScannerStep
<1>6. CASE ScanBegin
  BY <1>5, <1>6 DEF ScanBegin, MembersOK, IdleScanner, BeforeDelete
<1>7. CASE ScanFetch
  <2> DEFINE page == get_launcher_ids(farmers, scanner.start, PageSize)
             next == [IdleScanner EXCEPT !.pc = "launcher", !.todo = page,
                                         !.start = scanner.start + PageSize]
  <2>1. page \subseteq DOMAIN farmers /\ 0 \notin DOMAIN farmers
    BY <1>1, FarmersAssumption DEF get_launcher_ids, TypeOK
  <2>2. MembersOK(next)
    <3> HIDE DEF page
    <3> QED BY <2>1 DEF MembersOK, IdleScanner, BeforeDelete
  <2>3. scanner.pc = "fetch" /\ IF page = {} THEN Reading(IdleScanner) ELSE Reading(next)
    BY <1>7 DEF ScanFetch
  <2> HIDE DEF page, next
  <2> QED BY <1>4, <1>5, <2>2, <2>3
<1>8. CASE ScanRead
  <2>1. Min(scanner.todo) \in scanner.todo
    BY <1>1, <1>8, FirstOfPage DEF ScanRead, LauncherInv, PositionOK
  <2>2. PICK l \in scanner.todo, own \in BOOLEAN :
          Reading([scanner EXCEPT !.pc = "lookup", !.todo = @ \ {l}, !.launcher = l,
                     !.own_key = own])
    BY <1>8, <2>1 DEF ScanRead
  <2>3. MembersOK([scanner EXCEPT !.pc = "lookup", !.todo = @ \ {l}, !.launcher = l,
                     !.own_key = own])
    BY <1>2 DEF MembersOK, ScannerState
  <2> QED BY <1>5, <1>8, <2>2, <2>3 DEF ScanRead
<1>9. CASE ScanLookup
  <2>1. PICK pc \in BeforeDelete : Reading([scanner EXCEPT !.pc = pc])
    BY <1>9 DEF ScanLookup, BeforeDelete
  <2>2. MembersOK([scanner EXCEPT !.pc = pc])
    BY <1>2, <1>9 DEF ScanLookup, MembersOK, ScannerState, BeforeDelete
  <2> QED BY <1>5, <1>9, <2>1, <2>2 DEF ScanLookup
<1>10. CASE ScanYoung
  BY <1>4, <1>5, <1>10 DEF ScanYoung
<1>11. CASE ScanAddSingleton
  <2>1. /\ farmers' = farmers /\ partials' = partials /\ scanner' = Continue
        /\ scanner.pc = "found" /\ scanner.launcher \in DOMAIN farmers
        /\ DOMAIN singletons' = DOMAIN singletons \cup {scanner.launcher}
    BY <1>2, <1>11 DEF ScanAddSingleton, ScannerStep, add_singleton, Upsert, MembersOK,
                       BeforeDelete
  <2>2. MembersOK(scanner)'
    BY <1>4, <2>1 DEF MembersOK
  <2>3. \A l \in Launchers : (RowsOf(l))' = RowsOf(l)
    BY <2>1 DEF RowsOf
  <2>4. NothingKeptOfUnknown'
    BY <1>2, <2>1, <2>3 DEF MembersInv, NothingKeptOfUnknown, Pruning
  <2> QED BY <1>1, <2>2, <2>4 DEF MembersInv
<1>12. CASE ScanPayout
  <2>1. PICK since : Reading([scanner EXCEPT !.pc = "confirmed", !.since = since])
    BY <1>12 DEF ScanPayout
  <2>2. MembersOK([scanner EXCEPT !.pc = "confirmed", !.since = since])
    BY <1>2, <1>12 DEF ScanPayout, MembersOK, ScannerState, BeforeDelete
  <2> QED BY <1>5, <1>12, <2>1, <2>2 DEF ScanPayout
<1>13. CASE ScanConfirmed
  <2>1. PICK active, found :
          Reading([scanner EXCEPT !.pc = "unconfirmed", !.active = active, !.found = found])
    BY <1>13 DEF ScanConfirmed
  <2>2. MembersOK([scanner EXCEPT !.pc = "unconfirmed", !.active = active, !.found = found])
    BY <1>2, <1>13 DEF ScanConfirmed, MembersOK, ScannerState, BeforeDelete
  <2> QED BY <1>5, <1>13, <2>1, <2>2 DEF ScanConfirmed
<1>14. CASE ScanUnconfirmed
  <2>1. PICK found :
          Reading(Continue) \/ Reading([scanner EXCEPT !.pc = "delete_farmer", !.found = found])
    BY <1>14 DEF ScanUnconfirmed
  <2>2. MembersOK([scanner EXCEPT !.pc = "delete_farmer", !.found = found])
    BY <1>2, <1>14 DEF ScanUnconfirmed, MembersOK, ScannerState, BeforeDelete
  <2> QED BY <1>4, <1>5, <1>14, <2>1, <2>2 DEF ScanUnconfirmed
<1>15. CASE ScanDeleteFarmer
  <2>1. /\ singletons' = singletons /\ partials' = partials /\ scanner.pc = "delete_farmer"
        /\ DOMAIN farmers' = DOMAIN farmers \ {scanner.launcher}
        /\ scanner' = [scanner EXCEPT !.pc = "delete_singleton"]
    BY <1>15 DEF ScanDeleteFarmer, ScannerStep, delete_farmer, Without
  <2>2. /\ scanner'.pc = "delete_singleton" /\ scanner'.launcher = scanner.launcher
        /\ scanner'.todo = scanner.todo
    BY <1>2, <2>1 DEF ScannerState
  <2>3. MembersOK(scanner)'
    BY <1>2, <2>1, <2>2 DEF MembersOK, BeforeDelete
  <2>4. \A l \in Launchers : (RowsOf(l))' = RowsOf(l)
    BY <2>1 DEF RowsOf
  <2>5. NothingKeptOfUnknown'
    <3> SUFFICES ASSUME aborts = 0, NEW l \in Launchers \ DOMAIN farmers'
                 PROVE  /\ RowsOf(l) # {} => Pruning(l)' \/ Adjusting(l)
                        /\ l \in DOMAIN singletons => Pruning(l)'
      BY <1>2, <2>1, <2>2, <2>4 DEF NothingKeptOfUnknown
    <3>1. CASE l = scanner.launcher
      BY <2>2, <3>1 DEF Pruning
    <3>2. CASE l # scanner.launcher
      BY <2>1, <3>2 DEF MembersInv, NothingKeptOfUnknown, Pruning
    <3> QED BY <3>1, <3>2
  <2> QED BY <1>1, <2>3, <2>5 DEF MembersInv
<1>16. CASE ScanDeleteSingleton
  <2>1. /\ farmers' = farmers /\ partials' = partials /\ scanner.pc = "delete_singleton"
        /\ DOMAIN singletons' = DOMAIN singletons \ {scanner.launcher}
        /\ scanner' = [scanner EXCEPT !.pc = "delete_partials"]
    BY <1>16 DEF ScanDeleteSingleton, ScannerStep, delete_singleton, Without
  <2>2. /\ scanner'.pc = "delete_partials" /\ scanner'.launcher = scanner.launcher
        /\ scanner'.todo = scanner.todo
    BY <1>2, <2>1 DEF ScannerState
  <2>3. MembersOK(scanner)'
    BY <1>2, <2>1, <2>2 DEF MembersOK, BeforeDelete
  <2>4. \A l \in Launchers : (RowsOf(l))' = RowsOf(l) /\ (Pruning(l)' <=> Pruning(l))
    BY <2>1, <2>2 DEF RowsOf, Pruning
  <2>5. NothingKeptOfUnknown'
    BY <1>2, <2>1, <2>4 DEF MembersInv, NothingKeptOfUnknown, Pruning
  <2> QED BY <1>1, <2>3, <2>5 DEF MembersInv
<1>17. CASE ScanDeletePartials
  <2>1. /\ farmers' = farmers /\ singletons' = singletons /\ scanner.pc = "delete_partials"
        /\ partials' = delete_all_partials(partials, scanner.launcher)
        /\ scanner' = Continue
    BY <1>17 DEF ScanDeletePartials, ScannerStep
  <2>2. MembersOK(scanner)'
    BY <1>4, <2>1 DEF MembersOK
  <2>3. \A l \in Launchers : /\ l = scanner.launcher => (RowsOf(l))' = {}
                             /\ (RowsOf(l))' \subseteq RowsOf(l)
    BY <2>1 DEF RowsOf, delete_all_partials, Without
  <2>4. NothingKeptOfUnknown'
    BY <1>2, <2>1, <2>3 DEF MembersInv, NothingKeptOfUnknown, Pruning
  <2> QED BY <1>1, <2>2, <2>4 DEF MembersInv
<1>18. CASE ScanSeveral
  BY <1>4, <1>5, <1>18 DEF ScanSeveral
<1> QED BY <1>6, <1>7, <1>8, <1>9, <1>10, <1>11, <1>12, <1>13, <1>14, <1>15, <1>16, <1>17, <1>18
        DEF ScannerNext

\* A run that is cut short may leave rows behind: the property says so.
LEMMA AbortMembers ==
  ASSUME MembersInv, Restart \/ \E r \in Requests : RequestFails(r)
  PROVE  MembersInv'
<1>1. TypeOK' /\ LauncherInv'
  BY AbortType DEF MembersInv
<1>2. aborts' # 0 /\ farmers' = farmers
  BY FarmersAssumption DEF MembersInv, TypeOK, Restart, RequestFails, Abort, tables
<1>3. scanner' = scanner \/ scanner' = IdleScanner
  BY DEF Restart, RequestFails
<1>4. MembersOK(scanner)'
  BY <1>2, <1>3 DEF MembersInv, MembersOK, IdleScanner, BeforeDelete
<1>5. NothingKeptOfUnknown'
  BY <1>2 DEF NothingKeptOfUnknown
<1> QED BY <1>1, <1>4, <1>5 DEF MembersInv

\* Nothing is kept of a farmer the pool does not know, whatever handlers and
\* loops do between the deletes of the scan (service.py:136-138) and around the
\* write-back of a handler (v2.py:412-439), for any number of them.
THEOREM NothingKept == Spec => []NothingKeptOfUnknown
<1>1. Init => MembersInv
  BY MembersInit
<1>2. MembersInv /\ [Next]_vars => MembersInv'
  <2> SUFFICES ASSUME MembersInv, [Next]_vars PROVE MembersInv'
    OBVIOUS
  <2>1. CASE UNCHANGED vars
    BY <2>1 DEF vars, tables, history, MembersInv, TypeOK, LauncherInv, MembersOK, NothingKeptOfUnknown,
                RowsOf, Pruning, Adjusting
  <2> QED BY <2>1, OthersMembers, RequestMembers, ScannerMembers, AbortMembers DEF Next
<1>3. MembersInv => NothingKeptOfUnknown
  BY DEF MembersInv
<1> QED BY <1>1, <1>2, <1>3, PTL DEF Spec

-----------------------------------------------------------------------------

\* The row that a handler will write back still has the instructions that were
\* acknowledged last, unless it was read before and they are contested.
HeldInv ==
  \A r \in Requests :
    Keeps(request[r]) /\ request[r].launcher \in DOMAIN acked \ contested =>
      request[r].farmer.payout_instructions = acked[request[r].launcher]

SettingsInv == TypeOK /\ LauncherInv /\ HeldInv /\ UpdatesStickUncontested

LEMMA SettingsInit == Init => SettingsInv
BY TypeInit DEF Init, SettingsInv, HeldInv, Keeps, UpdatesStickUncontested, IdleRequest

\* New instructions are acknowledged with the row that has them.
LEMMA AcknowledgeSettings ==
  ASSUME SettingsInv, NEW r \in Requests, NEW l \in Launchers, NEW row \in FarmerRow,
         farmers' = add_farmer(farmers, l, row), Acknowledge(r, l, row.payout_instructions),
         RequestStep(r, IdleRequest)
  PROVE  HeldInv' /\ UpdatesStickUncontested'
<1>1. /\ request \in [Requests -> RequestState] /\ DOMAIN acked \subseteq Followed
      /\ HeldInv /\ UpdatesStickUncontested
  BY DEF SettingsInv, TypeOK
<1>2. /\ \A o \in Requests \ {r} : request'[o] = request[o]
      /\ ~Keeps(request'[r])
  BY <1>1 DEF RequestStep, IdleRequest, Keeps
<1>3. /\ DOMAIN farmers' = DOMAIN farmers \cup {l} /\ farmers'[l] = row
      /\ \A k \in DOMAIN farmers' : k # l => farmers'[k] = farmers[k]
  BY DEF add_farmer, Upsert
<1>4. CASE l \notin Followed
  <2>1. acked' = acked /\ contested' = contested
    BY <1>4 DEF Acknowledge, history
  <2>2. HeldInv'
    BY <1>1, <1>2, <2>1 DEF HeldInv
  <2>3. UpdatesStickUncontested'
    BY <1>1, <1>3, <1>4, <2>1 DEF UpdatesStickUncontested
  <2> QED BY <2>2, <2>3
<1>5. CASE l \in Followed
  <2>1. /\ DOMAIN acked' = DOMAIN acked \cup {l} /\ acked'[l] = row.payout_instructions
        /\ \A k \in DOMAIN acked' : k # l => acked'[k] = acked[k]
        /\ \A k : k # l => (k \in contested' <=> k \in contested)
        /\ l \notin contested' => ~HeldByOthers(r, l)
    BY <1>5 DEF Acknowledge, Upsert
  <2>2. HeldInv'
    BY <1>1, <1>2, <2>1 DEF HeldInv, HeldByOthers
  <2>3. UpdatesStickUncontested'
    BY <1>1, <1>3, <2>1 DEF UpdatesStickUncontested
  <2> QED BY <2>2, <2>3
<1> QED BY <1>4, <1>5

LEMMA RequestSettings ==
  ASSUME SettingsInv, NEW r \in Requests, RequestNext(r)
  PROVE  HeldInv' /\ UpdatesStickUncontested'
<1>1. /\ request \in [Requests -> RequestState] /\ request[r] \in RequestState
      /\ DOMAIN farmers \subseteq Launchers /\ farmers \in [DOMAIN farmers -> FarmerRow]
      /\ HeldInv /\ UpdatesStickUncontested
  BY DEF SettingsInv, TypeOK
<1>2. ASSUME NEW next, RequestStep(r, next), UNCHANGED history,
             Keeps(next) /\ next.launcher \in DOMAIN acked \ contested =>
               next.farmer.payout_instructions = acked[next.launcher]
      PROVE  HeldInv'
  <2>1. /\ request'[r] = next
        /\ \A o \in Requests \ {r} : request'[o] = request[o]
    BY <1>1, <1>2 DEF RequestStep
  <2> QED BY <1>1, <1>2, <2>1 DEF HeldInv, history
<1>3. ASSUME farmers' = farmers, UNCHANGED history PROVE UpdatesStickUncontested'
  BY <1>1, <1>3 DEF UpdatesStickUncontested, history
<1>4. ASSUME NEW row, farmers' = add_farmer(farmers, request[r].launcher, row),
             UNCHANGED history, RequestStep(r, IdleRequest), Keeps(request[r]),
             row.payout_instructions = request[r].farmer.payout_instructions
      PROVE  HeldInv' /\ UpdatesStickUncontested'
  <2>1. HeldInv'
    BY <1>2, <1>4 DEF IdleRequest, Keeps
  <2>2. UpdatesStickUncontested'
    BY <1>1, <1>4 DEF HeldInv, UpdatesStickUncontested, add_farmer, Upsert, history
  <2> QED BY <2>1, <2>2
<1>5. ASSUME NEW l \in Launchers, PostFarmerCheck(r, l) PROVE HeldInv' /\ UpdatesStickUncontested'
  <2>1. PICK row \in FarmerRow : RequestStep(r, [pc |-> "post", launcher |-> l, farmer |-> row])
    BY <1>5 DEF PostFarmerCheck
  <2> QED BY <1>2, <1>3, <1>5, <2>1 DEF PostFarmerCheck, Keeps
<1>6. ASSUME NEW l \in Launchers, PutFarmerRead(r, l) PROVE HeldInv' /\ UpdatesStickUncontested'
  <2>1. PICK new \in FarmerRow, fields \in SUBSET DOMAIN farmers[l] :
          RequestStep(r, [pc |-> "put", launcher |-> l, farmer |-> Merged(farmers[l], new, fields),
                          instructed |-> "payout_instructions" \in fields])
    BY <1>6 DEF PutFarmerRead
  <2>2. farmers[l] \in FarmerRow /\ l \in DOMAIN farmers
    BY <1>1, <1>6 DEF PutFarmerRead
  <2>3. "payout_instructions" \notin fields =>
          Merged(farmers[l], new, fields).payout_instructions = farmers[l].payout_instructions
    BY <2>2 DEF Merged, FarmerRow
  <2>4. l \in DOMAIN acked \ contested => farmers[l].payout_instructions = acked[l]
    BY <1>1, <2>2 DEF UpdatesStickUncontested
  <2> QED BY <1>2, <1>3, <1>6, <2>1, <2>3, <2>4 DEF PutFarmerRead, Keeps
<1>7. ASSUME NEW p \in Proofs, PartialRead(r, p) PROVE HeldInv' /\ UpdatesStickUncontested'
  <2>1. Owner[p] \in DOMAIN acked \ contested =>
          farmers[Owner[p]].payout_instructions = acked[Owner[p]]
    BY <1>1, <1>7 DEF PartialRead, UpdatesStickUncontested
  <2> QED BY <1>2, <1>3, <1>7, <2>1 DEF PartialRead
<1>8. CASE PostFarmerStore(r)
  <2>1. request[r].launcher \in Launchers /\ request[r].farmer \in FarmerRow
    BY <1>1, <1>8 DEF PostFarmerStore, RequestState, IdleRequest
  <2> QED BY <1>8, <2>1, AcknowledgeSettings DEF PostFarmerStore
<1>9. CASE PutFarmerStore(r)
  <2>1. request[r].launcher \in Launchers /\ request[r].farmer \in FarmerRow
    BY <1>1, <1>9 DEF PutFarmerStore, RequestState, IdleRequest
  <2>2. CASE request[r].instructed
    BY <1>9, <2>1, <2>2, AcknowledgeSettings DEF PutFarmerStore
  <2>3. CASE ~request[r].instructed
    BY <1>4, <1>9, <2>3 DEF PutFarmerStore, Keeps
  <2> QED BY <2>2, <2>3
<1>10. CASE PartialStore(r)
  <2> DEFINE next == [pc |-> "adjust", launcher |-> request[r].launcher,
                      farmer |-> request[r].farmer]
  <2>1. Keeps(next) /\ next.launcher \in DOMAIN acked \ contested =>
          next.farmer.payout_instructions = acked[next.launcher]
    BY <1>1, <1>10 DEF PartialStore, HeldInv, Keeps
  <2>2. RequestStep(r, next) /\ UNCHANGED history /\ farmers' = farmers
    BY <1>10 DEF PartialStore
  <2> HIDE DEF next
  <2> QED BY <1>2, <1>3, <2>1, <2>2
<1>11. CASE PartialReject(r)
  BY <1>2, <1>3, <1>11 DEF PartialReject, IdleRequest, Keeps
<1>12. CASE PartialWriteBack(r)
  <2>1. PICK d \in Difficulties :
          farmers' = add_farmer(farmers, request[r].launcher,
                                [request[r].farmer EXCEPT !.difficulty = d])
    BY <1>12 DEF PartialWriteBack
  <2>2. request[r].farmer \in FarmerRow /\ Keeps(request[r])
    BY <1>1, <1>12 DEF PartialWriteBack, RequestState, IdleRequest, Keeps
  <2>3. [request[r].farmer EXCEPT !.difficulty = d].payout_instructions
          = request[r].farmer.payout_instructions
    BY <2>2 DEF FarmerRow
  <2> QED BY <1>4, <1>12, <2>1, <2>2, <2>3 DEF PartialWriteBack
<1> QED BY <1>5, <1>6, <1>7, <1>8, <1>9, <1>10, <1>11, <1>12 DEF RequestNext

LEMMA OthersSettings ==
  ASSUME SettingsInv,
         \/ Tick \/ Payout \/ ScannerNext \/ Restart
         \/ \E l \in Launchers : CoinMoves(l) \/ Confirm(l)
         \/ \E p \in Proofs : Discard(p)
         \/ \E r \in Requests : RequestFails(r)
  PROVE  HeldInv' /\ UpdatesStickUncontested'
<1>1. /\ UNCHANGED history
      /\ farmers' = farmers \/ ScanDeleteFarmer
  BY DEF Tick, Payout, CoinMoves, Confirm, Discard, OtherLoop, tables, Restart, RequestFails,
         Abort, ScannerNext, ScannerStep, Reading, ScanBegin, ScanFetch, ScanRead, ScanSeveral,
         ScanLookup, ScanYoung, ScanAddSingleton, ScanPayout, ScanConfirmed, ScanUnconfirmed,
         ScanDeleteFarmer, ScanDeleteSingleton, ScanDeletePartials
<1>2. \A r \in Requests : request'[r] = request[r] \/ request'[r] = IdleRequest
  BY DEF SettingsInv, TypeOK, Tick, Payout, CoinMoves, Confirm, Discard, OtherLoop, Restart,
         RequestFails, Abort, ScannerNext, ScannerStep, Reading, ScanBegin, ScanFetch, ScanRead,
         ScanSeveral, ScanLookup, ScanYoung, ScanAddSingleton, ScanPayout, ScanConfirmed,
         ScanUnconfirmed, ScanDeleteFarmer, ScanDeleteSingleton, ScanDeletePartials
<1>3. HeldInv'
  BY <1>1, <1>2 DEF SettingsInv, HeldInv, Keeps, IdleRequest, history
<1>4. UpdatesStickUncontested'
  BY <1>1 DEF SettingsInv, UpdatesStickUncontested, ScanDeleteFarmer, delete_farmer, Without,
              history
<1> QED BY <1>3, <1>4

\* With any number of requests at a time, the payout instructions acknowledged
\* last are the ones of the farmer's row, through rewrites, pruning, return and
\* handlers cut short, unless another handler held the row that they replaced
\* (v2.py:198-211, 412-438).
THEOREM UpdatesStickUnlessContested == Spec => []UpdatesStickUncontested
<1>1. Init => SettingsInv
  BY SettingsInit
<1>2. SettingsInv /\ [Next]_vars => SettingsInv'
  <2> SUFFICES ASSUME SettingsInv, [Next]_vars PROVE HeldInv' /\ UpdatesStickUncontested'
    BY NextType DEF SettingsInv
  <2>1. CASE UNCHANGED vars
    BY <2>1 DEF vars, tables, history, SettingsInv, HeldInv, UpdatesStickUncontested
  <2> QED BY <2>1, RequestSettings, OthersSettings DEF Next
<1>3. SettingsInv => UpdatesStickUncontested
  BY DEF SettingsInv
<1> QED BY <1>1, <1>2, <1>3, PTL DEF Spec

-----------------------------------------------------------------------------

\* The window the scan asks for begins no later than the latest payout, and
\* what a read that found nothing could have found lies before the window.
Judging  == scanner.pc \in {"confirmed", "unconfirmed", "delete_farmer", "delete_singleton",
                            "delete_partials"}
BothRead == scanner.pc \in {"delete_farmer", "delete_singleton", "delete_partials"}

FoundInv ==
  /\ Judging => scanner.since <= get_latest_payout(payouts)
  /\ BothRead \/ (scanner.pc = "unconfirmed" /\ ~scanner.active) =>
       \A p \in Proofs, t \in Times : <<p, t>> \in scanner.found => t < scanner.since

ActivityInv == TypeOK /\ LauncherInv /\ FoundInv

LEMMA ActivityInit == Init => ActivityInv
BY TypeInit DEF Init, ActivityInv, FoundInv, Judging, BothRead, IdleScanner

\* A read that finds nothing in the window: what was there is older.
LEMMA NothingSince ==
  ASSUME TypeOK, NEW confirmed \in BOOLEAN, SinceThen(confirmed) = {},
         NEW p, NEW t, <<p, t>> \in Findable(confirmed)
  PROVE  t < scanner.since
<1>1. PICK q \in get_partials(partials, scanner.launcher, confirmed) :
        <<p, t>> = <<q, partials[q].timestamp>>
  BY DEF Findable
<1>2. q \in DOMAIN partials /\ partials[q].timestamp \in Nat /\ scanner.since \in Nat
  BY <1>1, FarmersAssumption DEF get_partials, TypeOK, PartialRow, Times, ScannerState
<1>3. ~(partials[q].timestamp >= scanner.since)
  BY <1>1, <1>2 DEF SinceThen, Since
<1> QED BY <1>1, <1>2, <1>3

\* Payouts are only added.
LEMMA LatestGrows ==
  ASSUME TypeOK, TypeOK', payouts \subseteq payouts'
  PROVE  get_latest_payout(payouts) <= get_latest_payout(payouts')
<1> DEFINE latest(S) == get_latest_payout(S)
<1>1. /\ MaxTime \in Nat /\ payouts \subseteq 0 .. MaxTime /\ payouts' \subseteq 0 .. MaxTime
  BY FarmersAssumption DEF TypeOK, Times
<1>2. latest(payouts) \in payouts \cup {0}
  BY <1>1, LargestPayout
<1>3. latest(payouts') \in 0 .. MaxTime /\ \A u \in payouts' : u <= latest(payouts')
  BY <1>1, LargestPayout
<1> HIDE DEF latest
<1>4. CASE latest(payouts) = 0
  <2>1. 0 <= latest(payouts')
    BY <1>1, <1>3
  <2> QED BY <1>4, <2>1 DEF latest
<1>5. CASE latest(payouts) \in payouts
  <2>1. latest(payouts) <= latest(payouts')
    BY <1>3, <1>5
  <2> QED BY <2>1 DEF latest
<1> QED BY <1>2, <1>4, <1>5

LEMMA OthersActivity ==
  ASSUME ActivityInv, TypeOK', scanner' = scanner, payouts \subseteq payouts'
  PROVE  FoundInv'
<1>1. get_latest_payout(payouts) <= get_latest_payout(payouts')
  BY LatestGrows DEF ActivityInv
<1>2. /\ get_latest_payout(payouts) \in Nat /\ get_latest_payout(payouts') \in Nat
      /\ scanner.since \in Nat
  <2>1. MaxTime \in Nat /\ payouts \subseteq 0 .. MaxTime /\ payouts' \subseteq 0 .. MaxTime
    BY FarmersAssumption DEF ActivityInv, TypeOK, Times
  <2> QED BY <2>1, FarmersAssumption, LargestPayout DEF ActivityInv, TypeOK, Times, ScannerState
<1> QED BY <1>1, <1>2 DEF ActivityInv, FoundInv, Judging, BothRead

LEMMA ScannerActivity ==
  ASSUME ActivityInv, ScannerNext
  PROVE  FoundInv'
<1>1. /\ payouts' = payouts /\ scanner \in ScannerState /\ TypeOK /\ FoundInv
      /\ get_latest_payout(payouts) \in Nat
  <2>1. payouts' = payouts
    BY DEF ScannerNext, ScannerStep, Reading, ScanBegin, ScanFetch, ScanRead, ScanSeveral,
           ScanLookup, ScanYoung, ScanAddSingleton, ScanPayout, ScanConfirmed, ScanUnconfirmed,
           ScanDeleteFarmer, ScanDeleteSingleton, ScanDeletePartials
  <2>2. TypeOK /\ FoundInv
    BY DEF ActivityInv
  <2>3. scanner \in ScannerState /\ get_latest_payout(payouts) \in Nat
    BY <2>2, LatestIsPast, FarmersAssumption DEF TypeOK, Times
  <2> QED BY <2>1, <2>2, <2>3
<1>2. CASE scanner'.pc \in {"idle", "fetch", "launcher", "lookup", "found", "payout"}
  BY <1>2 DEF FoundInv, Judging, BothRead
<1>3. CASE ScanPayout
  <2>1. scanner' = [scanner EXCEPT !.pc = "confirmed", !.since = get_latest_payout(payouts)]
    BY <1>3 DEF ScanPayout, Reading, ScannerStep
  <2>2. scanner'.pc = "confirmed" /\ scanner'.since = get_latest_payout(payouts)
    BY <1>1, <2>1 DEF ScannerState
  <2> QED BY <1>1, <2>2 DEF FoundInv, Judging, BothRead
<1>4. CASE ScanConfirmed
  <2>1. /\ scanner.pc = "confirmed"
        /\ scanner' = [scanner EXCEPT !.pc = "unconfirmed", !.active = SinceThen(TRUE) # {},
                                      !.found = Findable(TRUE)]
    BY <1>4 DEF ScanConfirmed, Reading, ScannerStep
  <2>2. /\ scanner'.pc = "unconfirmed" /\ scanner'.since = scanner.since
        /\ scanner'.active = (SinceThen(TRUE) # {}) /\ scanner'.found = Findable(TRUE)
    BY <1>1, <2>1 DEF ScannerState
  <2>3. scanner.since <= get_latest_payout(payouts)
    BY <1>1, <2>1 DEF FoundInv, Judging
  <2>4. ~scanner'.active =>
          \A p \in Proofs, t \in Times : <<p, t>> \in scanner'.found => t < scanner'.since
    BY <1>1, <2>2, NothingSince
  <2> QED BY <1>1, <2>2, <2>3, <2>4 DEF FoundInv, Judging, BothRead
<1>5. CASE ScanUnconfirmed
  <2>1. CASE scanner' = Continue
    BY <1>2, <2>1 DEF Continue, IdleScanner
  <2>2. CASE scanner' # Continue
    <3>1. /\ scanner.pc = "unconfirmed" /\ ~scanner.active /\ SinceThen(FALSE) = {}
          /\ scanner' = [scanner EXCEPT !.pc = "delete_farmer",
                                        !.found = @ \cup Findable(FALSE)]
      BY <1>5, <2>2 DEF ScanUnconfirmed, Reading, ScannerStep
    <3>2. /\ scanner'.pc = "delete_farmer" /\ scanner'.since = scanner.since
          /\ scanner'.found = scanner.found \cup Findable(FALSE)
      BY <1>1, <3>1 DEF ScannerState
    <3>3. /\ scanner.since <= get_latest_payout(payouts)
          /\ \A p \in Proofs, t \in Times : <<p, t>> \in scanner.found => t < scanner.since
      BY <1>1, <3>1 DEF FoundInv, Judging
    <3>4. \A p \in Proofs, t \in Times : <<p, t>> \in scanner'.found => t < scanner'.since
      BY <1>1, <3>1, <3>2, <3>3, NothingSince
    <3> QED BY <1>1, <3>2, <3>3, <3>4 DEF FoundInv, Judging, BothRead
  <2> QED BY <2>1, <2>2
<1>6. CASE ScanDeleteFarmer \/ ScanDeleteSingleton
  <2>1. /\ scanner.pc \in {"delete_farmer", "delete_singleton"}
        /\ \E pc \in {"delete_singleton", "delete_partials"} : scanner' = [scanner EXCEPT !.pc = pc]
    BY <1>6 DEF ScanDeleteFarmer, ScanDeleteSingleton, ScannerStep
  <2>2. /\ scanner'.since = scanner.since /\ scanner'.found = scanner.found
    BY <1>1, <2>1 DEF ScannerState
  <2> QED BY <1>1, <2>1, <2>2 DEF FoundInv, Judging, BothRead
<1>7. ScanPayout \/ ScanConfirmed \/ ScanUnconfirmed \/ ScanDeleteFarmer \/ ScanDeleteSingleton
        \/ scanner'.pc \in {"idle", "fetch", "launcher", "lookup", "found", "payout"}
  <2>1. Continue.pc \in {"fetch", "launcher"}
    BY DEF Continue, IdleScanner
  <2>2. ScanYoung \/ ScanAddSingleton \/ ScanDeletePartials => scanner' = Continue
    BY DEF ScanYoung, ScanAddSingleton, ScanDeletePartials, Reading, ScannerStep
  <2>3. ScanBegin \/ ScanFetch \/ ScanSeveral => scanner'.pc \in {"idle", "fetch", "launcher"}
    <3>1. ScanBegin => scanner'.pc = "fetch"
      BY DEF ScanBegin, Reading, ScannerStep, IdleScanner
    <3>2. ASSUME NEW page, NEW start,
                 Reading([IdleScanner EXCEPT !.pc = "launcher", !.todo = page, !.start = start])
          PROVE  scanner'.pc = "launcher"
      BY <3>2 DEF Reading, ScannerStep, IdleScanner
    <3>3. Reading(IdleScanner) => scanner'.pc = "idle"
      BY DEF Reading, ScannerStep, IdleScanner
    <3> QED BY <3>1, <3>2, <3>3 DEF ScanFetch, ScanSeveral
  <2>4. ScanRead \/ ScanLookup => scanner'.pc \in {"lookup", "payout", "found"}
    BY <1>1 DEF ScanRead, ScanLookup, Reading, ScannerStep, ScannerState
  <2> QED BY <2>1, <2>2, <2>3, <2>4 DEF ScannerNext
<1> QED BY <1>2, <1>3, <1>4, <1>5, <1>6, <1>7

LEMMA ActivityNext ==
  ASSUME ActivityInv, [Next]_vars
  PROVE  ActivityInv'
<1>1. TypeOK' /\ LauncherInv'
  BY NextType DEF ActivityInv
<1>2. CASE ScannerNext
  BY <1>1, <1>2, ScannerActivity DEF ActivityInv
<1>3. CASE ~ScannerNext
  <2>1. scanner' = scanner \/ scanner' = IdleScanner
    BY <1>3 DEF Next, vars, Tick, Payout, CoinMoves, Confirm, Discard, OtherLoop, RequestNext,
         PostFarmerCheck, PutFarmerRead, PartialRead, PostFarmerStore, PutFarmerStore,
         PartialStore, PartialReject, PartialWriteBack, RequestStep, RequestFails, Restart
  <2>2. payouts \subseteq payouts'
    BY <1>3 DEF Next, vars, tables, Tick, Payout, CoinMoves, Confirm, Discard, OtherLoop,
         add_payout, RequestNext, PostFarmerCheck, PutFarmerRead, PartialRead, PostFarmerStore,
         PutFarmerStore, PartialStore, PartialReject, PartialWriteBack, RequestStep,
         RequestFails, Restart, Abort
  <2>3. CASE scanner' = scanner
    BY <1>1, <2>2, <2>3, OthersActivity DEF ActivityInv
  <2>4. CASE scanner' = IdleScanner
    BY <1>1, <2>4 DEF ActivityInv, FoundInv, Judging, BothRead, IdleScanner
  <2> QED BY <2>1, <2>3, <2>4
<1> QED BY <1>2, <1>3

\* With any number of requests at a time, work that a pruned farmer was still
\* owed for was there for neither of the scan's reads (service.py:124-138).
THEOREM OnlyInactiveArePruned == Spec => []PrunesOnlyInactive
<1>1. Init => ActivityInv
  BY ActivityInit
<1>2. ActivityInv /\ [Next]_vars => ActivityInv'
  BY ActivityNext
<1>3. ActivityInv => PrunesOnlyInactive
  <2> SUFFICES ASSUME ActivityInv, BothRead, NEW p \in Unpaid(scanner.launcher)
               PROVE  <<p, partials[p].timestamp>> \notin scanner.found
    BY DEF PrunesOnlyInactive, BothRead
  <2>1. /\ p \in Proofs /\ partials[p].timestamp \in Times /\ partials[p].timestamp \in Nat
        /\ partials[p].timestamp >= get_latest_payout(payouts)
    BY FarmersAssumption DEF Unpaid, RowsOf, ActivityInv, TypeOK, PartialRow, Times
  <2>2. scanner.since <= get_latest_payout(payouts)
    BY DEF ActivityInv, FoundInv, Judging, BothRead
  <2>3. scanner.since \in Nat /\ get_latest_payout(payouts) \in Nat
    BY FarmersAssumption, LatestIsPast DEF ActivityInv, TypeOK, Times, ScannerState
  <2>4. ~(partials[p].timestamp < scanner.since)
    BY <2>1, <2>2, <2>3
  <2> QED BY <2>1, <2>4 DEF ActivityInv, FoundInv
<1> QED BY <1>1, <1>2, <1>3, PTL DEF Spec

=============================================================================
