---------------------------- MODULE StoreProofs ----------------------------
(***************************************************************************)
(* Facts about the operators of Store that pick an element by its order.   *)
(***************************************************************************)
EXTENDS Store, WellFoundedInduction, TLAPS

\* A non-empty set of numbers has a least element.
LEMMA LeastExists ==
  ASSUME NEW S, S \subseteq Nat, S # {}
  PROVE  \E t \in S : \A u \in S : t <= u
<1> DEFINE R == {ss \in Nat \X Nat : ss[1] < ss[2]}
<1>1. IsWellFoundedOn(R, Nat)
  BY NatLessThanWellFounded DEF OpToRel
<1>2. \E t \in S : \A u \in S : ~ (<<u, t>> \in R)
  <2> HIDE DEF R
  <2> QED BY <1>1, WFMin
<1>3. PICK t \in S : \A u \in S : ~ (<<u, t>> \in R)
  BY <1>2
<1>4. ASSUME NEW u \in S PROVE t <= u
  <2>1. ~ (<<u, t>> \in R) /\ u \in Nat /\ t \in Nat
    BY <1>3
  <2>2. ~ (u < t)
    BY <2>1
  <2> QED BY <2>1, <2>2
<1> QED BY <1>4

\* A non-empty bounded set of them has a largest element.
LEMMA MaxExists ==
  ASSUME NEW N \in Nat, NEW S, S \subseteq 0 .. N, S # {}
  PROVE  \E t \in S : \A u \in S : u <= t
<1> DEFINE D == {N - t : t \in S}
<1>1. D \subseteq Nat /\ D # {}
  <2>1. PICK s \in S : TRUE
    OBVIOUS
  <2>2. N - s \in D
    OBVIOUS
  <2> QED BY <2>2
<1>2. \E d \in D : \A e \in D : d <= e
  <2> HIDE DEF D
  <2> QED BY <1>1, LeastExists
<1>3. PICK t \in S : \A e \in D : N - t <= e
  BY <1>2
<1>4. ASSUME NEW u \in S PROVE u <= t
  <2>1. N - t <= N - u
    BY <1>3
  <2> QED BY <2>1
<1> QED BY <1>4

\* get_latest_payout returns 0 or the largest timestamp of the table.
LEMMA LargestPayout ==
  ASSUME NEW N \in Nat, NEW S, S \subseteq 0 .. N
  PROVE  /\ get_latest_payout(S) \in 0 .. N
         /\ get_latest_payout(S) \in S \cup {0}
         /\ \A u \in S : u <= get_latest_payout(S)
<1>1. CASE S = {}
  BY <1>1 DEF get_latest_payout
<1>2. CASE S # {}
  BY <1>2, MaxExists DEF get_latest_payout
<1> QED BY <1>1, <1>2

=============================================================================
