----------------------------- MODULE MCPromotions -----------------------------
(***************************************************************************)
(* Small instances of Coupons, Referrals and BundlePricing.  They share no *)
(* table and no lock, so interleaving them shows nothing: a behaviour is   *)
(* of one of them, as focus says, and the others stay as they began.  The  *)
(* proofs follow the instances.                                            *)
(***************************************************************************)
EXTENDS Coupons, FiniteSetTheorems, Sequences, TLC, TLAPS

CONSTANTS
  u1, u2, c1, r1, r2, r3,       \* users, course and redemptions of the coupon
  v1, v2, v3, a, b,             \* users and requests of the referral code
  Referred, MaxRewards, Caps, Slots, None,
  Cent, MaxPrice, MaxCourses

VARIABLES
  focus, codeActive, totalSignups, totalConversions, referral, reward, overdue, cap, referralReq,
  total, prices, shares, allocated

R == INSTANCE Referrals WITH Users <- Referred, req <- referralReq
Pricing == INSTANCE BundlePricing

ASSUME PromotionsAssumption == R!ConstantsAssumption /\ Pricing!ConstantsAssumption

referralVars ==
  <<codeActive, totalSignups, totalConversions, referral, reward, overdue, cap, referralReq>>
pricingVars == <<total, prices, shares, allocated>>
allVars == <<focus, vars, referralVars, pricingVars>>

Symmetry == Permutations(Users) \union Permutations(Requests) \union
            Permutations(Referred) \union Permutations(Slots)

InitOne ==
  /\ focus \in {"coupons", "referrals", "pricing"}
  /\ Init /\ R!Init
  /\ focus # "coupons" => maxRedemptions = Unlimited /\ expiresAt = Never
  /\ IF focus = "pricing" THEN Pricing!Init
     ELSE total = 0 /\ prices = <<>> /\ shares = <<>> /\ allocated = 0

CouponStep ==
  /\ focus = "coupons"
  /\ Next
  /\ UNCHANGED <<focus, referralVars, pricingVars>>

ReferralStep ==
  /\ focus = "referrals"
  /\ R!Next
  /\ UNCHANGED <<focus, vars, pricingVars>>

PricingStep ==
  /\ focus = "pricing"
  /\ Pricing!Next
  /\ UNCHANGED <<focus, vars, referralVars>>

SpecOne == InitOne /\ [][CouponStep \/ ReferralStep \/ PricingStep]_allVars

\* Coupons and Referrals keep the types of their variables.
TypesOK == TypeOK /\ R!TypeOK

\* See Referrals: the cap on a referrer's live and spent rewards.
RewardCap == R!RewardCap

\* See Referrals: the code's counters and the referrals agree.
CountersAgree == R!CountersAgree

\* See Referrals: a reward used or lapsed stays so.
NoSecondUse == R!NoSecondUse

\* See BundlePricing: the shares add up to the price.
ExactSplit == Pricing!ExactSplit

\* See BundlePricing: each share is the course's part of it, to the cent.
ProRata == Pricing!ProRata

-------------------------------------------------------------------------------
(***************************************************************************)
(* Proofs: about Coupons, for any number of users, courses and requests    *)
(* and any history of edits; about Referrals, for any number of referred   *)
(* users, requests and rewards; and about BundlePricing, for any prices of *)
(* any number of courses.                                                  *)
(***************************************************************************)

Underway == {"read", "judge", "commit"}

LEMMA NewRequest == New \in RequestType
BY ConstantsAssumption DEF New, RequestType, Never

LEMMA TypeInductive == TypeOK /\ [Next]_vars => TypeOK'
<1> SUFFICES ASSUME TypeOK, [Next]_vars PROVE TypeOK'
  OBVIOUS
<1> USE DEF coupon
<1>1. CASE Refund
  BY <1>1 DEF Refund, TypeOK
<1>2. CASE Raise \/ Lower \/ SetActive \/ SetExpiry
  <2>1. maxRedemptions' \in Limits \union {Unlimited}
    BY <1>2 DEF Raise, Lower, SetActive, SetExpiry, Edit, TypeOK
  <2>2. isActive' \in BOOLEAN /\ lowered' \in BOOLEAN
    BY <1>2, Zenon DEF Raise, Lower, SetActive, SetExpiry, Edit, TypeOK
  <2>3. /\ UNCHANGED <<enrolled, clock, redeemedCount, redemptions, req>>
        /\ edits' \in 0 .. MaxEdits /\ expiresAt' \in 1 .. Never
    BY <1>2, ConstantsAssumption DEF Raise, Lower, SetActive, SetExpiry, Edit, TypeOK
  <2> QED
    BY <2>1, <2>2, <2>3 DEF TypeOK
<1>3. CASE Tick
  BY <1>3, ConstantsAssumption DEF Tick, TypeOK
<1>4. ASSUME NEW r \in Requests, Redeem(r) PROVE TypeOK'
  <2>a. /\ req[r] \in RequestType /\ req \in [Requests -> RequestType]
        /\ clock \in 0 .. MaxTime /\ expiresAt \in 0 .. Never
    BY ConstantsAssumption DEF TypeOK, Never
  <2>1. CASE Submit(r)
    <3>1. PICK p \in enrolled :
            req' = [req EXCEPT ![r].pc = "read", ![r].pair = p, ![r].began = clock]
      BY <2>1 DEF Submit
    <3> DEFINE new == [req[r] EXCEPT !.pc = "read", !.pair = p, !.began = clock]
    <3>2. req' = [req EXCEPT ![r] = new]
      BY <2>a, <3>1
    <3>3. new \in RequestType /\ new.pair = p /\ p \in Users \X Courses
      BY <2>a DEF RequestType, TypeOK
    <3> HIDE DEF new
    <3>4. /\ req' \in [Requests -> RequestType] /\ req'[r].pair = p
          /\ \A q \in Requests : q # r => req'[q] = req[q]
      BY <2>a, <3>2, <3>3
    <3>5. UNCHANGED <<enrolled, clock, isActive, expiresAt, maxRedemptions, redeemedCount, redemptions, edits, lowered>>
      BY <2>1 DEF Submit
    <3> QED
      BY <2>a, <3>3, <3>4, <3>5 DEF TypeOK
  <2>2. ASSUME NEW new \in RequestType, req' = [req EXCEPT ![r] = new],
               new.pc \in Underway => req[r].pc \in Underway /\ new.pair = req[r].pair
        PROVE  /\ req' \in [Requests -> RequestType]
               /\ \A q \in Requests : req'[q].pc \in Underway =>
                    req[q].pc \in Underway /\ req'[q].pair = req[q].pair
    BY <2>a, <2>2
  <2>3. ASSUME NEW to \in {"done", "failed"}, End(r, to)
        PROVE  /\ req' \in [Requests -> RequestType]
               /\ \A q \in Requests : req'[q].pc \in Underway =>
                    req[q].pc \in Underway /\ req'[q].pair = req[q].pair
    <3> DEFINE new == [New EXCEPT !.pc = to]
    <3>1. req' = [req EXCEPT ![r] = new]
      BY <2>3 DEF End
    <3>2. new \in RequestType /\ new.pc \notin Underway
      BY <2>3, NewRequest DEF New, RequestType, Underway
    <3> HIDE DEF new
    <3> QED
      BY <2>2, <3>1, <3>2
  <2>4. CASE ReadCoupon(r)
    <3> DEFINE new == [req[r] EXCEPT !.pc = "judge", !.max = maxRedemptions, !.seen = expiresAt]
    <3>1. req' = [req EXCEPT ![r] = new] \/ End(r, "failed")
      BY <2>4, <2>a DEF ReadCoupon
    <3>2. new \in RequestType /\ new.pair = req[r].pair /\ req[r].pc \in Underway
      BY <2>4, <2>a DEF RequestType, TypeOK, ReadCoupon, Underway
    <3>3. UNCHANGED <<enrolled, clock, isActive, expiresAt, maxRedemptions, redeemedCount, redemptions, edits, lowered>>
      BY <2>4 DEF ReadCoupon
    <3> HIDE DEF new
    <3> QED
      BY <2>2, <2>3, <3>1, <3>2, <3>3 DEF TypeOK, Underway
  <2>5. CASE JudgeCoupon(r)
    <3> DEFINE new == [req[r] EXCEPT !.pc = "commit", !.seen = 0, !.now = clock]
    <3>1. req' = [req EXCEPT ![r] = new] \/ End(r, "failed")
      BY <2>5, <2>a DEF JudgeCoupon
    <3>2. new \in RequestType /\ new.pair = req[r].pair /\ req[r].pc \in Underway
      <4>1. 0 \in 0 .. Never
        BY ConstantsAssumption DEF Never
      <4>2. req[r].pc \in Underway
        BY <2>5 DEF JudgeCoupon, Underway
      <4> QED
        BY <2>a, <4>1, <4>2 DEF RequestType
    <3>3. UNCHANGED <<enrolled, clock, isActive, expiresAt, maxRedemptions, redeemedCount, redemptions, edits, lowered>>
      BY <2>5 DEF JudgeCoupon
    <3> HIDE DEF new
    <3> QED
      BY <2>2, <2>3, <3>1, <3>2, <3>3 DEF TypeOK, Underway
  <2>6. CASE RedeemFails(r)
    BY <2>3, <2>6 DEF RedeemFails, TypeOK, Underway
  <2>7. CASE RedeemCommits(r)
    <3>1. req[r].pair \in Users \X Courses
      BY <2>7 DEF RedeemCommits, TypeOK
    <3> QED
      BY <2>3, <2>7, <3>1 DEF RedeemCommits, TypeOK, Underway
  <2> QED
    BY <1>4, <2>1, <2>4, <2>5, <2>6, <2>7 DEF Redeem
<1>5. CASE UNCHANGED vars
  BY <1>5 DEF vars, TypeOK
<1> QED
  BY <1>1, <1>2, <1>3, <1>4, <1>5 DEF Next

\* What a step of a redemption does to its request.
LEMMA RedeemMoves ==
  ASSUME TypeOK, NEW r \in Requests, Redeem(r)
  PROVE  /\ \A q \in Requests : q # r => req'[q] = req[q]
         /\ \/ req'[r].pc = "read" /\ req'[r].began = clock
            \/ /\ req[r].pc = "read" /\ req'[r].pc = "judge" /\ req'[r].max = maxRedemptions
               /\ req'[r].began = req[r].began
            \/ /\ req[r].pc = "judge" /\ req'[r].pc = "commit" /\ req'[r].max = req[r].max
               /\ req'[r].began = req[r].began /\ req'[r].now = clock
            \/ req'[r].pc \in {"done", "failed"}
<1>0. req \in [Requests -> RequestType]
  BY DEF TypeOK
<1>1. CASE Submit(r)
  BY <1>0, <1>1 DEF Submit, RequestType
<1>2. ASSUME NEW to \in {"done", "failed"}, End(r, to)
      PROVE  req'[r].pc = to /\ \A q \in Requests : q # r => req'[q] = req[q]
  BY <1>0, <1>2 DEF End, New
<1>3. CASE ReadCoupon(r)
  BY <1>0, <1>2, <1>3 DEF ReadCoupon, RequestType
<1>4. CASE JudgeCoupon(r)
  BY <1>0, <1>2, <1>4 DEF JudgeCoupon, RequestType
<1>5. CASE RedeemFails(r) \/ RedeemCommits(r)
  BY <1>2, <1>5 DEF RedeemFails, RedeemCommits
<1> QED
  BY <1>1, <1>3, <1>4, <1>5 DEF Redeem

LEMMA InitType == Init => TypeOK
<1> SUFFICES ASSUME Init PROVE TypeOK
  OBVIOUS
<1>1. req \in [Requests -> RequestType] /\ \A r \in Requests : req[r].pc = "new"
  BY NewRequest DEF Init, New
<1>2. isActive \in BOOLEAN /\ lowered \in BOOLEAN
  BY Zenon DEF Init
<1> QED
  BY <1>1, <1>2, ConstantsAssumption DEF Init, TypeOK

\* Every reachable state is well typed.
THEOREM TypeCorrect == Spec => []TypeOK
BY InitType, TypeInductive, PTL DEF Spec

(***************************************************************************)
(* The counter is exact: both move in the one step that commits.           *)
(***************************************************************************)
LEMMA CounterInductive ==
  ASSUME TypeOK, CounterIsExact, [Next]_vars
  PROVE  CounterIsExact'
<1> USE DEF coupon, CounterIsExact
<1>1. CASE UNCHANGED <<redeemedCount, redemptions>>
  BY <1>1
<1>2. ASSUME NEW r \in Requests, RedeemCommits(r) PROVE CounterIsExact'
  <2>1. IsFiniteSet(redemptions)
    BY ConstantsAssumption, FS_Product, FS_Subset DEF TypeOK
  <2>2. Cardinality(redemptions \union {req[r].pair}) = Cardinality(redemptions) + 1
    BY <1>2, <2>1, FS_AddElement DEF RedeemCommits, Redeemed
  <2> QED
    BY <1>2, <2>2 DEF RedeemCommits
<1>3. ASSUME NEW r \in Requests, Submit(r) \/ ReadCoupon(r) \/ JudgeCoupon(r) \/ RedeemFails(r)
      PROVE  UNCHANGED <<redeemedCount, redemptions>>
  BY <1>3 DEF Submit, ReadCoupon, JudgeCoupon, RedeemFails
<1>4. Refund \/ Raise \/ Lower \/ SetActive \/ SetExpiry \/ Tick \/ UNCHANGED vars =>
        UNCHANGED <<redeemedCount, redemptions>>
  BY DEF Refund, Raise, Lower, SetActive, SetExpiry, Tick, Edit, vars
<1> QED
  BY <1>1, <1>2, <1>3, <1>4 DEF Next, Redeem

\* The redemption counter always equals the number of redemptions.
THEOREM CounterExact == Spec => []CounterIsExact
<1>1. Init => CounterIsExact
  BY FS_EmptySet DEF Init, CounterIsExact
<1>2. TypeOK /\ CounterIsExact /\ [Next]_vars => CounterIsExact'
  BY CounterInductive
<1> QED
  BY <1>1, <1>2, TypeCorrect, PTL DEF Spec

(***************************************************************************)
(* The limit: as long as nobody lowers it, the limit a redemption read is  *)
(* no higher than the coupon's when it commits.                            *)
(***************************************************************************)
NoHigher(m) == maxRedemptions # Unlimited => m # Unlimited /\ m <= maxRedemptions

LimitInv ==
  ~lowered => \A r \in Requests : req[r].pc \in {"judge", "commit"} => NoHigher(req[r].max)

LEMMA LimitInductive ==
  ASSUME TypeOK, LimitInv, [Next]_vars
  PROVE  LimitInv'
<1> USE DEF coupon, LimitInv, NoHigher
<1>1. CASE Raise
  <2>1. /\ UNCHANGED <<req, lowered>>
        /\ maxRedemptions # Unlimited
        /\ maxRedemptions' = Unlimited \/ maxRedemptions' > maxRedemptions
    BY <1>1 DEF Raise, Edit
  <2>2. \A r \in Requests : req[r].max # Unlimited => req[r].max \in Nat
    BY ConstantsAssumption DEF TypeOK, RequestType
  <2>3. maxRedemptions \in Nat /\ (maxRedemptions' # Unlimited => maxRedemptions' \in Nat)
    BY <1>1, <2>1, ConstantsAssumption DEF Raise, TypeOK
  <2> QED
    BY <2>1, <2>2, <2>3
<1>2. CASE Lower
  BY <1>2 DEF Lower
<1>3. CASE UNCHANGED <<maxRedemptions, req, lowered>>
  BY <1>3
<1>4. Refund \/ SetActive \/ SetExpiry \/ Tick \/ UNCHANGED vars =>
        UNCHANGED <<maxRedemptions, req, lowered>>
  BY DEF Refund, SetActive, SetExpiry, Tick, Edit, vars
<1>5. ASSUME NEW r \in Requests, Redeem(r) PROVE LimitInv'
  <2>1. UNCHANGED <<maxRedemptions, lowered>>
    BY <1>5 DEF Redeem, Submit, ReadCoupon, JudgeCoupon, RedeemFails, RedeemCommits
  <2>2. \A q \in Requests : q # r => req'[q] = req[q]
    BY <1>5, RedeemMoves
  <2>3. req'[r].pc \in {"judge", "commit"} =>
          \/ req'[r].max = maxRedemptions
          \/ req[r].pc \in {"judge", "commit"} /\ req'[r].max = req[r].max
    BY <1>5, RedeemMoves
  <2>4. maxRedemptions # Unlimited => maxRedemptions \in Nat
    BY ConstantsAssumption, Zenon DEF TypeOK
  <2>5. maxRedemptions # Unlimited => maxRedemptions <= maxRedemptions
    BY <2>4
  <2> QED
    BY <2>1, <2>2, <2>3, <2>5
<1> QED
  BY <1>1, <1>2, <1>3, <1>4, <1>5 DEF Next

\* Until an administrator lowers the limit, no redemption exceeds it, in
\* whatever order concurrent redemptions and edits commit.
THEOREM LimitHolds == Spec => WithinLimit
<1>1. Init => LimitInv
  BY DEF Init, New, LimitInv
<1>2. TypeOK /\ LimitInv /\ [Next]_vars => LimitInv'
  BY LimitInductive
<1>3. TypeOK /\ LimitInv /\ [Next]_vars =>
        [~lowered /\ redemptions' # redemptions => Below(redeemedCount, maxRedemptions)]_vars
  <2> SUFFICES ASSUME TypeOK, LimitInv, Next, ~lowered, redemptions' # redemptions
               PROVE  Below(redeemedCount, maxRedemptions)
    OBVIOUS
  <2> USE DEF coupon
  <2>1. PICK r \in Requests : RedeemCommits(r)
    BY DEF Next, Refund, Raise, Lower, SetActive, SetExpiry, Tick, Edit, Redeem,
           Submit, ReadCoupon, JudgeCoupon, RedeemFails
  <2>2. NoHigher(req[r].max) /\ Below(redeemedCount, req[r].max)
    BY <2>1 DEF RedeemCommits, Matches, LimitInv
  <2>3. /\ redeemedCount \in Nat
        /\ req[r].max # Unlimited => req[r].max \in Nat
        /\ maxRedemptions # Unlimited => maxRedemptions \in Nat
    BY ConstantsAssumption DEF TypeOK, RequestType
  <2> QED
    BY <2>2, <2>3 DEF NoHigher, Below
<1> QED
  BY <1>1, <1>2, <1>3, TypeCorrect, PTL DEF Spec, WithinLimit

(***************************************************************************)
(* What the limit promises of the rows themselves.                         *)
(***************************************************************************)
WithinRows == lowered = FALSE /\ maxRedemptions # Unlimited => redeemedCount <= maxRedemptions

LEMMA WithinRowsInductive ==
  ASSUME TypeOK, LimitInv, WithinRows, [Next]_vars
  PROVE  WithinRows'
<1> USE DEF coupon, WithinRows
<1>0. /\ redeemedCount \in Nat
      /\ \A m \in Limits \union {Unlimited} : m # Unlimited => m \in Nat
  BY ConstantsAssumption DEF TypeOK
<1>1. CASE Raise
  <2>1. /\ UNCHANGED <<redeemedCount, lowered>>
        /\ maxRedemptions \in Nat
        /\ maxRedemptions' # Unlimited => maxRedemptions' \in Nat /\ maxRedemptions' > maxRedemptions
    BY <1>0, <1>1 DEF Raise, Edit, TypeOK
  <2>2. maxRedemptions # Unlimited
    BY <2>1, ConstantsAssumption
  <2> QED
    BY <1>0, <2>1, <2>2
<1>2. CASE Lower
  BY <1>2, Zenon DEF Lower
<1>3. CASE UNCHANGED <<redeemedCount, maxRedemptions, lowered>>
  BY <1>3
<1>4. Refund \/ SetActive \/ SetExpiry \/ Tick \/ UNCHANGED vars =>
        UNCHANGED <<redeemedCount, maxRedemptions, lowered>>
  BY DEF Refund, SetActive, SetExpiry, Tick, Edit, vars
<1>5. ASSUME NEW r \in Requests, RedeemCommits(r) PROVE WithinRows'
  <2>1. /\ UNCHANGED <<maxRedemptions, lowered>> /\ redeemedCount' = redeemedCount + 1
        /\ req[r].max \in Limits \union {Unlimited} /\ maxRedemptions \in Limits \union {Unlimited}
        /\ req[r].max # Unlimited => redeemedCount < req[r].max
    BY <1>5 DEF RedeemCommits, Matches, Below, TypeOK, RequestType
  <2>2. lowered = FALSE => NoHigher(req[r].max)
    BY <1>5 DEF RedeemCommits, LimitInv
  <2> QED
    BY <1>0, <2>1, <2>2 DEF NoHigher
<1>6. ASSUME NEW r \in Requests, Submit(r) \/ ReadCoupon(r) \/ JudgeCoupon(r) \/ RedeemFails(r)
      PROVE  UNCHANGED <<redeemedCount, maxRedemptions, lowered>>
  BY <1>6 DEF Submit, ReadCoupon, JudgeCoupon, RedeemFails
<1> QED
  BY <1>1, <1>2, <1>3, <1>4, <1>5, <1>6 DEF Next, Redeem

\* A coupon whose limit nobody lowered never has more redemption rows than its
\* limit, for any number of users, courses and concurrent requests: the limit
\* each of them compares with is the one it read, the counter is the row's.
THEOREM NeverOverLimit ==
  Spec => [](~lowered /\ maxRedemptions # Unlimited => Cardinality(redemptions) <= maxRedemptions)
<1>1. Init => WithinRows
  <2> SUFFICES ASSUME Init, maxRedemptions # Unlimited
               PROVE  redeemedCount <= maxRedemptions
    BY DEF Init, WithinRows
  <2> QED
    BY ConstantsAssumption DEF Init
<1>2. Init => LimitInv
  BY DEF Init, New, LimitInv
<1>3. TypeOK /\ LimitInv /\ [Next]_vars => LimitInv'
  BY LimitInductive
<1>4. TypeOK /\ LimitInv /\ WithinRows /\ [Next]_vars => WithinRows'
  BY WithinRowsInductive
<1>5. TypeOK /\ CounterIsExact /\ WithinRows =>
        (~lowered /\ maxRedemptions # Unlimited => Cardinality(redemptions) <= maxRedemptions)
  BY DEF TypeOK, CounterIsExact, WithinRows
<1> QED
  BY <1>1, <1>2, <1>3, <1>4, <1>5, TypeCorrect, CounterExact, PTL DEF Spec

(***************************************************************************)
(* The expiry: the time a redemption compares with is no earlier than its  *)
(* arrival.                                                                *)
(***************************************************************************)
TimeInv ==
  \A r \in Requests :
    /\ req[r].pc \in {"read", "judge"} => req[r].began <= clock
    /\ req[r].pc = "commit" => req[r].began <= req[r].now

LEMMA TimeInductive ==
  ASSUME TypeOK, TimeInv, [Next]_vars
  PROVE  TimeInv'
<1> USE DEF coupon, TimeInv
<1>0. clock \in Nat /\ \A r \in Requests : req[r].began \in Nat /\ req[r].now \in Nat
  BY ConstantsAssumption DEF TypeOK, RequestType
<1>1. CASE UNCHANGED <<clock, req>>
  BY <1>1
<1>2. CASE Tick
  BY <1>0, <1>2 DEF Tick
<1>3. Refund \/ Raise \/ Lower \/ SetActive \/ SetExpiry \/ UNCHANGED vars => UNCHANGED <<clock, req>>
  BY DEF Refund, Raise, Lower, SetActive, SetExpiry, Edit, vars
<1>4. ASSUME NEW r \in Requests, Redeem(r) PROVE TimeInv'
  <2>1. clock' = clock
    BY <1>4 DEF Redeem, Submit, ReadCoupon, JudgeCoupon, RedeemFails, RedeemCommits
  <2> QED
    BY <1>0, <1>4, <2>1, RedeemMoves
<1> QED
  BY <1>1, <1>2, <1>3, <1>4 DEF Next

\* However a redemption read the coupon and however long it waited for the row, it is
\* recorded only while the coupon is active, and after the expiry only if it arrived
\* before it: the update's own clock reading may be old, but not older than the request.
THEOREM OnlyWhenUsable == Spec => NeverWhenUnusable
<1>1. Init => TimeInv
  BY DEF Init, New, TimeInv
<1>2. TypeOK /\ TimeInv /\ [Next]_vars => TimeInv'
  BY TimeInductive
<1>3. TypeOK /\ TimeInv /\ [Next]_vars =>
        [redemptions' # redemptions =>
           /\ isActive
           /\ \E r \in Requests : req'[r].pc # req[r].pc /\ req[r].began < expiresAt]_vars
  <2> SUFFICES ASSUME TypeOK, TimeInv, Next, redemptions' # redemptions
               PROVE  /\ isActive
                      /\ \E r \in Requests : req'[r].pc # req[r].pc /\ req[r].began < expiresAt
    OBVIOUS
  <2>1. PICK r \in Requests : RedeemCommits(r)
    BY DEF Next, Refund, Raise, Lower, SetActive, SetExpiry, Tick, Edit, Redeem,
           Submit, ReadCoupon, JudgeCoupon, RedeemFails, coupon
  <2>2. isActive
    BY <2>1, Zenon DEF RedeemCommits, Matches
  <2>3. expiresAt > req[r].now /\ req[r].pc = "commit" /\ req'[r].pc = "done"
    BY <2>1 DEF RedeemCommits, Matches, TypeOK, RequestType, End, New
  <2>4. expiresAt \in Nat /\ req[r].began \in Nat /\ req[r].now \in Nat
    BY ConstantsAssumption DEF TypeOK, RequestType, Never
  <2> QED
    BY <2>2, <2>3, <2>4 DEF TimeInv
<1> QED
  BY <1>1, <1>2, <1>3, TypeCorrect, PTL DEF Spec, NeverWhenUnusable

-----------------------------------------------------------------------------
(***************************************************************************)
(* Referrals.  A conversion holds the lock of its referral from its first  *)
(* update on and the lock of the code from its second: what it counted is  *)
(* an upper bound of the rewards until it adds its own.                    *)
(***************************************************************************)
Counting == {"count", "commit"}
Converting == {"codeUpdate"} \union Counting

\* What a request under way may rely on.
Relies(r) ==
  LET u == referralReq[r].user IN
  /\ referralReq[r].pc \in Converting => referral[u] = "SIGNED_UP"
  /\ referralReq[r].pc \in {"convert"} \union Converting => referralReq[r].cap <= MaxRewards
  /\ referralReq[r].pc = "commit" => Cardinality(R!Rewarded) <= referralReq[r].counted
  /\ referralReq[r].pc \in {"expire", "redeem"} => reward[u] # None

\* The two locks.
Apart(q, r) ==
  /\ ~(referralReq[q].pc \in Counting /\ referralReq[r].pc \in Counting)
  /\ referralReq[q].pc \in Converting /\ referralReq[r].pc \in Converting =>
       referralReq[q].user # referralReq[r].user

\* A reward belongs to a conversion.
RewardsEarned == \A u \in Referred : referral[u] # "CONVERTED" => reward[u] = None

ReferralInv ==
  /\ \A r \in Slots : Relies(r)
  /\ \A q, r \in Slots : q # r => Apart(q, r)
  /\ RewardsEarned
  /\ RewardCap
  /\ CountersAgree

Steps ==
  {"idle", "existing", "code", "signup", "referral", "rules", "convert", "codeUpdate", "count",
   "commit", "reward", "expire", "redeem"}

\* Only request r moves.
Only(r) == \A q \in Slots : q # r => referralReq'[q] = referralReq[q]

-----------------------------------------------------------------------------
(***************************************************************************)
(* What the ways a request moves leave of the types.                       *)
(***************************************************************************)
RequestsOK ==
  /\ referralReq \in [Slots -> R!RequestType]
  /\ \A r \in Slots : referralReq[r].pc # "idle" => referralReq[r].user \in Referred

LEMMA RequestMoves ==
  ASSUME NEW r \in Slots, RequestsOK, NEW new \in R!RequestType,
         new.pc # "idle" => new.user \in Referred,
         referralReq' = [referralReq EXCEPT ![r] = new]
  PROVE  RequestsOK' /\ Only(r) /\ referralReq'[r] = new
<1>1. referralReq' \in [Slots -> R!RequestType] /\ referralReq'[r] = new /\ Only(r)
  BY DEF RequestsOK, Only
<1>2. ASSUME NEW q \in Slots PROVE referralReq'[q].pc # "idle" => referralReq'[q].user \in Referred
  BY <1>1 DEF RequestsOK, Only
<1> QED BY <1>1, <1>2 DEF RequestsOK

LEMMA IdleType == R!Idle \in R!RequestType /\ R!Idle.pc = "idle"
BY DEF R!Idle, R!RequestType

LEMMA FinishOnly ==
  ASSUME NEW r \in Slots, RequestsOK, R!Finish(r)
  PROVE  RequestsOK' /\ Only(r) /\ referralReq'[r] = R!Idle
BY RequestMoves, IdleType DEF R!Finish

LEMMA CheckOnly ==
  ASSUME NEW r \in Slots, NEW ok, NEW step \in Steps, RequestsOK,
         referralReq[r].pc # "idle", R!Check(r, ok, step)
  PROVE  /\ RequestsOK' /\ Only(r)
         /\ UNCHANGED <<codeActive, totalSignups, totalConversions, referral, reward, overdue, cap>>
         /\ \/ ok /\ referralReq'[r] = [referralReq[r] EXCEPT !.pc = step]
            \/ referralReq'[r] = R!Idle
<1> DEFINE new == [referralReq[r] EXCEPT !.pc = step]
<1>1. UNCHANGED <<codeActive, totalSignups, totalConversions, referral, reward, overdue, cap>>
  BY DEF R!Check, R!code
<1>2. CASE ok
  <2>1. referralReq' = [referralReq EXCEPT ![r] = new]
    BY <1>2 DEF R!Check, RequestsOK
  <2>2. new \in R!RequestType /\ new.user \in Referred
    BY DEF RequestsOK, R!RequestType, Steps
  <2> HIDE DEF new
  <2>3. RequestsOK' /\ Only(r) /\ referralReq'[r] = new
    BY <2>1, <2>2, RequestMoves
  <2> QED BY <1>1, <1>2, <2>3 DEF new
<1>3. CASE ~ok
  BY <1>1, <1>3, FinishOnly DEF R!Check
<1> QED BY <1>2, <1>3

\* Both modules mean the library's operators.
LEMMA SameCardinality == \A S : R!IsFiniteSet(S) = IsFiniteSet(S) /\ R!Cardinality(S) = Cardinality(S)
<1>1. \A S : R!IsFiniteSet(S) = IsFiniteSet(S)
  BY Zenon DEF R!IsFiniteSet, IsFiniteSet
<1>2. \A S : R!Cardinality(S) = Cardinality(S)
  BY Zenon DEF R!Cardinality, Cardinality
<1> QED BY <1>1, <1>2

LEMMA RewardedFinite ==
  IsFiniteSet(R!Rewarded) /\ Cardinality(R!Rewarded) \in Nat
<1>1. R!Rewarded \in SUBSET Referred /\ IsFiniteSet(Referred)
  BY PromotionsAssumption, SameCardinality DEF R!Rewarded, R!ConstantsAssumption
<1> QED BY <1>1, FS_Subset, FS_CardinalityType

LEMMA ReferralTypeInductive ==
  ASSUME R!TypeOK, [R!Next]_(R!vars)
  PROVE  R!TypeOK'
<1> USE DEF R!code
<1> DEFINE Rest ==
      /\ codeActive \in BOOLEAN
      /\ totalSignups \in Nat /\ totalConversions \in Nat
      /\ referral \in [Referred -> {"SIGNED_UP", "CONVERTED", None}]
      /\ reward \in [Referred -> {"ISSUED", "REDEEMED", "EXPIRED", None}]
      /\ overdue \subseteq Referred /\ cap \in Caps \union {MaxRewards}
<1>a. R!TypeOK <=> Rest /\ RequestsOK
  BY DEF R!TypeOK, RequestsOK
<1>b. Rest /\ RequestsOK
  BY <1>a
<1>c. Rest' /\ RequestsOK' => R!TypeOK'
  BY DEF R!TypeOK, RequestsOK
<1> DEFINE Same == UNCHANGED <<codeActive, totalSignups, totalConversions, referral, reward, overdue, cap>>
<1>d. Same => Rest'
  BY <1>b
<1>1. CASE R!DeactivateCode \/ R!UpdateRewardRules \/ R!PassExpiry
  <2>1. UNCHANGED <<totalSignups, totalConversions, referral, reward, referralReq>>
    BY <1>1 DEF R!DeactivateCode, R!UpdateRewardRules, R!PassExpiry
  <2>2. overdue' \subseteq Referred /\ cap' \in Caps \union {MaxRewards}
    BY <1>1, <1>b DEF R!DeactivateCode, R!UpdateRewardRules, R!PassExpiry
  <2>3. codeActive' \in BOOLEAN
    BY <1>1, <1>b, Zenon DEF R!DeactivateCode, R!UpdateRewardRules, R!PassExpiry
  <2> QED BY <2>1, <2>2, <2>3, <1>b, <1>c DEF RequestsOK
<1>2. CASE R!ExpireStaleRewards
  BY <1>2, <1>b, <1>c DEF R!ExpireStaleRewards, RequestsOK
<1>3. CASE UNCHANGED R!vars
  BY <1>3, <1>b, <1>c DEF R!vars, RequestsOK
<1>4. ASSUME NEW r \in Slots, R!Step(r) PROVE R!TypeOK'
  <2>1. ASSUME NEW ok, NEW step \in Steps, referralReq[r].pc # "idle", R!Check(r, ok, step)
        PROVE  R!TypeOK'
    BY <2>1, <1>b, <1>c, <1>d, CheckOnly
  <2>2. CASE R!Submit(r)
    <3>1. PICK u \in Referred, step \in {"existing", "referral", "reward"} :
            referralReq' = [referralReq EXCEPT ![r].pc = step, ![r].user = u]
      BY <2>2 DEF R!Submit
    <3> DEFINE new == [referralReq[r] EXCEPT !.pc = step, !.user = u]
    <3>2. referralReq' = [referralReq EXCEPT ![r] = new]
      BY <3>1, <1>b DEF RequestsOK
    <3>3. new \in R!RequestType /\ new.user \in Referred
      BY <1>b DEF RequestsOK, R!RequestType
    <3> HIDE DEF new
    <3>4. RequestsOK'
      BY <3>2, <3>3, <1>b, RequestMoves
    <3> QED BY <3>4, <2>2, <1>c, <1>d DEF R!Submit
  <2>3. CASE R!ReadRules(r)
    <3>1. PICK read \in {cap, MaxRewards} :
            referralReq' = [referralReq EXCEPT ![r].pc = "convert", ![r].cap = read]
      BY <2>3 DEF R!ReadRules
    <3> DEFINE new == [referralReq[r] EXCEPT !.pc = "convert", !.cap = read]
    <3>2. referralReq' = [referralReq EXCEPT ![r] = new]
      BY <3>1, <1>b DEF RequestsOK
    <3>3. read \in Nat
      BY <1>b, PromotionsAssumption DEF R!ConstantsAssumption
    <3>old. referralReq[r] \in R!RequestType /\ referralReq[r].user \in Referred
      BY <2>3, <1>b DEF RequestsOK, R!ReadRules
    <3>4. new \in R!RequestType /\ new.user \in Referred
      BY <3>3, <3>old DEF R!RequestType
    <3> HIDE DEF new
    <3>5. RequestsOK'
      BY <3>2, <3>4, <1>b, RequestMoves
    <3> QED BY <3>5, <2>3, <1>c, <1>d DEF R!ReadRules
  <2>4. CASE R!CountRewards(r)
    <3> DEFINE new == [referralReq[r] EXCEPT !.pc = "commit", !.counted = Cardinality(R!Rewarded)]
    <3>1. referralReq' = [referralReq EXCEPT ![r] = new]
      BY <2>4, <1>b, SameCardinality DEF RequestsOK, R!CountRewards
    <3>2. Cardinality(R!Rewarded) \in Nat
      BY RewardedFinite
    <3>3. new \in R!RequestType /\ new.user \in Referred
      BY <3>2, <2>4, <1>b DEF RequestsOK, R!RequestType, R!CountRewards
    <3> HIDE DEF new
    <3>4. RequestsOK'
      BY <3>1, <3>3, <1>b, RequestMoves
    <3> QED BY <3>4, <2>4, <1>c, <1>d DEF R!CountRewards
  <2>5. CASE R!CreateReferral(r)
    <3>1. RequestsOK'
      BY <2>5, <1>b, FinishOnly DEF R!CreateReferral
    <3>2. UNCHANGED <<codeActive, totalConversions, reward, overdue, cap>>
      BY <2>5 DEF R!CreateReferral
    <3>3. referral' \in [Referred -> {"SIGNED_UP", "CONVERTED", None}]
      BY <2>5, <1>b DEF R!CreateReferral
    <3>4. totalSignups' = totalSignups + 1
      BY <2>5 DEF R!CreateReferral
    <3>5. totalSignups' \in Nat
      BY <3>4, <1>b
    <3> QED BY <3>1, <3>2, <3>3, <3>5, <1>b, <1>c
  <2>6. CASE R!CommitConversion(r)
    <3>1. R!Granted(r) \in {"ISSUED", "REDEEMED", "EXPIRED", None}
      BY <2>6, <1>b DEF R!Granted, R!CommitConversion, RequestsOK
    <3>2. RequestsOK'
      BY <2>6, <1>b, FinishOnly DEF R!CommitConversion
    <3>3. UNCHANGED <<codeActive, totalSignups, overdue, cap>>
      BY <2>6 DEF R!CommitConversion
    <3>4. referral' \in [Referred -> {"SIGNED_UP", "CONVERTED", None}]
      BY <2>6, <1>b DEF R!CommitConversion
    <3>5. reward' \in [Referred -> {"ISSUED", "REDEEMED", "EXPIRED", None}]
      BY <3>1, <2>6, <1>b DEF R!CommitConversion
    <3>6. totalConversions' = totalConversions + 1
      BY <2>6 DEF R!CommitConversion
    <3>7. totalConversions' \in Nat
      BY <3>6, <1>b
    <3> QED BY <3>2, <3>3, <3>4, <3>5, <3>7, <1>b, <1>c
  <2>7. CASE R!ExpireOnRedeem(r) \/ R!RedeemReward(r)
    BY <2>7, <1>b, <1>c, FinishOnly DEF R!ExpireOnRedeem, R!RedeemReward
  <2>8. CASE R!CheckReferred(r) \/ R!CheckCode(r) \/ R!SignupConflicts(r) \/ R!ReadReferral(r)
    BY <2>8, <2>1 DEF R!CheckReferred, R!CheckCode, R!SignupConflicts, R!ReadReferral, Steps
  <2>9. CASE R!ConvertReferral(r) \/ R!UpdateCode(r) \/ R!RedeemTooLate(r) \/ R!Abort(r)
    BY <2>9, <2>1 DEF R!ConvertReferral, R!UpdateCode, R!RedeemTooLate, R!Abort, Steps
  <2>10. CASE R!ReadReward(r)
    BY <2>10, <2>1 DEF R!ReadReward, Steps
  <2> QED
    BY <1>4, <2>2, <2>3, <2>4, <2>5, <2>6, <2>7, <2>8, <2>9, <2>10 DEF R!Step
<1> QED
  BY <1>1, <1>2, <1>3, <1>4 DEF R!Next

-----------------------------------------------------------------------------
(***************************************************************************)
(* ReferralInv is inductive.                                               *)
(***************************************************************************)
rows == <<totalSignups, totalConversions, referral, reward>>

\* A request no rule above is about.
Unconcerned == {"idle", "existing", "code", "signup", "referral", "rules", "reward"}

LEMMA RowsSame ==
  ASSUME UNCHANGED rows
  PROVE  /\ R!Rewarded' = R!Rewarded
         /\ RewardsEarned /\ RewardCap /\ CountersAgree =>
              RewardsEarned' /\ RewardCap' /\ CountersAgree'
<1>1. R!Rewarded' = R!Rewarded
  BY DEF R!Rewarded, rows
<1>2. RewardsEarned => RewardsEarned'
  BY DEF RewardsEarned, rows
<1>3. RewardCap => RewardCap'
  BY DEF RewardCap, R!RewardCap, rows
<1>4. CountersAgree => CountersAgree'
  BY DEF CountersAgree, R!CountersAgree, rows
<1> QED BY <1>1, <1>2, <1>3, <1>4

\* A request that only looks disturbs nobody.
LEMMA LookOnly ==
  ASSUME ReferralInv, NEW r \in Slots, Only(r), UNCHANGED rows,
         Relies(r)', \A q \in Slots : q # r => Apart(q, r)'
  PROVE  ReferralInv'
<1>1. ASSUME NEW q \in Slots PROVE Relies(q)'
  <2>1. CASE q = r
    BY <2>1
  <2>2. CASE q # r
    <3>1. Relies(q) /\ referralReq'[q] = referralReq[q] /\ R!Rewarded' = R!Rewarded
      BY <2>2, RowsSame DEF ReferralInv, Only
    <3> QED BY <3>1 DEF Relies, rows
  <2> QED BY <2>1, <2>2
<1>2. ASSUME NEW q \in Slots, NEW s \in Slots, q # s PROVE Apart(q, s)'
  <2>1. CASE q # r /\ s # r
    <3>1. Apart(q, s) /\ referralReq'[q] = referralReq[q] /\ referralReq'[s] = referralReq[s]
      BY <1>2, <2>1 DEF ReferralInv, Only
    <3> QED BY <3>1 DEF Apart
  <2>2. Apart(s, q)' => Apart(q, s)'
    BY DEF Apart
  <2> QED BY <1>2, <2>1, <2>2
<1>3. RewardsEarned' /\ RewardCap' /\ CountersAgree'
  BY RowsSame DEF ReferralInv
<1> QED BY <1>1, <1>2, <1>3 DEF ReferralInv

LEMMA LeaveOnly ==
  ASSUME ReferralInv, NEW r \in Slots, Only(r), UNCHANGED rows,
         referralReq'[r].pc \in Unconcerned
  PROVE  ReferralInv'
<1>1. Relies(r)'
  BY DEF Relies, Unconcerned, Converting, Counting
<1>2. \A q \in Slots : q # r => Apart(q, r)'
  BY DEF Apart, Unconcerned, Converting, Counting
<1> QED BY <1>1, <1>2, LookOnly

\* A request that writes and is done: what the others rely on must be left.
LEMMA WriteAndLeave ==
  ASSUME ReferralInv, NEW r \in Slots, Only(r), referralReq'[r] = R!Idle,
         \A q \in Slots :
           q # r =>
             /\ referralReq[q].pc \in Converting =>
                  referral'[referralReq[q].user] = referral[referralReq[q].user]
             /\ referralReq[q].pc = "commit" => Cardinality(R!Rewarded)' <= referralReq[q].counted
             /\ referralReq[q].pc \in {"expire", "redeem"} => reward'[referralReq[q].user] # None,
         RewardsEarned', RewardCap', CountersAgree'
  PROVE  ReferralInv'
<1>1. ASSUME NEW q \in Slots PROVE Relies(q)'
  <2>1. CASE q = r
    BY <2>1 DEF Relies, R!Idle, Converting, Counting
  <2>2. CASE q # r
    <3>1. Relies(q) /\ referralReq'[q] = referralReq[q]
      BY <2>2 DEF ReferralInv, Only
    <3> QED BY <2>2, <3>1 DEF Relies
  <2> QED BY <2>1, <2>2
<1>2. ASSUME NEW q \in Slots, NEW s \in Slots, q # s PROVE Apart(q, s)'
  <2>1. CASE q # r /\ s # r
    <3>1. Apart(q, s) /\ referralReq'[q] = referralReq[q] /\ referralReq'[s] = referralReq[s]
      BY <1>2, <2>1 DEF ReferralInv, Only
    <3> QED BY <3>1 DEF Apart
  <2>2. CASE q = r \/ s = r
    BY <2>2 DEF Apart, R!Idle, Converting, Counting
  <2> QED BY <2>1, <2>2
<1> QED BY <1>1, <1>2 DEF ReferralInv

\* Losing rewards keeps the cap.
LEMMA FewerRewards ==
  ASSUME R!Rewarded' \subseteq R!Rewarded
  PROVE  /\ Cardinality(R!Rewarded)' <= Cardinality(R!Rewarded) /\ Cardinality(R!Rewarded)' \in Nat
         /\ RewardCap => RewardCap'
<1> DEFINE new == R!Rewarded'
<1>1. new \in SUBSET R!Rewarded
  OBVIOUS
<1> HIDE DEF new
<1>2. IsFiniteSet(R!Rewarded) /\ Cardinality(R!Rewarded) \in Nat
  BY RewardedFinite
<1>3. Cardinality(new) <= Cardinality(R!Rewarded) /\ Cardinality(new) \in Nat
  BY <1>1, <1>2, FS_Subset, FS_CardinalityType
<1>4. MaxRewards \in Nat
  BY PromotionsAssumption DEF R!ConstantsAssumption
<1>5. RewardCap <=> Cardinality(R!Rewarded) <= MaxRewards
  BY SameCardinality DEF RewardCap, R!RewardCap, R!Rewarded
<1>6. RewardCap' <=> Cardinality(new) <= MaxRewards
  BY SameCardinality DEF RewardCap, R!RewardCap, R!Rewarded, new
<1> QED BY <1>2, <1>3, <1>4, <1>5, <1>6 DEF new

-----------------------------------------------------------------------------
(***************************************************************************)
(* What the code's counters count.                                         *)
(***************************************************************************)
Known == {u \in Referred : referral[u] # None}
Converted == {u \in Referred : referral[u] = "CONVERTED"}

LEMMA CountersMean ==
  /\ IsFiniteSet(Known) /\ IsFiniteSet(Converted)
  /\ CountersAgree <=> totalSignups = Cardinality(Known) /\ totalConversions = Cardinality(Converted)
<1>1. Known \in SUBSET Referred /\ Converted \in SUBSET Referred /\ IsFiniteSet(Referred)
  BY PromotionsAssumption, SameCardinality DEF Known, Converted, R!ConstantsAssumption
<1>2. CountersAgree <=> totalSignups = Cardinality(Known) /\ totalConversions = Cardinality(Converted)
  BY SameCardinality DEF CountersAgree, R!CountersAgree, Known, Converted
<1> QED BY <1>1, <1>2, FS_Subset

LEMMA CreateReferralKeeps ==
  ASSUME NEW r \in Slots, R!TypeOK, R!CreateReferral(r), ReferralInv
  PROVE  ReferralInv'
<1> DEFINE u == referralReq[r].user
<1>1. RequestsOK
  BY DEF R!TypeOK, RequestsOK
<1>2. u \in Referred /\ referral[u] = None
  BY DEF R!TypeOK, R!CreateReferral, R!Unreferred
<1>3. Only(r) /\ referralReq'[r] = R!Idle
  BY <1>1, FinishOnly DEF R!CreateReferral
<1>4. /\ referral' = [referral EXCEPT ![u] = "SIGNED_UP"] /\ totalSignups' = totalSignups + 1
      /\ UNCHANGED <<totalConversions, reward>>
  BY DEF R!CreateReferral
<1>5. R!Rewarded' = R!Rewarded
  BY <1>4 DEF R!Rewarded
<1>6. ASSUME NEW q \in Slots, q # r
      PROVE  /\ referralReq[q].pc \in Converting =>
                  referral'[referralReq[q].user] = referral[referralReq[q].user]
             /\ referralReq[q].pc = "commit" => Cardinality(R!Rewarded)' <= referralReq[q].counted
             /\ referralReq[q].pc \in {"expire", "redeem"} => reward'[referralReq[q].user] # None
  <2>1. Relies(q)
    BY DEF ReferralInv
  <2>2. None # "SIGNED_UP"
    BY PromotionsAssumption DEF R!ConstantsAssumption
  <2>3. referralReq[q].pc \in Converting => referralReq[q].user # u
    BY <2>1, <2>2, <1>2 DEF Relies
  <2>4. referralReq[q].pc \in Converting =>
          referral'[referralReq[q].user] = referral[referralReq[q].user]
    BY <2>3, <1>2, <1>4 DEF R!TypeOK
  <2> QED BY <2>1, <2>4, <1>4, <1>5 DEF Relies
<1>7. RewardsEarned'
  BY <1>2, <1>4, PromotionsAssumption DEF ReferralInv, RewardsEarned, R!TypeOK, R!ConstantsAssumption
<1>8. RewardCap'
  BY <1>5, FewerRewards DEF ReferralInv
<1>9. CountersAgree'
  <2>1. Known' = Known \union {u} /\ u \notin Known
    BY <1>2, <1>4, PromotionsAssumption DEF Known, R!TypeOK, R!ConstantsAssumption
  <2>2. Converted' = Converted
    BY <1>2, <1>4, PromotionsAssumption DEF Converted, R!TypeOK, R!ConstantsAssumption
  <2>3. IsFiniteSet(Known) /\ totalSignups = Cardinality(Known) /\ totalConversions = Cardinality(Converted)
    BY CountersMean DEF ReferralInv
  <2>4. Cardinality(Known \union {u}) = Cardinality(Known) + 1
    BY <2>1, <2>3, FS_AddElement
  <2>5. totalSignups' = Cardinality(Known') /\ totalConversions' = Cardinality(Converted')
    BY <2>1, <2>2, <2>3, <2>4, <1>4
  <2>6. CountersAgree' <=> totalSignups' = Cardinality(Known') /\ totalConversions' = Cardinality(Converted')
    BY SameCardinality DEF CountersAgree, R!CountersAgree, Known, Converted
  <2> QED BY <2>5, <2>6
<1> HIDE DEF u
<1> QED BY <1>3, <1>6, <1>7, <1>8, <1>9, WriteAndLeave

LEMMA CommitConversionKeeps ==
  ASSUME NEW r \in Slots, R!TypeOK, R!CommitConversion(r), ReferralInv
  PROVE  ReferralInv'
<1> DEFINE u == referralReq[r].user
<1>1. RequestsOK
  BY DEF R!TypeOK, RequestsOK
<1>2. /\ u \in Referred /\ referral[u] = "SIGNED_UP" /\ reward[u] = None
      /\ Cardinality(R!Rewarded) <= referralReq[r].counted /\ referralReq[r].cap <= MaxRewards
      /\ referralReq[r].counted \in Nat /\ referralReq[r].cap \in Nat
  <2>1. Relies(r) /\ RewardsEarned
    BY DEF ReferralInv
  <2>2. referralReq[r].pc = "commit" /\ u \in Referred
    BY DEF R!TypeOK, R!CommitConversion
  <2>3. referral[u] = "SIGNED_UP" /\ Cardinality(R!Rewarded) <= referralReq[r].counted
        /\ referralReq[r].cap <= MaxRewards
    BY <2>1, <2>2 DEF Relies, Converting, Counting
  <2>4. referralReq[r].counted \in Nat /\ referralReq[r].cap \in Nat
    BY <1>1 DEF RequestsOK, R!RequestType
  <2>5. reward[u] = None
    BY <2>1, <2>2, <2>3 DEF RewardsEarned
  <2> QED BY <2>2, <2>3, <2>4, <2>5
<1>3. Only(r) /\ referralReq'[r] = R!Idle
  BY <1>1, FinishOnly DEF R!CommitConversion
<1>4. /\ referral' = [referral EXCEPT ![u] = "CONVERTED"] /\ totalConversions' = totalConversions + 1
      /\ reward' = [reward EXCEPT ![u] = R!Granted(r)]
      /\ UNCHANGED totalSignups
  BY DEF R!CommitConversion
<1>5. ASSUME NEW q \in Slots, q # r
      PROVE  /\ referralReq[q].pc \in Converting =>
                  referral'[referralReq[q].user] = referral[referralReq[q].user]
             /\ referralReq[q].pc = "commit" => Cardinality(R!Rewarded)' <= referralReq[q].counted
             /\ referralReq[q].pc \in {"expire", "redeem"} => reward'[referralReq[q].user] # None
  <2>1. Relies(q) /\ Apart(q, r) /\ referralReq[r].pc = "commit"
    BY <1>5 DEF ReferralInv, R!CommitConversion
  <2>2. referralReq[q].pc # "commit"
    BY <2>1 DEF Apart, Counting
  <2>3. referralReq[q].pc \in Converting => referralReq[q].user # u
    BY <2>1 DEF Apart, Converting, Counting
  <2>4. referralReq[q].pc \in Converting =>
          referral'[referralReq[q].user] = referral[referralReq[q].user]
    BY <2>3, <1>2, <1>4 DEF R!TypeOK
  <2>5. referralReq[q].pc \in {"expire", "redeem"} => reward'[referralReq[q].user] # None
    BY <2>1, <1>2, <1>4 DEF Relies, R!TypeOK
  <2> QED BY <2>2, <2>4, <2>5
<1>6. RewardsEarned'
  BY <1>2, <1>4 DEF ReferralInv, RewardsEarned, R!TypeOK
<1>7. RewardCap'
  <2>1. CASE referralReq[r].counted < referralReq[r].cap
    <3>1. R!Rewarded' = R!Rewarded \union {u}
      BY <2>1, <1>2, <1>4 DEF R!Rewarded, R!Granted, R!TypeOK
    <3>2. u \notin R!Rewarded
      BY <1>2, PromotionsAssumption DEF R!Rewarded, R!ConstantsAssumption
    <3>3. Cardinality(R!Rewarded \union {u}) = Cardinality(R!Rewarded) + 1
      BY <3>2, RewardedFinite, FS_AddElement
    <3>4. Cardinality(R!Rewarded) \in Nat /\ MaxRewards \in Nat
      BY RewardedFinite, PromotionsAssumption DEF R!ConstantsAssumption
    <3>5. Cardinality(R!Rewarded) + 1 <= MaxRewards
      BY <2>1, <1>2, <3>4
    <3>6. RewardCap' <=> Cardinality(R!Rewarded') <= MaxRewards
      BY SameCardinality DEF RewardCap, R!RewardCap, R!Rewarded
    <3> QED BY <3>1, <3>3, <3>5, <3>6
  <2>2. CASE ~(referralReq[r].counted < referralReq[r].cap)
    <3>1. reward' = reward
      BY <2>2, <1>2, <1>4 DEF R!Granted, R!TypeOK
    <3>2. R!Rewarded' = R!Rewarded
      BY <3>1 DEF R!Rewarded
    <3> QED BY <3>2, FewerRewards DEF ReferralInv
  <2> QED BY <2>1, <2>2
<1>8. CountersAgree'
  <2>1. Converted' = Converted \union {u} /\ u \notin Converted
    BY <1>2, <1>4 DEF Converted, R!TypeOK
  <2>2. Known' = Known
    BY <1>2, <1>4, PromotionsAssumption DEF Known, R!TypeOK, R!ConstantsAssumption
  <2>3. IsFiniteSet(Converted) /\ totalSignups = Cardinality(Known) /\ totalConversions = Cardinality(Converted)
    BY CountersMean DEF ReferralInv
  <2>4. Cardinality(Converted \union {u}) = Cardinality(Converted) + 1
    BY <2>1, <2>3, FS_AddElement
  <2>5. totalSignups' = Cardinality(Known') /\ totalConversions' = Cardinality(Converted')
    BY <2>1, <2>2, <2>3, <2>4, <1>4
  <2>6. CountersAgree' <=> totalSignups' = Cardinality(Known') /\ totalConversions' = Cardinality(Converted')
    BY SameCardinality DEF CountersAgree, R!CountersAgree, Known, Converted
  <2> QED BY <2>5, <2>6
<1> HIDE DEF u
<1> QED BY <1>3, <1>5, <1>6, <1>7, <1>8, WriteAndLeave

\* Rewards that lapse or are used leave what conversions rely on.
LEMMA RewardsLapse ==
  ASSUME R!TypeOK, ReferralInv, UNCHANGED <<totalSignups, totalConversions, referral>>,
         R!Rewarded' \subseteq R!Rewarded,
         \A u \in Referred : reward'[u] = None <=> reward[u] = None
  PROVE  /\ \A q \in Slots :
              /\ referralReq[q].pc \in Converting =>
                   referral'[referralReq[q].user] = referral[referralReq[q].user]
              /\ referralReq[q].pc = "commit" => Cardinality(R!Rewarded)' <= referralReq[q].counted
              /\ referralReq[q].pc \in {"expire", "redeem"} => reward'[referralReq[q].user] # None
         /\ RewardsEarned' /\ RewardCap' /\ CountersAgree'
<1>1. ASSUME NEW q \in Slots
      PROVE  /\ referralReq[q].pc = "commit" => Cardinality(R!Rewarded)' <= referralReq[q].counted
             /\ referralReq[q].pc \in {"expire", "redeem"} => reward'[referralReq[q].user] # None
  <2>1. Relies(q) /\ referralReq[q].counted \in Nat
    BY DEF ReferralInv, R!TypeOK, R!RequestType
  <2>2. Cardinality(R!Rewarded)' <= Cardinality(R!Rewarded) /\ Cardinality(R!Rewarded) \in Nat
    BY FewerRewards, RewardedFinite
  <2>3. Cardinality(R!Rewarded)' \in Nat
    BY FewerRewards
  <2>4. referralReq[q].pc = "commit" => Cardinality(R!Rewarded)' <= referralReq[q].counted
    BY <2>1, <2>2, <2>3 DEF Relies
  <2>5. referralReq[q].pc \in {"expire", "redeem"} => referralReq[q].user \in Referred
    BY DEF R!TypeOK
  <2> QED BY <2>1, <2>4, <2>5 DEF Relies
<1>2. RewardsEarned' /\ RewardCap'
  BY FewerRewards DEF ReferralInv, RewardsEarned
<1>3. CountersAgree'
  BY DEF ReferralInv, CountersAgree, R!CountersAgree
<1> QED BY <1>1, <1>2, <1>3

LEMMA RewardWrites ==
  ASSUME NEW r \in Slots, R!TypeOK, R!ExpireOnRedeem(r) \/ R!RedeemReward(r), ReferralInv
  PROVE  ReferralInv'
<1> DEFINE u == referralReq[r].user
<1>1. RequestsOK
  BY DEF R!TypeOK, RequestsOK
<1>2. u \in Referred /\ reward[u] # None
  BY DEF R!TypeOK, R!ExpireOnRedeem, R!RedeemReward, ReferralInv, Relies
<1>3. Only(r) /\ referralReq'[r] = R!Idle
  BY <1>1, FinishOnly DEF R!ExpireOnRedeem, R!RedeemReward
<1>4. UNCHANGED <<totalSignups, totalConversions, referral>>
  BY DEF R!ExpireOnRedeem, R!RedeemReward, R!code
<1>5. \/ reward' = [reward EXCEPT ![u] = "EXPIRED"]
      \/ reward[u] = "ISSUED" /\ reward' = [reward EXCEPT ![u] = "REDEEMED"]
  BY DEF R!ExpireOnRedeem, R!RedeemReward, R!StillIssued
<1> HIDE DEF u
<1>6. R!Rewarded' \subseteq R!Rewarded
  BY <1>2, <1>5 DEF R!Rewarded, R!TypeOK
<1>7. \A w \in Referred : reward'[w] = None <=> reward[w] = None
  BY <1>2, <1>5, PromotionsAssumption DEF R!ConstantsAssumption, R!TypeOK
<1> QED BY <1>3, <1>4, <1>6, <1>7, RewardsLapse, WriteAndLeave

LEMMA ExpireStaleRewardsKeeps ==
  ASSUME R!TypeOK, R!ExpireStaleRewards, ReferralInv
  PROVE  ReferralInv'
<1>1. UNCHANGED <<totalSignups, totalConversions, referral, referralReq>>
  BY DEF R!ExpireStaleRewards, R!code
<1>2. R!Rewarded' \subseteq R!Rewarded
  BY DEF R!Rewarded, R!TypeOK, R!ExpireStaleRewards
<1>3. \A w \in Referred : reward'[w] = None <=> reward[w] = None
  BY PromotionsAssumption DEF R!ConstantsAssumption, R!TypeOK, R!ExpireStaleRewards
<1>4. \A q \in Slots : Relies(q)'
  <2> SUFFICES ASSUME NEW q \in Slots PROVE Relies(q)'
    OBVIOUS
  <2>1. Relies(q)
    BY DEF ReferralInv
  <2> QED BY <1>1, <1>2, <1>3, <2>1, RewardsLapse DEF Relies
<1>5. \A q, s \in Slots : q # s => Apart(q, s)'
  BY <1>1 DEF ReferralInv, Apart
<1> QED BY <1>1, <1>2, <1>3, <1>4, <1>5, RewardsLapse DEF ReferralInv

LEMMA LookKeeps ==
  ASSUME NEW r \in Slots, R!TypeOK, ReferralInv,
         \/ R!Submit(r) \/ R!Abort(r) \/ R!CheckReferred(r) \/ R!CheckCode(r) \/ R!SignupConflicts(r)
         \/ R!ReadReferral(r) \/ R!RedeemTooLate(r)
  PROVE  ReferralInv'
<1>1. RequestsOK
  BY DEF R!TypeOK, RequestsOK
<1>2. ASSUME NEW ok, NEW step \in Unconcerned, referralReq[r].pc # "idle", R!Check(r, ok, step)
      PROVE  ReferralInv'
  <2>1. step \in Steps
    BY DEF Steps, Unconcerned
  <2>2. Only(r) /\ UNCHANGED rows
    BY <1>1, <1>2, <2>1, CheckOnly DEF rows
  <2>3. \/ referralReq'[r] = [referralReq[r] EXCEPT !.pc = step]
        \/ referralReq'[r] = R!Idle
    BY <1>1, <1>2, <2>1, CheckOnly
  <2>4. referralReq'[r].pc \in Unconcerned
    BY <1>1, <2>3 DEF R!Idle, Unconcerned, RequestsOK, R!RequestType
  <2> QED BY <2>2, <2>4, LeaveOnly
<1>3. CASE R!Submit(r)
  <2>1. PICK u \in Referred, step \in {"existing", "referral", "reward"} :
          referralReq' = [referralReq EXCEPT ![r].pc = step, ![r].user = u]
    BY <1>3 DEF R!Submit
  <2>2. Only(r) /\ referralReq'[r].pc \in Unconcerned
    BY <1>1, <2>1 DEF Only, Unconcerned, RequestsOK, R!RequestType
  <2>3. UNCHANGED rows
    BY <1>3 DEF R!Submit, rows, R!code
  <2> QED BY <2>2, <2>3, LeaveOnly
<1>4. CASE R!Abort(r) \/ R!SignupConflicts(r) \/ R!RedeemTooLate(r)
  BY <1>4, <1>2 DEF R!Abort, R!SignupConflicts, R!RedeemTooLate, Unconcerned
<1>5. CASE R!CheckReferred(r) \/ R!CheckCode(r) \/ R!ReadReferral(r)
  BY <1>5, <1>2 DEF R!CheckReferred, R!CheckCode, R!ReadReferral, Unconcerned
<1> QED BY <1>3, <1>4, <1>5

\* A conversion takes a lock that is free, and finds what it then relies on.
LEMMA ConversionKeeps ==
  ASSUME NEW r \in Slots, R!TypeOK, ReferralInv,
         R!ReadRules(r) \/ R!ConvertReferral(r) \/ R!UpdateCode(r) \/ R!CountRewards(r)
  PROVE  ReferralInv'
<1>1. RequestsOK /\ referralReq[r] \in R!RequestType
  BY DEF R!TypeOK, RequestsOK
<1>2. Relies(r) /\ \A q \in Slots : q # r => Apart(q, r)
  BY DEF ReferralInv
<1>3. ASSUME NEW ok, NEW step \in {"codeUpdate", "count"}, referralReq[r].pc # "idle", R!Check(r, ok, step)
      PROVE  /\ Only(r) /\ UNCHANGED rows
             /\ \/ ok /\ referralReq'[r] = [referralReq[r] EXCEPT !.pc = step]
                \/ referralReq'[r] = R!Idle
  <2>1. step \in Steps
    BY DEF Steps
  <2> QED BY <1>1, <1>3, <2>1, CheckOnly DEF rows
<1>4. Only(r) /\ UNCHANGED rows /\ referralReq'[r] = R!Idle => ReferralInv'
  BY LeaveOnly DEF R!Idle, Unconcerned
<1>5. CASE R!ReadRules(r)
  <2>1. PICK read \in {cap, MaxRewards} :
          referralReq' = [referralReq EXCEPT ![r].pc = "convert", ![r].cap = read]
    BY <1>5 DEF R!ReadRules
  <2>2. referralReq'[r].pc = "convert" /\ referralReq'[r].cap = read /\ Only(r)
    BY <1>1, <2>1 DEF Only, RequestsOK, R!RequestType
  <2>3. read <= MaxRewards
    BY PromotionsAssumption DEF R!TypeOK, R!ConstantsAssumption
  <2>4. UNCHANGED rows
    BY <1>5 DEF R!ReadRules, rows, R!code
  <2>5. Relies(r)'
    BY <2>2, <2>3 DEF Relies, Converting, Counting
  <2>6. \A q \in Slots : q # r => Apart(q, r)'
    BY <2>2 DEF Apart, Converting, Counting
  <2> QED BY <2>2, <2>4, <2>5, <2>6, LookOnly
<1>6. CASE R!ConvertReferral(r)
  <2>1. /\ Only(r) /\ UNCHANGED rows
        /\ \/ R!SignedUp(referralReq[r].user) /\ referralReq'[r] = [referralReq[r] EXCEPT !.pc = "codeUpdate"]
           \/ referralReq'[r] = R!Idle
    BY <1>3, <1>6 DEF R!ConvertReferral
  <2>2. CASE R!SignedUp(referralReq[r].user) /\ referralReq'[r] = [referralReq[r] EXCEPT !.pc = "codeUpdate"]
    <3>1. /\ referralReq'[r].pc = "codeUpdate" /\ referralReq'[r].user = referralReq[r].user
          /\ referralReq'[r].cap = referralReq[r].cap
      BY <1>1, <2>2 DEF R!RequestType
    <3>2. Relies(r)'
      BY <1>2, <1>6, <2>1, <2>2, <3>1 DEF Relies, rows, R!SignedUp, R!ConvertReferral, Converting, Counting
    <3>3. \A q \in Slots : q # r => Apart(q, r)'
      BY <1>6, <2>1, <3>1 DEF Apart, Only, R!ConvertReferral, R!ReferralFree, Converting, Counting
    <3> QED BY <2>1, <3>2, <3>3, LookOnly
  <2> QED BY <2>1, <2>2, <1>4
<1>7. CASE R!UpdateCode(r)
  <2>1. /\ Only(r) /\ UNCHANGED rows
        /\ \/ referralReq'[r] = [referralReq[r] EXCEPT !.pc = "count"]
           \/ referralReq'[r] = R!Idle
    BY <1>3, <1>7 DEF R!UpdateCode
  <2>2. CASE referralReq'[r] = [referralReq[r] EXCEPT !.pc = "count"]
    <3>1. /\ referralReq'[r].pc = "count" /\ referralReq'[r].user = referralReq[r].user
          /\ referralReq'[r].cap = referralReq[r].cap
      BY <1>1, <2>2 DEF R!RequestType
    <3>2. Relies(r)'
      BY <1>2, <1>7, <2>1, <3>1 DEF Relies, rows, R!UpdateCode, Converting, Counting
    <3>3. \A q \in Slots : q # r => Apart(q, r)'
      BY <1>2, <1>7, <2>1, <3>1 DEF Apart, Only, R!UpdateCode, R!CodeFree, Converting, Counting
    <3> QED BY <2>1, <3>2, <3>3, LookOnly
  <2> QED BY <2>1, <2>2, <1>4
<1>8. CASE R!CountRewards(r)
  <2>1. referralReq' = [referralReq EXCEPT ![r].pc = "commit", ![r].counted = Cardinality(R!Rewarded)]
    BY <1>8, SameCardinality DEF R!CountRewards
  <2>2. /\ referralReq'[r].pc = "commit" /\ referralReq'[r].user = referralReq[r].user
        /\ referralReq'[r].cap = referralReq[r].cap
        /\ referralReq'[r].counted = Cardinality(R!Rewarded) /\ Only(r)
    BY <1>1, <2>1 DEF Only, RequestsOK, R!RequestType
  <2>3. UNCHANGED rows
    BY <1>8 DEF R!CountRewards, rows, R!code
  <2>4. Cardinality(R!Rewarded') <= referralReq'[r].counted
    BY <2>2, <2>3, RowsSame, RewardedFinite
  <2>5. Relies(r)'
    BY <1>2, <1>8, <2>2, <2>3, <2>4 DEF Relies, rows, R!CountRewards, Converting, Counting
  <2>6. \A q \in Slots : q # r => Apart(q, r)'
    BY <1>2, <1>8, <2>2 DEF Apart, Only, R!CountRewards, Converting, Counting
  <2> QED BY <2>2, <2>3, <2>5, <2>6, LookOnly
<1> QED BY <1>5, <1>6, <1>7, <1>8

LEMMA ReadRewardKeeps ==
  ASSUME NEW r \in Slots, R!TypeOK, R!ReadReward(r), ReferralInv
  PROVE  ReferralInv'
<1> DEFINE u == referralReq[r].user
           step == IF u \in overdue THEN "expire" ELSE "redeem"
<1>1. RequestsOK /\ referralReq[r] \in R!RequestType
  BY DEF R!TypeOK, RequestsOK
<1>2. /\ Only(r) /\ UNCHANGED rows
      /\ \/ reward[u] = "ISSUED" /\ referralReq'[r] = [referralReq[r] EXCEPT !.pc = step]
         \/ referralReq'[r] = R!Idle
  <2>1. R!Check(r, reward[u] = "ISSUED", step) /\ referralReq[r].pc # "idle" /\ step \in Steps
    BY DEF R!ReadReward, Steps
  <2> HIDE DEF step, u
  <2> QED BY <1>1, <2>1, CheckOnly DEF rows
<1>3. CASE referralReq'[r] = R!Idle
  BY <1>2, <1>3, LeaveOnly DEF R!Idle, Unconcerned
<1>4. CASE reward[u] = "ISSUED" /\ referralReq'[r] = [referralReq[r] EXCEPT !.pc = step]
  <2>1. referralReq'[r].pc \in {"expire", "redeem"} /\ referralReq'[r].user = u
    BY <1>1, <1>4 DEF R!RequestType
  <2>2. reward'[u] # None
    BY <1>2, <1>4, PromotionsAssumption DEF rows, R!ConstantsAssumption
  <2>3. Relies(r)'
    BY <2>1, <2>2 DEF Relies, Converting, Counting
  <2>4. \A q \in Slots : q # r => Apart(q, r)'
    BY <2>1 DEF Apart, Converting, Counting
  <2> QED BY <1>2, <2>3, <2>4, LookOnly
<1> QED BY <1>2, <1>3, <1>4

LEMMA ReferralInductive ==
  ASSUME R!TypeOK, ReferralInv, [R!Next]_(R!vars)
  PROVE  ReferralInv'
<1>1. ASSUME UNCHANGED rows, UNCHANGED referralReq PROVE ReferralInv'
  <2>1. \A q \in Slots : Relies(q)'
    BY <1>1, RowsSame DEF ReferralInv, Relies, rows
  <2>2. \A q, s \in Slots : q # s => Apart(q, s)'
    BY <1>1 DEF ReferralInv, Apart
  <2> QED BY <1>1, <2>1, <2>2, RowsSame DEF ReferralInv
<1>2. R!DeactivateCode \/ R!UpdateRewardRules \/ R!PassExpiry \/ UNCHANGED R!vars =>
        UNCHANGED rows /\ UNCHANGED referralReq
  BY DEF R!DeactivateCode, R!UpdateRewardRules, R!PassExpiry, R!vars, R!code, rows
<1>3. ASSUME NEW r \in Slots, R!Step(r) PROVE ReferralInv'
  BY <1>3, LookKeeps, ConversionKeeps, CreateReferralKeeps, CommitConversionKeeps, ReadRewardKeeps,
     RewardWrites DEF R!Step
<1> QED
  BY <1>1, <1>2, <1>3, ExpireStaleRewardsKeeps DEF R!Next

-----------------------------------------------------------------------------
(***************************************************************************)
(* Bundle prices.  Each share but the last is its course's part of the     *)
(* price, rounded down: what is allocated stays behind the exact part of   *)
(* the courses done, by less than a cent for each of them.                 *)
(***************************************************************************)
Prefix(f, k) == Cardinality(UNION {{i} \X (1 .. f[i]) : i \in 1 .. k})

LEMMA PricingCardinality == \A S : Pricing!Cardinality(S) = Cardinality(S)
BY Zenon DEF Pricing!Cardinality, Cardinality

LEMMA SumIsPrefix == \A s : Pricing!SumOf(s) = Prefix(s, Len(s))
BY PricingCardinality DEF Pricing!SumOf, Pricing!Units, Prefix

\* The sum of the first terms is a number, ...
LEMMA PrefixType ==
  ASSUME NEW k \in Nat, NEW f, \A i \in 1 .. k : f[i] \in Nat
  PROVE  /\ IsFiniteSet(UNION {{i} \X (1 .. f[i]) : i \in 1 .. k})
         /\ Prefix(f, k) \in Nat
<1> DEFINE U(i) == {i} \X (1 .. f[i])
           S == {U(i) : i \in 1 .. k}
<1>1. IsFiniteSet(1 .. k)
  <2>1. 1 \in Int /\ k \in Int
    OBVIOUS
  <2> QED BY <2>1, FS_Interval
<1>2. IsFiniteSet(S)
  <2> DEFINE g == [i \in 1 .. k |-> U(i)]
  <2>1. g \in Surjection(1 .. k, S)
    BY DEF Surjection
  <2> QED BY <1>1, <2>1, FS_Surjection
<1>3. \A T \in S : IsFiniteSet(T)
  <2> SUFFICES ASSUME NEW i \in 1 .. k PROVE IsFiniteSet(U(i))
    OBVIOUS
  <2>1. 1 \in Int /\ f[i] \in Int
    OBVIOUS
  <2>2. IsFiniteSet({i})
    BY FS_Singleton
  <2>3. IsFiniteSet(1 .. f[i])
    BY <2>1, FS_Interval
  <2> QED BY <2>2, <2>3, FS_Product
<1>4. IsFiniteSet(UNION S)
  BY <1>2, <1>3, FS_UNION
<1> QED BY <1>4, FS_CardinalityType DEF Prefix

\* ... nothing for none of them, ...
LEMMA PrefixNone == \A f : Prefix(f, 0) = 0
<1> SUFFICES ASSUME NEW f PROVE Prefix(f, 0) = 0
  OBVIOUS
<1>1. UNION {{i} \X (1 .. f[i]) : i \in 1 .. 0} = {}
  OBVIOUS
<1> QED BY <1>1, FS_EmptySet DEF Prefix

\* ... grows by each term, ...
LEMMA PrefixAdd ==
  ASSUME NEW k \in Nat, NEW f, \A i \in 1 .. k + 1 : f[i] \in Nat
  PROVE  Prefix(f, k + 1) = Prefix(f, k) + f[k + 1]
<1> DEFINE U(i) == {i} \X (1 .. f[i])
           Old == UNION {U(i) : i \in 1 .. k}
<1>1. UNION {U(i) : i \in 1 .. k + 1} = Old \union U(k + 1)
  <2>1. 1 .. k + 1 = (1 .. k) \union {k + 1}
    OBVIOUS
  <2> QED BY <2>1
<1>2. Old \intersect U(k + 1) = {}
  OBVIOUS
<1>3. IsFiniteSet(Old)
  BY PrefixType
<1>4. f[k + 1] \in Nat
  OBVIOUS
<1>5. IsFiniteSet(U(k + 1)) /\ Cardinality(U(k + 1)) = f[k + 1]
  <2>1. IsFiniteSet({k + 1}) /\ Cardinality({k + 1}) = 1
    BY FS_Singleton
  <2>2. ASSUME NEW n \in Nat PROVE IsFiniteSet(1 .. n) /\ Cardinality(1 .. n) = n
    <3>1. 1 \in Int /\ n \in Int
      OBVIOUS
    <3>2. IsFiniteSet(1 .. n) /\ Cardinality(1 .. n) = IF 1 > n THEN 0 ELSE n - 1 + 1
      BY <3>1, FS_Interval
    <3> QED BY <3>2
  <2>3. IsFiniteSet(1 .. f[k + 1]) /\ Cardinality(1 .. f[k + 1]) = f[k + 1]
    BY <1>4, <2>2
  <2>4. IsFiniteSet({k + 1} \X (1 .. f[k + 1]))
    BY <2>1, <2>3, FS_Product
  <2>5. Cardinality({k + 1} \X (1 .. f[k + 1])) =
          Cardinality({k + 1}) * Cardinality(1 .. f[k + 1])
    BY <2>1, <2>3, FS_Product
  <2>6. U(k + 1) = {k + 1} \X (1 .. f[k + 1])
    OBVIOUS
  <2>7. Cardinality({k + 1}) * Cardinality(1 .. f[k + 1]) = f[k + 1]
    <3>1. 1 * f[k + 1] = f[k + 1]
      BY <1>4
    <3> QED BY <3>1, <2>1, <2>3
  <2> HIDE DEF U
  <2> QED BY <2>4, <2>5, <2>6, <2>7
<1>6. Cardinality(Old \union U(k + 1)) =
        Cardinality(Old) + f[k + 1] - Cardinality(Old \intersect U(k + 1))
  BY <1>3, <1>5, FS_Union
<1>7. Cardinality(Old) \in Nat /\ Cardinality(Old \intersect U(k + 1)) = 0
  BY <1>2, <1>3, FS_CardinalityType, FS_EmptySet
<1> HIDE DEF Old, U
<1>8. Cardinality(Old \union U(k + 1)) = Cardinality(Old) + f[k + 1]
  BY <1>4, <1>6, <1>7
<1> QED BY <1>1, <1>8 DEF Prefix, Old, U

\* ... is no larger than the whole, ...
LEMMA PrefixMonotone ==
  ASSUME NEW n \in Nat, NEW k \in 0 .. n, NEW f, \A i \in 1 .. n : f[i] \in Nat
  PROVE  Prefix(f, k) <= Prefix(f, n)
<1> DEFINE Part == UNION {{i} \X (1 .. f[i]) : i \in 1 .. k}
           Whole == UNION {{i} \X (1 .. f[i]) : i \in 1 .. n}
<1>1. Part \in SUBSET Whole
  OBVIOUS
<1>2. IsFiniteSet(Whole)
  BY PrefixType
<1> HIDE DEF Part, Whole
<1>3. Cardinality(Part) <= Cardinality(Whole)
  BY <1>1, <1>2, FS_Subset
<1> QED BY <1>3 DEF Prefix, Part, Whole

\* ... and depends on its own terms only.
LEMMA PrefixSame ==
  ASSUME NEW k \in Nat, NEW f, NEW g, \A i \in 1 .. k : f[i] = g[i]
  PROVE  Prefix(f, k) = Prefix(g, k)
<1>1. {{i} \X (1 .. f[i]) : i \in 1 .. k} = {{i} \X (1 .. g[i]) : i \in 1 .. k}
  OBVIOUS
<1> QED BY <1>1 DEF Prefix

(***************************************************************************)
(* The arithmetic of one share.                                            *)
(***************************************************************************)
LEMMA Division ==
  ASSUME NEW n \in Nat, NEW m \in Nat \ {0}
  PROVE  n \div m \in Nat /\ m * (n \div m) <= n /\ n < m * (n \div m) + m
OBVIOUS

\* The share c of weight p of d is short of t * p / d by less than a cent.
InPart(c, d, t, p) == c * d <= t * p /\ t * p < c * d + Cent * d

LEMMA RoundedDown ==
  ASSUME NEW t \in Nat, NEW p \in Nat, NEW d \in Nat \ {0}
  PROVE  Pricing!CentsDown(t * p, d) \in Nat /\ InPart(Pricing!CentsDown(t * p, d), d, t, p)
<1> DEFINE n == t * p
           q == n \div (d * Cent)
<1>1. Cent \in Nat \ {0} /\ n \in Nat
  BY PromotionsAssumption DEF Pricing!ConstantsAssumption
<1>2. d * Cent \in Nat \ {0}
  BY <1>1
<1> HIDE DEF n
<1>3. q \in Nat /\ (d * Cent) * q <= n /\ n < (d * Cent) * q + d * Cent
  BY <1>1, <1>2, Division
<1> HIDE DEF q
<1>4. (d * Cent) * q = (Cent * q) * d /\ d * Cent = Cent * d
  BY <1>1, <1>3
<1>5. Pricing!CentsDown(n, d) = Cent * q
  BY DEF Pricing!CentsDown, q
<1>6. Cent * q \in Nat
  BY <1>1, <1>3
<1> QED BY <1>3, <1>4, <1>5, <1>6 DEF InPart, n

\* What was allocated to m courses, g, is behind their part w of d by less
\* than m cents.
Behind(g, d, t, w, m) ==
  /\ g * d <= t * w
  /\ t * w <= g * d + Cent * d * m
  /\ m > 0 => t * w < g * d + Cent * d * m

LEMMA OneMoreShare ==
  ASSUME NEW g \in Nat, NEW d \in Nat, NEW t \in Nat, NEW w \in Nat, NEW m \in Nat,
         NEW c \in Nat, NEW p \in Nat, Behind(g, d, t, w, m), InPart(c, d, t, p)
  PROVE  Behind(g + c, d, t, w + p, m + 1)
<1>1. Cent \in Nat
  BY PromotionsAssumption DEF Pricing!ConstantsAssumption
<1>2. (g + c) * d = g * d + c * d /\ t * (w + p) = t * w + t * p
  OBVIOUS
<1>3. Cent * d * (m + 1) = Cent * d * m + Cent * d
  BY <1>1
<1>4. g * d \in Nat /\ c * d \in Nat /\ t * w \in Nat /\ t * p \in Nat
      /\ Cent * d * m \in Nat /\ Cent * d \in Nat
  BY <1>1
<1>5. (g + c) * d <= t * (w + p)
  BY <1>2, <1>4 DEF Behind, InPart
<1>6. t * (w + p) < g * d + c * d + Cent * d * m + Cent * d
  BY <1>2, <1>4 DEF Behind, InPart
<1>7. t * (w + p) < (g + c) * d + Cent * d * (m + 1)
  BY <1>2, <1>3, <1>4, <1>6
<1>8. t * (w + p) \in Nat
  BY <1>2, <1>4
<1>9. (g + c) * d + Cent * d * (m + 1) \in Nat
  <2>1. (g + c) * d \in Nat /\ Cent * d * (m + 1) \in Nat
    BY <1>2, <1>3, <1>4
  <2> QED BY <2>1
<1> QED BY <1>5, <1>7, <1>8, <1>9 DEF Behind

\* The price covers what is allocated.
LEMMA NotNegative ==
  ASSUME NEW g \in Nat, NEW d \in Nat \ {0}, NEW t \in Nat, NEW w \in 0 .. d, NEW m \in Nat,
         Behind(g, d, t, w, m)
  PROVE  g <= t
<1>1. t * w <= t * d
  OBVIOUS
<1>2. g * d <= t * d
  BY <1>1 DEF Behind
<1> QED BY <1>2

\* The rest, as the share of the last course.
LEMMA TheRest ==
  ASSUME NEW g \in Nat, NEW d \in Nat \ {0}, NEW t \in Nat, NEW w \in Nat, NEW m \in Nat,
         NEW p \in Nat, w + p = d, Behind(g, d, t, w, m)
  PROVE  LET off == (t - g) * d - t * p
         IN off >= 0 /\ (m > 0 => off < Cent * d * m)
<1>1. Cent \in Nat
  BY PromotionsAssumption DEF Pricing!ConstantsAssumption
<1>2. (t - g) * d = t * d - g * d /\ t * d = t * w + t * p
  OBVIOUS
<1>3. g * d \in Nat /\ t * d \in Nat /\ t * w \in Nat /\ t * p \in Nat /\ Cent * d * m \in Nat
  BY <1>1
<1> QED BY <1>2, <1>3 DEF Behind

(***************************************************************************)
(* The allocation, share by share.                                         *)
(***************************************************************************)
\* While there are list prices to go by, a course weighs its price, else 1.
SoFar ==
  LET n == Len(prices)
      m == Len(shares)
      list == Prefix(prices, n)
  IN IF list = 0 THEN Behind(allocated, n, total, m, m)
                 ELSE Behind(allocated, list, total, Prefix(prices, m), m)

PricingTypes ==
  /\ total \in Nat /\ allocated \in Nat
  /\ prices \in Seq(Nat) /\ shares \in Seq(Nat)
  /\ Len(shares) <= Len(prices)

InProportion ==
  LET list == Prefix(prices, Len(prices))
  IN list > 0 =>
       /\ \A i \in 1 .. Len(shares) : i < Len(prices) => InPart(shares[i], list, total, prices[i])
       /\ Len(shares) = Len(prices) =>
            LET n == Len(prices)
                off == shares[n] * list - total * prices[n]
            IN off >= 0 /\ (n > 1 => off < Cent * list * (n - 1))

PricingInv ==
  /\ Prefix(shares, Len(shares)) = allocated
  /\ Len(shares) = Len(prices) => allocated = total
  /\ Len(shares) < Len(prices) => SoFar
  /\ InProportion

LEMMA PricingInit == Pricing!Init => PricingTypes /\ PricingInv
<1> SUFFICES ASSUME Pricing!Init PROVE PricingTypes /\ PricingInv
  OBVIOUS
<1>1. PICK n \in 1 .. MaxCourses : prices \in [1 .. n -> 0 .. MaxPrice]
  BY DEF Pricing!Init
<1>2. n \in Nat \ {0} /\ MaxPrice \in Nat /\ MaxCourses \in Nat
  BY PromotionsAssumption DEF Pricing!ConstantsAssumption
<1>3. prices \in Seq(Nat) /\ Len(prices) = n
  BY <1>1, <1>2
<1>4. total \in Nat
  BY <1>2 DEF Pricing!Init
<1>5. shares = <<>> /\ Len(shares) = 0 /\ allocated = 0 /\ shares \in Seq(Nat)
  BY DEF Pricing!Init
<1>6. PricingTypes
  BY <1>2, <1>3, <1>4, <1>5 DEF PricingTypes
<1>7. Prefix(shares, 0) = 0 /\ Prefix(prices, 0) = 0
  BY PrefixNone
<1>8. \A i \in 1 .. n : prices[i] \in Nat
  BY <1>1, <1>2
<1>9. Prefix(prices, n) \in Nat
  BY <1>2, <1>8, PrefixType
<1>10. Cent \in Nat
  BY PromotionsAssumption DEF Pricing!ConstantsAssumption
<1>11. \A d \in Nat : Behind(0, d, total, 0, 0)
  BY <1>4, <1>10 DEF Behind
<1>12. SoFar
  BY <1>2, <1>3, <1>5, <1>7, <1>9, <1>11 DEF SoFar
<1>13. InProportion
  BY <1>2, <1>3, <1>5 DEF InProportion
<1> QED BY <1>2, <1>3, <1>5, <1>6, <1>7, <1>12, <1>13 DEF PricingInv

LEMMA AllocateKeeps ==
  ASSUME PricingTypes, PricingInv, Pricing!Allocate
  PROVE  PricingTypes' /\ PricingInv'
<1> DEFINE n == Len(prices)
           m == Len(shares)
           list == Prefix(prices, n)
           share == Pricing!ShareOf(m + 1)
<1>1. /\ m \in Nat /\ n \in Nat /\ m < n
      /\ total \in Nat /\ allocated \in Nat
      /\ prices \in Seq(Nat) /\ shares \in Seq(Nat)
      /\ \A i \in 1 .. n : prices[i] \in Nat
      /\ \A i \in 1 .. m : shares[i] \in Nat
      /\ m + 1 \in 1 .. n
  BY DEF PricingTypes, Pricing!Allocate
<1>2. /\ allocated' = allocated + share /\ shares' = Append(shares, share)
      /\ total' = total /\ prices' = prices
  BY DEF Pricing!Allocate
<1>3. /\ list \in Nat /\ Prefix(prices, m) \in Nat /\ Prefix(prices, m) <= list
      /\ Prefix(prices, m + 1) = Prefix(prices, m) + prices[m + 1] /\ Prefix(prices, m + 1) <= list
  <2>1. \A i \in 1 .. m : prices[i] \in Nat
    BY <1>1
  <2>2. \A i \in 1 .. m + 1 : prices[i] \in Nat
    BY <1>1
  <2>3. list \in Nat /\ Prefix(prices, m) \in Nat
    BY <1>1, <2>1, PrefixType
  <2>4. Prefix(prices, m + 1) = Prefix(prices, m) + prices[m + 1]
    BY <1>1, <2>2, PrefixAdd
  <2>5. m \in 0 .. n /\ m + 1 \in 0 .. n
    BY <1>1
  <2>6. Prefix(prices, m) <= list /\ Prefix(prices, m + 1) <= list
    BY <1>1, <2>5, PrefixMonotone
  <2> QED BY <2>3, <2>4, <2>6
<1>4. SoFar /\ Prefix(shares, m) = allocated
  BY <1>1 DEF PricingInv
<1>5. Pricing!ListTotal = list
  BY SumIsPrefix DEF Pricing!ListTotal
<1>6. allocated <= total
  <2>1. CASE list = 0
    <3>1. Behind(allocated, n, total, m, m)
      BY <1>4, <2>1 DEF SoFar
    <3>2. n \in Nat \ {0} /\ m \in 0 .. n
      BY <1>1
    <3> QED BY <1>1, <3>1, <3>2, NotNegative
  <2>2. CASE list # 0
    <3>1. Behind(allocated, list, total, Prefix(prices, m), m)
      BY <1>4, <2>2 DEF SoFar
    <3>2. list \in Nat \ {0} /\ Prefix(prices, m) \in 0 .. list
      BY <1>3, <2>2
    <3> HIDE DEF list
    <3> QED BY <1>1, <3>1, <3>2, NotNegative
  <2> QED BY <2>1, <2>2
<1>7. /\ m + 1 = n => share = total - allocated
      /\ m + 1 # n /\ list = 0 => share \in Nat /\ InPart(share, n, total, 1)
      /\ m + 1 # n /\ list # 0 => share \in Nat /\ InPart(share, list, total, prices[m + 1])
  <2>1. m + 1 = n => share = total - allocated
    BY DEF Pricing!ShareOf
  <2>2. ASSUME m + 1 # n, list = 0 PROVE share \in Nat /\ InPart(share, n, total, 1)
    <3>1. share = Pricing!CentsDown(total, n) /\ total * 1 = total
      BY <1>1, <1>5, <2>2 DEF Pricing!ShareOf
    <3>2. n \in Nat \ {0} /\ 1 \in Nat
      BY <1>1
    <3> HIDE DEF share, n
    <3>3. Pricing!CentsDown(total * 1, n) \in Nat /\ InPart(Pricing!CentsDown(total * 1, n), n, total, 1)
      BY <1>1, <3>2, RoundedDown
    <3> QED BY <3>1, <3>3
  <2>3. ASSUME m + 1 # n, list # 0 PROVE share \in Nat /\ InPart(share, list, total, prices[m + 1])
    <3>1. share = Pricing!CentsDown(total * prices[m + 1], list)
      BY <1>1, <1>5, <2>3 DEF Pricing!ShareOf
    <3>2. list \in Nat \ {0} /\ prices[m + 1] \in Nat
      BY <1>1, <1>3, <2>3
    <3> HIDE DEF share, list, m
    <3> QED BY <1>1, <3>1, <3>2, RoundedDown
  <2> QED BY <2>1, <2>2, <2>3
<1>8. share \in Nat
  BY <1>1, <1>3, <1>6, <1>7
<1> HIDE DEF share
<1>9. /\ shares' \in Seq(Nat) /\ Len(shares') = m + 1 /\ shares'[m + 1] = share
      /\ \A i \in 1 .. m : shares'[i] = shares[i]
  BY <1>1, <1>2, <1>8
<1>10. PricingTypes'
  BY <1>1, <1>2, <1>8, <1>9 DEF PricingTypes
<1>11. Prefix(shares', m + 1) = allocated'
  <2>1. \A i \in 1 .. m + 1 : shares'[i] \in Nat
    BY <1>1, <1>8, <1>9
  <2>2. Prefix(shares', m + 1) = Prefix(shares', m) + share
    BY <1>1, <1>9, <2>1, PrefixAdd
  <2>3. Prefix(shares', m) = Prefix(shares, m)
    BY <1>1, <1>9, PrefixSame
  <2> QED BY <1>2, <1>4, <2>2, <2>3
<1>12. m + 1 = n => allocated' = total
  BY <1>1, <1>2, <1>7
<1>13. m + 1 < n => SoFar'
  <2> SUFFICES ASSUME m + 1 < n PROVE SoFar'
    OBVIOUS
  <2>0. m + 1 # n
    BY <1>1
  <2>1. CASE list = 0
    <3>1. Behind(allocated, n, total, m, m) /\ InPart(share, n, total, 1)
      BY <1>4, <1>7, <2>0, <2>1 DEF SoFar
    <3>2. Behind(allocated + share, n, total, m + 1, m + 1)
      <4> HIDE DEF n, m
      <4> QED BY <1>1, <1>8, <3>1, OneMoreShare
    <3> QED BY <1>2, <1>9, <2>1, <3>2 DEF SoFar
  <2>2. CASE list # 0
    <3>1. Behind(allocated, list, total, Prefix(prices, m), m) /\ InPart(share, list, total, prices[m + 1])
      BY <1>4, <1>7, <2>0, <2>2 DEF SoFar
    <3>2. prices[m + 1] \in Nat
      BY <1>1
    <3>3. Behind(allocated + share, list, total, Prefix(prices, m) + prices[m + 1], m + 1)
      <4> HIDE DEF list, m
      <4> QED BY <1>1, <1>3, <1>8, <3>1, <3>2, OneMoreShare
    <3> QED BY <1>2, <1>3, <1>9, <2>2, <3>3 DEF SoFar
  <2> QED BY <2>1, <2>2
<1>14. InProportion'
  <2> SUFFICES ASSUME list > 0
               PROVE  /\ \A i \in 1 .. m + 1 : i < n => InPart(shares'[i], list, total, prices[i])
                      /\ m + 1 = n =>
                           LET off == shares'[n] * list - total * prices[n]
                           IN off >= 0 /\ (n > 1 => off < Cent * list * (n - 1))
    BY <1>2, <1>9 DEF InProportion
  <2>1. list # 0 /\ InProportion
    BY <1>3 DEF PricingInv
  <2>2. ASSUME NEW i \in 1 .. m + 1, i < n PROVE InPart(shares'[i], list, total, prices[i])
    <3>1. CASE i = m + 1
      BY <1>1, <1>7, <1>9, <2>1, <2>2, <3>1
    <3>2. CASE i # m + 1
      <4>1. i \in 1 .. m
        BY <1>1, <3>2
      <4>2. InPart(shares[i], list, total, prices[i])
        BY <2>1, <2>2, <4>1 DEF InProportion
      <4> QED BY <1>9, <4>1, <4>2
    <3> QED BY <3>1, <3>2
  <2>3. ASSUME m + 1 = n
        PROVE  LET off == (total - allocated) * list - total * prices[m + 1]
               IN off >= 0 /\ (m > 0 => off < Cent * list * m)
    <3>1. Behind(allocated, list, total, Prefix(prices, m), m)
      BY <1>4, <2>1 DEF SoFar
    <3>2. Prefix(prices, m) + prices[m + 1] = list /\ prices[m + 1] \in Nat
      BY <1>1, <1>3, <2>3
    <3>3. list \in Nat \ {0}
      BY <1>3, <2>1
    <3> HIDE DEF list, m
    <3> QED BY <1>1, <1>3, <3>1, <3>2, <3>3, TheRest
  <2>4. m + 1 = n => shares'[n] = total - allocated /\ n - 1 = m /\ (n > 1 => m > 0)
    BY <1>1, <1>7, <1>9
  <2> QED BY <2>2, <2>3, <2>4
<1> QED
  BY <1>2, <1>9, <1>10, <1>11, <1>12, <1>13, <1>14 DEF PricingInv

LEMMA PricingInductive ==
  ASSUME PricingTypes, PricingInv, [Pricing!Next]_(Pricing!vars)
  PROVE  PricingTypes' /\ PricingInv'
<1>1. CASE Pricing!Next
  BY <1>1, AllocateKeeps DEF Pricing!Next
<1>2. CASE UNCHANGED Pricing!vars
  BY <1>2 DEF Pricing!vars, PricingTypes, PricingInv, SoFar, InProportion
<1> QED BY <1>1, <1>2

-----------------------------------------------------------------------------
(***************************************************************************)
(* The theorems, of SpecOne: a behaviour is of one of the parts, and       *)
(* leaves the variables of the others alone.                               *)
(***************************************************************************)
NextOne == CouponStep \/ ReferralStep \/ PricingStep

LEMMA StepOfEach ==
  ASSUME [NextOne]_allVars
  PROVE  [Next]_vars /\ [R!Next]_(R!vars) /\ [Pricing!Next]_(Pricing!vars)
<1>1. /\ UNCHANGED referralVars => UNCHANGED R!vars
      /\ UNCHANGED pricingVars => UNCHANGED Pricing!vars
  BY DEF referralVars, R!vars, R!code, pricingVars, Pricing!vars
<1>2. CASE CouponStep
  BY <1>1, <1>2 DEF CouponStep
<1>3. CASE ReferralStep
  BY <1>1, <1>3 DEF ReferralStep
<1>4. CASE PricingStep
  BY <1>1, <1>4 DEF PricingStep
<1>5. CASE UNCHANGED allVars
  BY <1>1, <1>5 DEF allVars
<1> QED BY <1>2, <1>3, <1>4, <1>5 DEF NextOne

LEMMA ReferralInit == R!Init => R!TypeOK /\ ReferralInv
<1> SUFFICES ASSUME R!Init PROVE R!TypeOK /\ ReferralInv
  OBVIOUS
<1>1. \A r \in Slots : referralReq[r].pc = "idle"
  BY DEF R!Init, R!Idle
<1>2. R!TypeOK
  <2>1. codeActive \in BOOLEAN
    BY Zenon DEF R!Init
  <2>2. RequestsOK
    BY <1>1, IdleType DEF R!Init, RequestsOK
  <2> QED BY <2>1, <2>2 DEF R!Init, R!TypeOK, RequestsOK
<1>3. R!Rewarded = {} /\ Known = {} /\ Converted = {}
  BY PromotionsAssumption DEF R!Init, R!Rewarded, Known, Converted, R!ConstantsAssumption
<1>4. RewardCap
  BY <1>3, FS_EmptySet, SameCardinality, PromotionsAssumption
     DEF RewardCap, R!RewardCap, R!Rewarded, R!ConstantsAssumption
<1>5. CountersAgree
  BY <1>3, FS_EmptySet, CountersMean DEF R!Init
<1>6. RewardsEarned
  BY DEF R!Init, RewardsEarned
<1> QED
  BY <1>1, <1>2, <1>4, <1>5, <1>6 DEF ReferralInv, Relies, Apart, Converting, Counting

LEMMA ReferralsInvariant == SpecOne => [](R!TypeOK /\ ReferralInv)
<1>1. InitOne => R!TypeOK /\ ReferralInv
  BY ReferralInit DEF InitOne
<1>2. R!TypeOK /\ ReferralInv /\ [NextOne]_allVars => (R!TypeOK /\ ReferralInv)'
  BY StepOfEach, ReferralTypeInductive, ReferralInductive
<1> QED
  BY <1>1, <1>2, PTL DEF SpecOne, NextOne

\* Coupons and referrals keep their types.
THEOREM TypesCorrect == SpecOne => []TypesOK
<1>1. InitOne => TypeOK
  BY InitType DEF InitOne
<1>2. TypeOK /\ [NextOne]_allVars => TypeOK'
  BY StepOfEach, TypeInductive
<1>3. R!TypeOK /\ TypeOK => TypesOK
  BY DEF TypesOK
<1> QED
  BY <1>1, <1>2, <1>3, ReferralsInvariant, PTL DEF SpecOne, NextOne

\* No referrer ever holds more live and spent rewards than the cap allows,
\* however many conversions run at once and however the rules change.
THEOREM RewardsCapped == SpecOne => []RewardCap
<1>1. ReferralInv => RewardCap
  BY DEF ReferralInv
<1> QED BY <1>1, ReferralsInvariant, PTL

\* The counters of a code are exact at every commit.
THEOREM CountersExact == SpecOne => []CountersAgree
<1>1. ReferralInv => CountersAgree
  BY DEF ReferralInv
<1> QED BY <1>1, ReferralsInvariant, PTL

\* A reward used or lapsed is never usable again: one reward is granted for
\* each referral, at its only conversion, and a redemption takes it once.
THEOREM UsedOnce == SpecOne => NoSecondUse
<1> DEFINE Once ==
      \A u \in Referred :
        /\ reward[u] \in {"REDEEMED", "EXPIRED"} => reward'[u] # "ISSUED"
        /\ reward[u] = "EXPIRED" => reward'[u] = "EXPIRED"
<1>1. R!TypeOK /\ ReferralInv /\ [NextOne]_allVars => [Once]_(R!vars)
  <2> SUFFICES ASSUME R!TypeOK, ReferralInv, R!Next PROVE Once
    BY StepOfEach
  <2>1. CASE UNCHANGED reward
    BY <2>1
  <2>2. CASE R!ExpireStaleRewards
    BY <2>2 DEF R!ExpireStaleRewards, R!TypeOK
  <2>3. ASSUME NEW r \in Slots, R!CommitConversion(r) PROVE Once
    <3>1. Relies(r) /\ RewardsEarned /\ referralReq[r].user \in Referred /\ referralReq[r].pc = "commit"
      BY <2>3 DEF ReferralInv, R!TypeOK, R!CommitConversion
    <3>2. reward[referralReq[r].user] = None
      BY <3>1 DEF Relies, RewardsEarned, Converting, Counting
    <3>3. reward' = [reward EXCEPT ![referralReq[r].user] = R!Granted(r)]
      BY <2>3 DEF R!CommitConversion
    <3> QED BY <3>1, <3>2, <3>3, PromotionsAssumption DEF R!TypeOK, R!ConstantsAssumption
  <2>4. ASSUME NEW r \in Slots, R!ExpireOnRedeem(r) \/ R!RedeemReward(r) PROVE Once
    BY <2>4 DEF R!ExpireOnRedeem, R!RedeemReward, R!StillIssued, R!TypeOK
  <2>5. ASSUME NEW r \in Slots, R!Step(r)
        PROVE  \/ R!CommitConversion(r) \/ R!ExpireOnRedeem(r) \/ R!RedeemReward(r)
               \/ UNCHANGED reward
    BY <2>5 DEF R!Step, R!Check, R!Submit, R!Abort, R!CheckReferred, R!CheckCode, R!CreateReferral,
       R!SignupConflicts, R!ReadReferral, R!ReadRules, R!ConvertReferral, R!UpdateCode, R!CountRewards,
       R!ReadReward, R!RedeemTooLate
  <2>6. R!DeactivateCode \/ R!UpdateRewardRules \/ R!PassExpiry => UNCHANGED reward
    BY DEF R!DeactivateCode, R!UpdateRewardRules, R!PassExpiry
  <2> QED BY <2>1, <2>2, <2>3, <2>4, <2>5, <2>6 DEF R!Next
<1> QED
  BY <1>1, ReferralsInvariant, PTL DEF SpecOne, NextOne, NoSecondUse, R!NoSecondUse

LEMMA PricingInvariant == SpecOne => [](PricingTypes /\ PricingInv)
<1>1. ASSUME InitOne PROVE PricingTypes /\ PricingInv
  <2>1. CASE focus = "pricing"
    BY <1>1, <2>1, PricingInit DEF InitOne
  <2>2. CASE focus # "pricing"
    <3>1. /\ total = 0 /\ allocated = 0 /\ prices = <<>> /\ shares = <<>>
          /\ Len(prices) = 0 /\ Len(shares) = 0 /\ prices \in Seq(Nat) /\ shares \in Seq(Nat)
      BY <1>1, <2>2 DEF InitOne
    <3>2. Prefix(shares, 0) = 0 /\ Prefix(prices, 0) = 0
      BY PrefixNone
    <3> QED BY <3>1, <3>2 DEF PricingTypes, PricingInv, InProportion
  <2> QED BY <2>1, <2>2
<1>2. PricingTypes /\ PricingInv /\ [NextOne]_allVars => (PricingTypes /\ PricingInv)'
  BY StepOfEach, PricingInductive
<1> QED
  BY <1>1, <1>2, PTL DEF SpecOne, NextOne

\* Whatever the prices, the shares are all non-negative and add up to what the
\* bundle costs: the rest that the last course takes is never negative.
THEOREM SplitIsExact == SpecOne => []ExactSplit
<1>1. PricingTypes /\ PricingInv => ExactSplit
  <2> SUFFICES ASSUME PricingTypes, PricingInv, Len(shares) = Len(prices)
               PROVE  Pricing!SumOf(shares) = total /\ \A i \in 1 .. Len(shares) : shares[i] >= 0
    BY DEF ExactSplit, Pricing!ExactSplit, Pricing!Divided
  <2>1. Pricing!SumOf(shares) = total
    BY SumIsPrefix DEF PricingInv
  <2>2. \A i \in 1 .. Len(shares) : shares[i] \in Nat
    BY DEF PricingTypes
  <2> QED BY <2>1, <2>2
<1> QED BY <1>1, PricingInvariant, PTL

\* Rounding costs each course but the last less than a cent, and the last one
\* gains less than a cent for each of the others, whatever the prices.
THEOREM SplitIsProRata == SpecOne => []ProRata
<1>1. PricingTypes /\ PricingInv => ProRata
  <2> DEFINE n == Len(prices)
             list == Prefix(prices, n)
             off(i) == shares[i] * list - total * prices[i]
  <2> SUFFICES ASSUME PricingTypes, PricingInv, Len(shares) = n, list > 0, NEW i \in 1 .. n
               PROVE  IF i < n THEN off(i) <= 0 /\ -off(i) < Cent * list
                               ELSE off(i) >= 0 /\ (n > 1 => off(i) < Cent * list * (n - 1))
    BY SumIsPrefix DEF ProRata, Pricing!ProRata, Pricing!Divided, Pricing!ListTotal
  <2>1. InProportion
    BY DEF PricingInv
  <2>2. /\ n \in Nat /\ total \in Nat /\ shares[i] \in Nat /\ prices[i] \in Nat /\ list \in Nat
    <3>1. n \in Nat /\ \A j \in 1 .. n : prices[j] \in Nat /\ shares[j] \in Nat
      BY DEF PricingTypes
    <3> QED BY <3>1, PrefixType DEF PricingTypes
  <2>3. CASE i < n
    <3>1. InPart(shares[i], list, total, prices[i])
      BY <2>1, <2>3 DEF InProportion
    <3>2. Cent \in Nat
      BY PromotionsAssumption DEF Pricing!ConstantsAssumption
    <3>3. shares[i] * list \in Nat /\ total * prices[i] \in Nat /\ Cent * list \in Nat
      BY <2>2, <3>2
    <3> HIDE DEF list
    <3> QED BY <2>3, <3>1, <3>3 DEF InPart
  <2>4. CASE ~(i < n)
    <3>1. i = n
      BY <2>2, <2>4
    <3> QED BY <2>1, <2>4, <3>1 DEF InProportion
  <2> QED BY <2>3, <2>4
<1> QED BY <1>1, PricingInvariant, PTL
==============================================================================
