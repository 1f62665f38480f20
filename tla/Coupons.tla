------------------------------- MODULE Coupons -------------------------------
(***************************************************************************)
(* CouponsService.redeem against one coupon, with administrators editing   *)
(* the coupon meanwhile.  A redemption reads its enrolment, then, in one   *)
(* READ COMMITTED transaction, reads the coupon, judges it by the clock,   *)
(* increments its counter by a conditional update and inserts the          *)
(* redemption.  The update may wait for the row; once it has the lock it   *)
(* sees the row of then, and from there to the commit it is one step.  The *)
(* time it compares the expiry with was taken before the wait.  Prices and *)
(* scopes are left out.                                                    *)
(***************************************************************************)
EXTENDS Naturals, FiniteSets

CONSTANTS
  Users, Courses,
  Limits,        \* values of maxRedemptions administrators set
  Unlimited,     \* maxRedemptions = null
  Requests,      \* bound: redemptions attempted
  MaxEdits,      \* bound: edits by administrators
  MaxTime        \* bound: how far the clock goes

ASSUME ConstantsAssumption ==
  /\ IsFiniteSet(Users) /\ IsFiniteSet(Courses)
  /\ Limits \subseteq Nat
  /\ Unlimited \notin Nat
  /\ MaxEdits \in Nat /\ MaxTime \in Nat

VARIABLES
  enrolled,         \* enrolments in status ACTIVE or COMPLETED
  clock,
  isActive, expiresAt, maxRedemptions, redeemedCount,     \* the coupon
  redemptions,      \* coupon_redemptions: the (user, course) pairs
  req,
  edits,
  lowered           \* history: a limit has been lowered

coupon == <<isActive, expiresAt, maxRedemptions, redeemedCount>>
vars == <<enrolled, clock, coupon, redemptions, req, edits, lowered>>

Never == MaxTime + 1                       \* expiresAt = null: later than the clock goes
RequestType ==
  [pc : {"new", "read", "judge", "commit", "done", "failed"},
   pair : (Users \X Courses) \union {<<>>},
   max : Limits \union {Unlimited},        \* maxRedemptions as read
   seen : 0 .. Never,                      \* expiresAt as read
   now : 0 .. MaxTime,                     \* the time the update compares with
   began : 0 .. MaxTime]                   \* history: when the request arrived

New == [pc |-> "new", pair |-> <<>>, max |-> Unlimited, seen |-> 0, now |-> 0, began |-> 0]
End(r, pc) == req' = [req EXCEPT ![r] = [New EXCEPT !.pc = pc]]

Below(n, max) == max # Unlimited => n < max

\* The enrolment is looked up before the transaction.
Submit(r) ==
  /\ req[r].pc = "new"
  /\ \E p \in enrolled :
       req' = [req EXCEPT ![r].pc = "read", ![r].pair = p, ![r].began = clock]
  /\ UNCHANGED <<enrolled, clock, coupon, redemptions, edits, lowered>>

ReadCoupon(r) ==
  /\ req[r].pc = "read"
  /\ IF isActive /\ Below(redeemedCount, maxRedemptions)
     THEN req' = [req EXCEPT ![r].pc = "judge", ![r].max = maxRedemptions, ![r].seen = expiresAt]
     ELSE End(r, "failed")
  /\ UNCHANGED <<enrolled, clock, coupon, redemptions, edits, lowered>>

\* assertCouponUsable on the coupon as read; a coupon is usable in its last moment.
\* The clock is read once more for the update, which is sent with that time.
JudgeCoupon(r) ==
  /\ req[r].pc = "judge"
  /\ IF req[r].seen >= clock
     THEN req' = [req EXCEPT ![r].pc = "commit", ![r].seen = 0, ![r].now = clock]
     ELSE End(r, "failed")
  /\ UNCHANGED <<enrolled, clock, coupon, redemptions, edits, lowered>>

\* (mutant) the limit is left to the check made on reading
NoLimit(r) == isActive /\ expiresAt > req[r].now

\* (mutant) the update repeats the limit but not the other conditions
LimitOnly(r) == Below(redeemedCount, req[r].max)

\* The where clause of the update, once it has the row: the coupon as it now is, but
\* the limit as read and the time as taken before the wait.
Matches(r) == isActive /\ expiresAt > req[r].now /\ Below(redeemedCount, req[r].max)

\* (mutant) no unique index on coupon, user and course
NeverRedeemed(p) == FALSE

Redeemed(p) == p \in redemptions

\* (mutant) a refused redemption takes back an increment it never made
RedeemUndone(r) ==
  /\ req[r].pc = "commit"
  /\ ~Matches(r) \/ Redeemed(req[r].pair)
  /\ redeemedCount' = redeemedCount - 1
  /\ End(r, "failed")
  /\ UNCHANGED <<enrolled, clock, isActive, expiresAt, maxRedemptions, redemptions, edits, lowered>>

RedeemFails(r) ==
  /\ req[r].pc = "commit"
  /\ ~Matches(r) \/ Redeemed(req[r].pair)
  /\ End(r, "failed")
  /\ UNCHANGED <<enrolled, clock, coupon, redemptions, edits, lowered>>

RedeemCommits(r) ==
  /\ req[r].pc = "commit"
  /\ Matches(r) /\ ~Redeemed(req[r].pair)
  /\ redeemedCount' = redeemedCount + 1
  /\ redemptions' = redemptions \union {req[r].pair}
  /\ End(r, "done")
  /\ UNCHANGED <<enrolled, clock, isActive, expiresAt, maxRedemptions, edits, lowered>>

Refund ==
  /\ \E p \in enrolled : enrolled' = enrolled \ {p}
  /\ UNCHANGED <<clock, coupon, redemptions, req, edits, lowered>>

(***************************************************************************)
(* update writes what its caller passes, whatever the coupon now holds; an *)
(* expiry that was still to come when it was checked may be past by now.   *)
(***************************************************************************)
Edit ==
  /\ edits < MaxEdits
  /\ edits' = edits + 1
  /\ UNCHANGED <<enrolled, clock, redeemedCount, redemptions, req>>

Raise ==
  /\ Edit
  /\ maxRedemptions # Unlimited
  /\ maxRedemptions' \in {m \in Limits : m > maxRedemptions} \union {Unlimited}
  /\ UNCHANGED <<isActive, expiresAt, lowered>>

Lower ==
  /\ Edit
  /\ maxRedemptions' \in {m \in Limits : Below(m, maxRedemptions)}
  /\ lowered' = TRUE
  /\ UNCHANGED <<isActive, expiresAt>>

SetActive ==
  /\ Edit
  /\ isActive' = ~isActive
  /\ UNCHANGED <<expiresAt, maxRedemptions, lowered>>

SetExpiry ==
  /\ Edit
  /\ expiresAt' \in 1 .. Never
  /\ UNCHANGED <<isActive, maxRedemptions, lowered>>

Tick ==
  /\ clock < MaxTime /\ clock' = clock + 1
  /\ UNCHANGED <<enrolled, coupon, redemptions, req, edits, lowered>>

-----------------------------------------------------------------------------
Init ==
  /\ enrolled = Users \X Courses
  /\ isActive = TRUE /\ redeemedCount = 0 /\ clock = 0 /\ expiresAt \in 1 .. Never
  /\ maxRedemptions \in Limits \union {Unlimited}
  /\ redemptions = {}
  /\ req = [r \in Requests |-> New]
  /\ edits = 0
  /\ lowered = FALSE

Redeem(r) ==
  Submit(r) \/ ReadCoupon(r) \/ JudgeCoupon(r) \/ RedeemFails(r) \/ RedeemCommits(r)

Next ==
  \/ Refund \/ Raise \/ Lower \/ SetActive \/ SetExpiry \/ Tick
  \/ \E r \in Requests : Redeem(r)

Spec == Init /\ [][Next]_vars

-----------------------------------------------------------------------------
(***************************************************************************)
(* Properties                                                              *)
(***************************************************************************)

TypeOK ==
  /\ enrolled \subseteq Users \X Courses
  /\ isActive \in BOOLEAN /\ expiresAt \in 1 .. Never /\ clock \in 0 .. MaxTime
  /\ maxRedemptions \in Limits \union {Unlimited}
  /\ redeemedCount \in Nat
  /\ redemptions \subseteq Users \X Courses
  /\ req \in [Requests -> RequestType]
  /\ \A r \in Requests : req[r].pc \in {"read", "judge", "commit"} => req[r].pair \in Users \X Courses
  /\ edits \in 0 .. MaxEdits
  /\ lowered \in BOOLEAN

\* The counter that the limit is checked against equals the redemptions
\* recorded: a user who tries the same course twice in parallel is counted
\* once, the second insert taking its increment back with it.
CounterIsExact == redeemedCount = Cardinality(redemptions)

\* Until an administrator lowers it, no redemption takes the coupon beyond its
\* limit, however many run at once (coupons.service.ts:242-243: "concurrent
\* redemptions can never exceed maxRedemptions").
WithinLimit ==
  [][~lowered /\ redemptions' # redemptions => Below(redeemedCount, maxRedemptions)]_vars

\* No redemption is recorded while the coupon is deactivated, although it was active
\* when the redemption read it; and one recorded after the expiry arrived before it: the
\* update waited for the row longer than the coupon lived, no request that came later
\* gets in, however administrators move the expiry (coupons.service.ts:270-290).
NeverWhenUnusable ==
  [][redemptions' # redemptions =>
       /\ isActive
       /\ \E r \in Requests : req'[r].pc # req[r].pc /\ req[r].began < expiresAt]_vars
==============================================================================
