------------------------------ MODULE Referrals ------------------------------
(***************************************************************************)
(* ReferralsService for one referrer and one code: sign-ups, conversions   *)
(* on enrolment and the redemption and expiry of rewards, all concurrent.  *)
(* A conversion's transaction runs READ COMMITTED: its two updates lock    *)
(* the referral and the code until it commits, its count of rewards sees   *)
(* what is committed then, and its writes appear at the commit.            *)
(*                                                                         *)
(* Left out: discounts and prices, the welcome reward of the referred      *)
(* user, and notifications, whose failures are only logged.                *)
(***************************************************************************)
EXTENDS Naturals, FiniteSets

CONSTANTS
  Users,         \* users who may sign up with the code
  Caps,          \* bound: what maxRewardsPerReferrer is set to
  MaxRewards,    \* the cap when the rules cannot be read, or were never set
  Slots,         \* bound: requests under way at once
  None

ConstantsAssumption ==
  /\ IsFiniteSet(Users) /\ IsFiniteSet(Slots)
  /\ MaxRewards \in Nat /\ Caps \subseteq 0..MaxRewards
  /\ None \notin Users \union {"SIGNED_UP", "CONVERTED", "ISSUED", "REDEEMED", "EXPIRED"}

VARIABLES
  codeActive,                      \* referral_codes.isActive
  totalSignups, totalConversions,  \* its counters
  referral,                        \* referrals.status of each user, or None
  reward,                          \* status of the referrer's reward for each user, or None
  overdue,                         \* rewards past expiresAt
  cap,                             \* maxRewardsPerReferrer of the rules in force
  req

code == <<codeActive, totalSignups, totalConversions>>
vars == <<code, referral, reward, overdue, cap, req>>

RequestType ==
  [pc : {"idle", "existing", "code", "signup",
         "referral", "rules", "convert", "codeUpdate", "count", "commit",
         "reward", "expire", "redeem"},
   user : Users \union {None},
   counted : Nat,
   cap : Nat]

Idle == [pc |-> "idle", user |-> None, counted |-> 0, cap |-> 0]

Finish(r) == req' = [req EXCEPT ![r] = Idle]

\* Go on, or answer.
Check(r, ok, step) ==
  /\ IF ok THEN req' = [req EXCEPT ![r].pc = step] ELSE Finish(r)
  /\ UNCHANGED <<code, referral, reward, overdue, cap>>

Submit(r) ==
  /\ req[r].pc = "idle"
  /\ \E u \in Users, step \in {"existing", "referral", "reward"} :
       req' = [req EXCEPT ![r].pc = step, ![r].user = u]
  /\ UNCHANGED <<code, referral, reward, overdue, cap>>

DeactivateCode ==
  /\ codeActive /\ codeActive' = FALSE
  /\ UNCHANGED <<totalSignups, totalConversions, referral, reward, overdue, cap, req>>

\* updateRewardRules: what is not given is written back as it was read.
UpdateRewardRules ==
  /\ cap' \in Caps \union {cap}
  /\ UNCHANGED <<code, referral, reward, overdue, req>>

(***************************************************************************)
(* trackSignup                                                             *)
(***************************************************************************)
CheckReferred(r) ==
  /\ req[r].pc = "existing"
  /\ Check(r, referral[req[r].user] = None, "code")

CheckCode(r) ==
  /\ req[r].pc = "code"
  /\ Check(r, codeActive, "signup")

Unreferred(u) == referral[u] = None

CreateReferral(r) ==
  /\ req[r].pc = "signup"
  /\ Unreferred(req[r].user)
  /\ referral' = [referral EXCEPT ![req[r].user] = "SIGNED_UP"]
  /\ totalSignups' = totalSignups + 1
  /\ Finish(r)
  /\ UNCHANGED <<codeActive, totalConversions, reward, overdue, cap>>

SignupConflicts(r) ==
  /\ req[r].pc = "signup"
  /\ ~Unreferred(req[r].user)
  /\ Check(r, FALSE, "idle")

(***************************************************************************)
(* trackConversion                                                         *)
(***************************************************************************)
ReadReferral(r) ==
  /\ req[r].pc = "referral"
  /\ Check(r, referral[req[r].user] = "SIGNED_UP", "rules")

\* getRewardRules: an error of the query gives the rules of the configuration.
ReadRules(r) ==
  /\ req[r].pc = "rules"
  /\ \E read \in {cap, MaxRewards} :
       req' = [req EXCEPT ![r].pc = "convert", ![r].cap = read]
  /\ UNCHANGED <<code, referral, reward, overdue, cap>>

ReferralFree(r) ==
  \A q \in Slots \ {r} :
    req[q].user = req[r].user => req[q].pc \notin {"codeUpdate", "count", "commit"}

\* (mutant) converts by id alone
AnyStatus(u) == referral[u] # None

SignedUp(u) == referral[u] = "SIGNED_UP"

\* updateMany where status = SIGNED_UP waits for the referral's lock.
ConvertReferral(r) ==
  /\ req[r].pc = "convert"
  /\ ReferralFree(r)
  /\ Check(r, SignedUp(req[r].user), "codeUpdate")

\* (mutant) totalConversions is not updated before the count
NotLocked(r) == TRUE

CodeFree(r) == \A q \in Slots \ {r} : req[q].pc \notin {"count", "commit"}

UpdateCode(r) ==
  /\ req[r].pc = "codeUpdate"
  /\ CodeFree(r)
  /\ Check(r, TRUE, "count")

Rewarded == {u \in Users : reward[u] \in {"ISSUED", "REDEEMED"}}

CountRewards(r) ==
  /\ req[r].pc = "count"
  /\ req' = [req EXCEPT ![r].pc = "commit", ![r].counted = Cardinality(Rewarded)]
  /\ UNCHANGED <<code, referral, reward, overdue, cap>>

Granted(r) == IF req[r].counted < req[r].cap THEN "ISSUED" ELSE reward[req[r].user]

CommitConversion(r) ==
  LET u == req[r].user
  IN /\ req[r].pc = "commit"
     /\ referral' = [referral EXCEPT ![u] = "CONVERTED"]
     /\ totalConversions' = totalConversions + 1
     /\ reward' = [reward EXCEPT ![u] = Granted(r)]
     /\ Finish(r)
     /\ UNCHANGED <<codeActive, totalSignups, overdue, cap>>

\* An error or a crash anywhere in a request; a transaction rolls back.
Abort(r) ==
  /\ req[r].pc # "idle"
  /\ Check(r, FALSE, "idle")

(***************************************************************************)
(* redeemReward and expiry                                                 *)
(***************************************************************************)
ReadReward(r) ==
  LET u == req[r].user
  IN /\ req[r].pc = "reward"
     /\ Check(r, reward[u] = "ISSUED", IF u \in overdue THEN "expire" ELSE "redeem")

\* Unconditional: the reward may no longer be ISSUED.
ExpireOnRedeem(r) ==
  /\ req[r].pc = "expire"
  /\ reward' = [reward EXCEPT ![req[r].user] = "EXPIRED"]
  /\ Finish(r)
  /\ UNCHANGED <<code, referral, overdue, cap>>

\* (mutant) the update names the reward and not its status
Whatever(u) == reward[u] # None

StillIssued(u) == reward[u] = "ISSUED"

RedeemReward(r) ==
  /\ req[r].pc = "redeem"
  /\ StillIssued(req[r].user)
  /\ reward' = [reward EXCEPT ![req[r].user] = "REDEEMED"]
  /\ Finish(r)
  /\ UNCHANGED <<code, referral, overdue, cap>>

RedeemTooLate(r) ==
  /\ req[r].pc = "redeem"
  /\ ~StillIssued(req[r].user)
  /\ Check(r, FALSE, "idle")

PassExpiry ==
  /\ \E u \in {v \in Users : reward[v] # None} \ overdue : overdue' = overdue \union {u}
  /\ UNCHANGED <<code, referral, reward, cap, req>>

ExpireStaleRewards ==
  /\ reward' = [u \in Users |-> IF reward[u] = "ISSUED" /\ u \in overdue THEN "EXPIRED" ELSE reward[u]]
  /\ UNCHANGED <<code, referral, overdue, cap, req>>

-----------------------------------------------------------------------------
Init ==
  /\ codeActive = TRUE /\ totalSignups = 0 /\ totalConversions = 0
  /\ referral = [u \in Users |-> None]
  /\ reward = [u \in Users |-> None]
  /\ overdue = {} /\ cap = MaxRewards
  /\ req = [r \in Slots |-> Idle]

Step(r) ==
  \/ Submit(r) \/ Abort(r)
  \/ CheckReferred(r) \/ CheckCode(r) \/ CreateReferral(r) \/ SignupConflicts(r)
  \/ ReadReferral(r) \/ ReadRules(r) \/ ConvertReferral(r) \/ UpdateCode(r) \/ CountRewards(r)
  \/ CommitConversion(r)
  \/ ReadReward(r) \/ ExpireOnRedeem(r) \/ RedeemReward(r) \/ RedeemTooLate(r)

Next ==
  \/ DeactivateCode \/ UpdateRewardRules \/ PassExpiry \/ ExpireStaleRewards
  \/ \E r \in Slots : Step(r)

Spec == Init /\ [][Next]_vars

-----------------------------------------------------------------------------
(***************************************************************************)
(* Properties                                                              *)
(***************************************************************************)

TypeOK ==
  /\ codeActive \in BOOLEAN
  /\ totalSignups \in Nat /\ totalConversions \in Nat
  /\ referral \in [Users -> {"SIGNED_UP", "CONVERTED", None}]
  /\ reward \in [Users -> {"ISSUED", "REDEEMED", "EXPIRED", None}]
  /\ overdue \subseteq Users /\ cap \in Caps \union {MaxRewards}
  /\ req \in [Slots -> RequestType]
  /\ \A r \in Slots : req[r].pc # "idle" => req[r].user \in Users

\* The referrer never holds more live and spent rewards than the highest cap, though
\* every conversion reads the cap and counts them first, and adds one later.
RewardCap ==
  Cardinality({u \in Users : reward[u] \in {"ISSUED", "REDEEMED"}}) <= MaxRewards

\* The code's counters agree with the referrals, whatever was retried,
\* raced or rolled back; so nobody is converted, or signed up, twice.
CountersAgree ==
  /\ totalSignups = Cardinality({u \in Users : referral[u] # None})
  /\ totalConversions = Cardinality({u \in Users : referral[u] = "CONVERTED"})

\* A reward that was used or has lapsed never becomes usable again, and one
\* that has lapsed is never used.
NoSecondUse ==
  [][\A u \in Users :
       /\ reward[u] \in {"REDEEMED", "EXPIRED"} => reward'[u] # "ISSUED"
       /\ reward[u] = "EXPIRED" => reward'[u] = "EXPIRED"]_vars
==============================================================================
