------------------------------- MODULE PhoneOtp -------------------------------
(***************************************************************************)
(* OtpService: one-time codes sent to one phone of one user.  The rate     *)
(* limit is counted in memory before the first await; the phone_otp rows   *)
(* are named by the order of their insert.  A code given by the user is    *)
(* the code of one of the rows, or of none.                                *)
(***************************************************************************)
EXTENDS Naturals, Sequences, FiniteSets

CONSTANTS
  Requests,
  MaxAttempts,      \* OTP_MAX_ATTEMPTS
  MaxSends,         \* OTP_RATE_LIMIT_MAX_REQUESTS
  MaxRows           \* bound: codes stored

ConstantsAssumption ==
  /\ IsFiniteSet(Requests)
  /\ MaxAttempts \in Nat \ {0} /\ MaxSends \in Nat \ {0}
  /\ MaxRows \in Nat

VARIABLES
  otps,              \* the rows of phone_otp
  sends,             \* requests counted in the running rate-limit window
  isPhoneVerified,
  wrong,             \* history: wrong codes compared with each row
  sentInWindow,      \* history: rows inserted for requests counted in this window
  raced,             \* history: two verifications overlapped
  otpReq

vars == <<otps, sends, isPhoneVerified, wrong, sentInWindow, raced, otpReq>>

Row == [used : BOOLEAN, attempts : 0..MaxAttempts, overdue : BOOLEAN]
Idle == [pc |-> "idle", row |-> 0, attempts |-> 0, now |-> TRUE]
RequestType ==
  [pc : {"idle", "invalidate", "insert", "retire", "miss", "accept", "user"},
   row : 0..MaxRows, attempts : 0..MaxAttempts,     \* the row read and its count
   now : BOOLEAN]                   \* counted in the window that still runs

Go(r, pc) == otpReq' = [otpReq EXCEPT ![r].pc = pc]
Finish(r) == otpReq' = [otpReq EXCEPT ![r] = Idle]
Verifying(r) == otpReq[r].pc \in {"retire", "miss", "accept"}

\* (mutant) the count is compared after the limit is passed
OneMore(n) == n <= MaxSends

\* checkRateLimit
WithinRate(n) == n < MaxSends

StartSend(r) ==
  /\ otpReq[r] = Idle
  /\ WithinRate(sends)
  /\ sends' = sends + 1
  /\ Go(r, "invalidate")
  /\ UNCHANGED <<otps, isPhoneVerified, wrong, sentInWindow, raced>>

\* The unused codes sent before are used up.
Invalidate(r) ==
  /\ otpReq[r].pc = "invalidate"
  /\ otps' = [i \in DOMAIN otps |-> [otps[i] EXCEPT !.used = TRUE]]
  /\ Go(r, "insert")
  /\ UNCHANGED <<sends, isPhoneVerified, wrong, sentInWindow, raced>>

\* The row stays whether or not the message can then be sent.
InsertOtp(r) ==
  /\ otpReq[r].pc = "insert" /\ Len(otps) < MaxRows
  /\ otps' = Append(otps, [used |-> FALSE, attempts |-> 0, overdue |-> FALSE])
  /\ wrong' = Append(wrong, 0)
  /\ sentInWindow' = IF otpReq[r].now THEN sentInWindow + 1 ELSE sentInWindow
  /\ Finish(r)
  /\ UNCHANGED <<sends, isPhoneVerified, raced>>

\* The window ends: the next request starts a new count.
WindowEnds ==
  /\ sends > 0
  /\ sends' = 0 /\ sentInWindow' = 0
  /\ otpReq' = [r \in Requests |->
       IF otpReq[r].pc \in {"invalidate", "insert"} THEN [otpReq[r] EXCEPT !.now = FALSE]
       ELSE otpReq[r]]
  /\ UNCHANGED <<otps, isPhoneVerified, wrong, raced>>

Unused == {i \in DOMAIN otps : ~otps[i].used}
Newest == CHOOSE i \in Unused : \A j \in Unused : j <= i

\* The history counts no further than one past the limit.
CountedUp(n) == IF n > MaxAttempts THEN n ELSE n + 1

\* verifyOtp reads the newest unused row and compares the code with it.
ReadOtp(r) ==
  LET row == otps[Newest]
      At(pc) == otpReq' = [otpReq EXCEPT ![r] =
                  [pc |-> pc, row |-> Newest, attempts |-> row.attempts, now |-> TRUE]]
  IN
  /\ otpReq[r] = Idle /\ Unused # {}
  /\ raced' = (raced \/ \E o \in Requests : Verifying(o))
  /\ IF row.overdue \/ row.attempts >= MaxAttempts
     THEN At("retire") /\ UNCHANGED wrong
     ELSE \/ At("accept") /\ UNCHANGED wrong
          \/ At("miss") /\ wrong' = [wrong EXCEPT ![Newest] = CountedUp(@)]
  /\ UNCHANGED <<otps, sends, isPhoneVerified, sentInWindow>>

\* A row out of time or attempts is used up; a wrong code is counted from the
\* value read; a right one marks the row and then the user.
RetireOtp(r) ==
  /\ otpReq[r].pc = "retire"
  /\ otps' = [otps EXCEPT ![otpReq[r].row].used = TRUE]
  /\ Finish(r)
  /\ UNCHANGED <<sends, isPhoneVerified, wrong, sentInWindow, raced>>

CountMiss(r) ==
  /\ otpReq[r].pc = "miss"
  /\ otps' = [otps EXCEPT ![otpReq[r].row].attempts = otpReq[r].attempts + 1]
  /\ Finish(r)
  /\ UNCHANGED <<sends, isPhoneVerified, wrong, sentInWindow, raced>>

AcceptOtp(r) ==
  /\ otpReq[r].pc = "accept"
  /\ otps' = [otps EXCEPT ![otpReq[r].row].used = TRUE]
  /\ Go(r, "user")
  /\ UNCHANGED <<sends, isPhoneVerified, wrong, sentInWindow, raced>>

VerifyUser(r) ==
  /\ otpReq[r].pc = "user"
  /\ isPhoneVerified' = TRUE
  /\ Finish(r)
  /\ UNCHANGED <<otps, sends, wrong, sentInWindow, raced>>

PassExpiry(i) ==
  /\ ~otps[i].overdue
  /\ otps' = [otps EXCEPT ![i].overdue = TRUE]
  /\ UNCHANGED <<sends, isPhoneVerified, wrong, sentInWindow, raced, otpReq>>

\* A restart forgets the counts of the rate limit and ends every request.
Restart ==
  /\ sends' = 0 /\ sentInWindow' = 0
  /\ otpReq' = [r \in Requests |-> Idle]
  \* a wrong code whose count was not written is lost with its request
  /\ raced' = (raced \/ \E r \in Requests : otpReq[r].pc = "miss")
  /\ UNCHANGED <<otps, isPhoneVerified, wrong>>

Init ==
  /\ otps = <<>> /\ wrong = <<>>
  /\ sends = 0 /\ sentInWindow = 0
  /\ isPhoneVerified = FALSE /\ raced = FALSE
  /\ otpReq = [r \in Requests |-> Idle]

Next ==
  \/ \E r \in Requests :
       \/ StartSend(r) \/ Invalidate(r) \/ InsertOtp(r)
       \/ ReadOtp(r) \/ RetireOtp(r) \/ CountMiss(r) \/ AcceptOtp(r) \/ VerifyUser(r)
  \/ \E i \in DOMAIN otps : PassExpiry(i)
  \/ WindowEnds \/ Restart

Spec == Init /\ [][Next]_vars

------------------------------------------------------------------------------

TypeOK ==
  /\ \E n \in 0..MaxRows : otps \in [1..n -> Row] /\ wrong \in [1..n -> Nat]
  /\ sends \in 0..MaxSends /\ sentInWindow \in Nat
  /\ isPhoneVerified \in BOOLEAN /\ raced \in BOOLEAN
  /\ otpReq \in [Requests -> RequestType]

\* However sends overlap, no more codes are stored in a window than the limit
\* counted before the first await allows (otp.service.ts:83), and unless
\* verifications overlap no code is compared with more wrong answers than
\* OTP_MAX_ATTEMPTS (201, 216).
LimitsHold ==
  /\ sentInWindow <= MaxSends
  /\ ~raced => \A i \in DOMAIN wrong : wrong[i] <= MaxAttempts
==============================================================================
