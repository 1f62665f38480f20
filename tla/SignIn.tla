-------------------------------- MODULE SignIn --------------------------------
(***************************************************************************)
(* Signing in to one account, by a signed nonce or by Google, and its      *)
(* second factor: setup, enabling, disabling and the check at sign-in.     *)
(* The secret and the recovery codes are columns of the user's row, read   *)
(* in one await and written in another.  A signature, an identity token or *)
(* a time-based code is right or the request is refused without effect.    *)
(***************************************************************************)
EXTENDS Naturals, FiniteSets

CONSTANTS
  Requests,
  Codes,          \* recovery codes handed out when the factor is enabled
  MaxSecrets      \* bound: secrets generated

ConstantsAssumption ==
  /\ IsFiniteSet(Requests) /\ IsFiniteSet(Codes)
  /\ MaxSecrets \in Nat

VARIABLES
  nonceStored,      \* Redis holds a nonce for the address
  linked,           \* a user has this Google identity
  secrets, secret, enabled, codes,    \* secrets generated; columns of the user
  confirmed,        \* history: the secret a code was checked against on enabling
  spent,            \* history: recovery codes used since
  raced,            \* history: two changes of the factor overlapped
  signReq

factor == <<secrets, secret, enabled, codes, confirmed, spent>>
vars == <<nonceStored, linked, factor, raced, signReq>>

Idle == [pc |-> "idle", goal |-> "none", secret |-> 0, read |-> {}, used |-> {}]
RequestType ==
  [pc : {"idle", "delNonce", "lookup", "link", "create", "verify", "spend", "tokens",
         "setup", "enable", "disable"},
   goal : {"none", "login", "google", "disable"},   \* what a verified code is for
   secret : 0..MaxSecrets,                    \* as read
   read : SUBSET Codes, used : SUBSET Codes]                 \* recovery codes as read; the one given

\* Between its read and its write a request may overwrite another's change.
Writing == {"verify", "spend", "setup", "enable", "disable"}
Overlaps(r) == \E o \in Requests \ {r} : signReq[o].pc \in Writing

Go(r, pc) == signReq' = [signReq EXCEPT ![r].pc = pc]
GoFor(r, pc, goal) == signReq' = [signReq EXCEPT ![r].pc = pc, ![r].goal = goal]
Finish(r) == signReq' = [signReq EXCEPT ![r] = Idle]

GenerateNonce ==
  /\ nonceStored' = TRUE
  /\ UNCHANGED <<linked, factor, raced, signReq>>

NonceLapses ==
  /\ nonceStored' = FALSE
  /\ UNCHANGED <<linked, factor, raced, signReq>>

\* login: the stored nonce was the one signed.
ReadNonce(r) ==
  /\ signReq[r] = Idle /\ nonceStored
  /\ Go(r, "delNonce")
  /\ UNCHANGED <<nonceStored, linked, factor, raced>>

\* The nonce is deleted by its key, whichever it is by now.
ConsumeNonce(r) ==
  /\ signReq[r].pc = "delNonce"
  /\ nonceStored' = FALSE
  /\ Go(r, "lookup")
  /\ UNCHANGED <<linked, factor, raced>>

\* The user is looked up; an enabled factor asks for a code, or refuses.
LookUp(r) ==
  /\ signReq[r].pc = "lookup"
  /\ IF enabled THEN GoFor(r, "verify", "login") \/ Finish(r) ELSE Go(r, "tokens")
  /\ raced' = (raced \/ (enabled /\ Overlaps(r)))
  /\ UNCHANGED <<nonceStored, linked, factor>>

\* GoogleAuthService: the user is found by the identity, or else by an e-mail that was
\* verified; without a code an enabled factor refuses the sign-in.
ReadGoogleUser(r) ==
  /\ signReq[r] = Idle
  /\ \E found \in {linked, TRUE} :
       /\ IF found /\ enabled THEN GoFor(r, "verify", "google")
          ELSE Go(r, IF found THEN "link" ELSE "create")
       /\ raced' = (raced \/ (found /\ enabled /\ Overlaps(r)))
  /\ UNCHANGED <<nonceStored, linked, factor>>

\* The user's row is updated, or created: the unique googleId refuses a second.
LinkGoogleUser(r) ==
  /\ signReq[r].pc \in {"link", "create"}
  /\ IF signReq[r].pc = "create" /\ linked THEN Finish(r) ELSE Go(r, "tokens")
  /\ linked' = TRUE
  /\ UNCHANGED <<nonceStored, factor, raced>>

\* Tokens are issued (see RefreshTokens).
IssueTokens(r) ==
  /\ signReq[r].pc = "tokens"
  /\ Finish(r)
  /\ UNCHANGED <<nonceStored, linked, factor, raced>>

\* A code was accepted: go on with what asked for it.
Accepted(r) ==
  CASE signReq[r].goal = "login" -> Go(r, "tokens")
    [] signReq[r].goal = "google" -> Go(r, "link")
    [] signReq[r].goal = "disable" -> Go(r, "disable")

\* verifyCode: refused, a time-based code, or a recovery code not used yet.
VerifyCode(r) ==
  /\ signReq[r].pc = "verify"
  /\ \/ Finish(r)
     \/ secret # 0 /\ Accepted(r)
     \/ /\ secret # 0
        /\ \E c \in codes :
             signReq' = [signReq EXCEPT ![r].pc = "spend", ![r].read = codes, ![r].used = {c}]
  /\ UNCHANGED <<nonceStored, linked, factor, raced>>

\* (mutant) the used recovery code is left in the row
KeepCodes(r) == signReq[r].read

Remaining(r) == signReq[r].read \ signReq[r].used

SpendCode(r) ==
  /\ signReq[r].pc = "spend"
  /\ codes' = Remaining(r)
  /\ spent' = spent \union signReq[r].used
  /\ Accepted(r)
  /\ UNCHANGED <<nonceStored, linked, secrets, secret, enabled, confirmed, raced>>

\* generateSecret, enable and disable read the user and judge it.
ReadFactor(r) ==
  /\ signReq[r] = Idle
  /\ \/ ~enabled /\ Go(r, "setup")
     \/ ~enabled /\ secret # 0
        /\ signReq' = [signReq EXCEPT ![r].pc = "enable", ![r].secret = secret]
     \/ enabled /\ GoFor(r, "verify", "disable")
  /\ raced' = (raced \/ Overlaps(r))
  /\ UNCHANGED <<nonceStored, linked, factor>>

StoreSecret(r) ==
  /\ signReq[r].pc = "setup" /\ secrets < MaxSecrets
  /\ secrets' = secrets + 1
  /\ secret' = secrets'
  /\ Finish(r)
  /\ UNCHANGED <<nonceStored, linked, enabled, codes, confirmed, spent, raced>>

Enable(r) ==
  /\ signReq[r].pc = "enable"
  /\ enabled' = TRUE /\ codes' = Codes
  /\ confirmed' = signReq[r].secret /\ spent' = {}
  /\ Finish(r)
  /\ UNCHANGED <<nonceStored, linked, secrets, secret, raced>>

Disable(r) ==
  /\ signReq[r].pc = "disable"
  /\ enabled' = FALSE /\ secret' = 0 /\ codes' = {}
  /\ Finish(r)
  /\ UNCHANGED <<nonceStored, linked, secrets, confirmed, spent, raced>>

\* A crash or a failed query ends a request where it is.
Abort(r) ==
  /\ signReq[r] # Idle
  /\ Finish(r)
  /\ UNCHANGED <<nonceStored, linked, factor, raced>>

Init ==
  /\ nonceStored = FALSE /\ linked = FALSE
  /\ secrets = 0 /\ secret = 0 /\ enabled = FALSE /\ codes = {}
  /\ confirmed = 0 /\ spent = {} /\ raced = FALSE
  /\ signReq = [r \in Requests |-> Idle]

Step(r) ==
  \/ ReadNonce(r) \/ ConsumeNonce(r) \/ LookUp(r)
  \/ ReadGoogleUser(r) \/ LinkGoogleUser(r) \/ IssueTokens(r)
  \/ VerifyCode(r) \/ SpendCode(r)
  \/ ReadFactor(r) \/ StoreSecret(r) \/ Enable(r) \/ Disable(r)
  \/ Abort(r)

Next == GenerateNonce \/ NonceLapses \/ \E r \in Requests : Step(r)

Spec == Init /\ [][Next]_vars

------------------------------------------------------------------------------

TypeOK ==
  /\ nonceStored \in BOOLEAN /\ linked \in BOOLEAN
  /\ secrets \in 0..MaxSecrets /\ secret \in 0..secrets
  /\ enabled \in BOOLEAN /\ codes \subseteq Codes
  /\ confirmed \in 0..MaxSecrets /\ spent \subseteq Codes
  /\ raced \in BOOLEAN
  /\ signReq \in [Requests -> RequestType]

\* Unless two changes overlapped, an enabled factor checks codes against the
\* secret the user confirmed, and no recovery code is accepted twice
\* (two-factor.service.ts:67-80, 145-157).
FactorUsable ==
  enabled /\ ~raced =>
    /\ secret = confirmed /\ secret # 0
    /\ codes \intersect spent = {}
==============================================================================
