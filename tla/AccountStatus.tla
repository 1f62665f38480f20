----------------------------- MODULE AccountStatus -----------------------------
(***************************************************************************)
(* One account as administrators ban and suspend it, and as its requests   *)
(* are admitted: UsersService with its audit rows, and JwtStrategy with    *)
(* its cached copy of the user.  A handler reads the user in one await,    *)
(* writes it in the next by id alone, and inserts the audit row in a       *)
(* third; nothing deletes the copy, which lapses.                          *)
(***************************************************************************)
EXTENDS Naturals, FiniteSets

CONSTANTS
  Requests,          \* of administrators
  Checks,            \* requests of the user that JwtStrategy validates
  Ttl                \* of the cached copy, in ticks

ConstantsAssumption == IsFiniteSet(Requests) /\ IsFiniteSet(Checks) /\ Ttl \in Nat \ {0}

VARIABLES
  isBanned, isSuspended,
  lapsed,            \* suspendedUntil has passed
  log,               \* the last audit row of each kind
  raced,             \* history: handlers overlapped, or one stopped half way
  adminReq,
  cache,             \* the copy; nothing is cached when no time is left to it
  check,             \* of each request that did not find it
  since              \* history: ticks since the status was written and no check holds an older one

account == <<isBanned, isSuspended, lapsed>>
adminVars == <<account, log, raced, adminReq>>
cacheVars == <<cache, check, since>>
vars == <<adminVars, cacheVars>>

Actions == {"ban", "unban", "suspend", "unsuspend"}
Idle == [pc |-> "idle", action |-> "none"]
RequestType == [pc : {"idle", "write", "log"}, action : Actions \union {"none", "lapse"}]

\* suspendedUntil is compared with the clock when the user, or a copy, is judged.
Barred == isBanned \/ (isSuspended /\ ~lapsed)
Admits(copy) == ~copy.banned /\ ~copy.suspended
NoCopy == [banned |-> FALSE, suspended |-> FALSE, old |-> FALSE]   \* old: written since
Unchecked == [pc |-> "idle", copy |-> NoCopy]

\* The conditions each handler checks on the user it read.
Allowed(action) ==
  CASE action = "ban" -> ~isBanned
    [] action = "unban" -> isBanned
    [] action = "suspend" -> ~isBanned /\ ~isSuspended
    [] action = "unsuspend" -> isSuspended
    [] action = "lapse" -> isSuspended /\ lapsed       \* checkAccountStatus

ReadUser(r) ==
  /\ adminReq[r] = Idle
  /\ \E action \in Actions \union {"lapse"} :
       /\ Allowed(action)
       /\ adminReq' = [adminReq EXCEPT ![r] = [pc |-> "write", action |-> action]]
  /\ raced' = (raced \/ \E o \in Requests : adminReq[o] # Idle)
  /\ UNCHANGED <<account, log, cacheVars>>

\* (mutant) a ban leaves the suspension as it is
BanOnly(action) ==
  /\ isBanned' = (IF action = "ban" THEN TRUE ELSE IF action = "unban" THEN FALSE ELSE isBanned)
  /\ isSuspended' = (IF action = "suspend" THEN TRUE
                     ELSE IF action \in {"unsuspend", "lapse"} THEN FALSE ELSE isSuspended)
  /\ lapsed' = FALSE

\* A ban ends a suspension; the end of a suspension is written with it.
Apply(action) ==
  /\ isBanned' = (IF action = "ban" THEN TRUE ELSE IF action = "unban" THEN FALSE ELSE isBanned)
  /\ isSuspended' = (IF action = "suspend" THEN TRUE
                     ELSE IF action = "unban" THEN isSuspended ELSE FALSE)
  /\ lapsed' = IF action = "unban" THEN lapsed ELSE FALSE

\* Nothing is told to the copies, which are older than the row from now on.
Outdate ==
  /\ cache' = [cache EXCEPT !.copy.old = cache.left > 0]
  /\ check' = [c \in Checks |-> [check[c] EXCEPT !.copy.old = check[c].pc = "store"]]
  /\ since' = 0

WriteUser(r) ==
  LET action == adminReq[r].action IN
  /\ adminReq[r].pc = "write"
  /\ Apply(action)
  /\ adminReq' = [adminReq EXCEPT ![r] =
       IF action = "lapse" THEN Idle ELSE [pc |-> "log", action |-> action]]
  /\ Outdate
  /\ UNCHANGED <<log, raced>>

WriteLog(r) ==
  LET action == adminReq[r].action IN
  /\ adminReq[r].pc = "log"
  /\ log' = IF action \in {"ban", "unban"} THEN [log EXCEPT !.ban = action]
            ELSE [log EXCEPT !.suspension = action]
  /\ adminReq' = [adminReq EXCEPT ![r] = Idle]
  /\ UNCHANGED <<account, raced, cacheVars>>

\* A crash or a failed query leaves the change without its audit row.
Abort(r) ==
  /\ adminReq[r] # Idle
  /\ raced' = (raced \/ adminReq[r].pc = "log")
  /\ adminReq' = [adminReq EXCEPT ![r] = Idle]
  /\ UNCHANGED <<account, log, cacheVars>>

\* A copy as it is judged after the end of the suspension it was read under.
Ended(copy, ends) == [copy EXCEPT !.suspended = @ /\ ~ends]

\* suspendedUntil passes, for the row and for the copies of it.
TimePasses ==
  /\ isSuspended /\ ~lapsed
  /\ lapsed' = TRUE
  /\ cache' = [cache EXCEPT !.copy = Ended(@, ~@.old)]
  /\ check' = [c \in Checks |-> [check[c] EXCEPT !.copy = Ended(@, ~@.old)]]
  /\ UNCHANGED <<isBanned, isSuspended, log, raced, adminReq, since>>

\* An older copy has a suspendedUntil of its own.
OldSuspensionEnds ==
  /\ cache' = [cache EXCEPT !.copy = Ended(@, @.old)]
  /\ check' = [c \in Checks |-> [check[c] EXCEPT !.copy = Ended(@, @.old)]]
  /\ UNCHANGED <<adminVars, since>>

------------------------------------------------------------------------------
\* JwtStrategy.validate

\* No copy is found, or Redis does not answer; a request that finds one is judged by it
\* and changes nothing.
MissCopy(c) ==
  /\ check[c] = Unchecked
  /\ check' = [check EXCEPT ![c].pc = "read"]
  /\ UNCHANGED <<adminVars, cache, since>>

ReadRow(c) ==
  /\ check[c].pc = "read"
  /\ check' = [check EXCEPT ![c] = [pc |-> "store",
       copy |-> [banned |-> isBanned, suspended |-> isSuspended /\ ~lapsed, old |-> FALSE]]]
  /\ UNCHANGED <<adminVars, cache, since>>

\* CacheService.set swallows its errors; either way the request is judged by what it read.
StoreCopy(c) ==
  /\ check[c].pc = "store"
  /\ \/ cache' = [copy |-> check[c].copy, left |-> Ttl]
     \/ UNCHANGED cache
  /\ check' = [check EXCEPT ![c] = Unchecked]
  /\ UNCHANGED <<adminVars, since>>

\* (mutant) a copy lives as long as it is used
Renewed(left) == left

OneTickLess(left) == IF left > 0 THEN left - 1 ELSE 0

Tick ==
  /\ Checks # {}
  /\ cache' = LET left == OneTickLess(cache.left) IN
       [copy |-> IF left = 0 THEN NoCopy ELSE cache.copy, left |-> left]
  /\ since' = IF since = Ttl \/ \E c \in Checks : check[c].copy.old THEN since ELSE since + 1
  /\ UNCHANGED <<adminVars, check>>

Init ==
  /\ isBanned = FALSE /\ isSuspended = FALSE /\ lapsed = FALSE
  /\ log = [ban |-> "none", suspension |-> "none"]
  /\ raced = FALSE
  /\ adminReq = [r \in Requests |-> Idle]
  /\ cache = [copy |-> NoCopy, left |-> 0]
  /\ check = [c \in Checks |-> Unchecked]
  /\ since = 0

Next ==
  \/ \E r \in Requests : ReadUser(r) \/ WriteUser(r) \/ WriteLog(r) \/ Abort(r)
  \/ \E c \in Checks : MissCopy(c) \/ ReadRow(c) \/ StoreCopy(c)
  \/ TimePasses \/ OldSuspensionEnds \/ Tick

Spec == Init /\ [][Next]_vars

------------------------------------------------------------------------------

TypeOK ==
  /\ isBanned \in BOOLEAN /\ isSuspended \in BOOLEAN /\ lapsed \in BOOLEAN
  /\ log \in [ban : {"none", "ban", "unban"}, suspension : {"none", "suspend", "unsuspend"}]
  /\ raced \in BOOLEAN
  /\ adminReq \in [Requests -> RequestType]
  /\ LET Copy == [banned : BOOLEAN, suspended : BOOLEAN, old : BOOLEAN] IN
       /\ cache \in [copy : Copy, left : 0..Ttl]
       /\ check \in [Checks -> [pc : {"idle", "read", "store"}, copy : Copy]]
  /\ since \in 0..Ttl

\* Unless handlers overlapped or one stopped before its audit row, an account
\* is never banned and suspended at once, and what the audit log says last is
\* what the account is (users.service.ts:95-126, 202-250).
StatusAgreesWithLog ==
  ~raced /\ (\A r \in Requests : adminReq[r].pc # "log") =>
    /\ ~(isBanned /\ isSuspended)
    /\ isBanned <=> log.ban = "ban"
    /\ isSuspended => log.suspension = "suspend"

\* The status written last decides: a copy that admits a barred account is older than
\* that write and lapses within one lifetime of it or, if later, of the end of the last
\* check that had read the row before it, however often requests come
\* (jwt.strategy.ts:44-92).
BarredWithinTtl ==
  cache.left > 0 /\ Admits(cache.copy) /\ Barred =>
    cache.copy.old /\ cache.left + since <= Ttl
==============================================================================
