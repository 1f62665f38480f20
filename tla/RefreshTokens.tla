----------------------------- MODULE RefreshTokens -----------------------------
(***************************************************************************)
(* The rotation of refresh tokens, for one account: the refresh_tokens     *)
(* rows, the sessions tracked for access tokens, and requests that stop at *)
(* every await.  A row is named by the order of its insert; a family by    *)
(* its first row.  A token that is malformed or past its time is refused   *)
(* and changes nothing, so that its age is left out.                       *)
(***************************************************************************)
EXTENDS Naturals, FiniteSets

CONSTANTS
  Requests,      \* requests that may be under way at once
  MaxTokens      \* bound: rows of refresh_tokens

ConstantsAssumption ==
  /\ IsFiniteSet(Requests)
  /\ MaxTokens \in Nat

VARIABLES
  refreshTokens,     \* the rows, by the order of their insert
  sessions,          \* rows whose access token has a session that is not revoked
  tokenReq

vars == <<refreshTokens, sessions, tokenReq>>

Rows == 1..MaxTokens
Issued == DOMAIN refreshTokens
Row == [family : Rows, generation : Rows, consumed : BOOLEAN, revoked : BOOLEAN]

Idle == [pc |-> "idle", of |-> 0]
RequestType ==
  [pc : {"idle", "issue", "track", "consume", "revoke"},
   of : 0..MaxTokens]      \* the row a rotation read or an insert made

Start(r, pc, of) == tokenReq' = [tokenReq EXCEPT ![r] = [pc |-> pc, of |-> of]]
Finish(r) == tokenReq' = [tokenReq EXCEPT ![r] = Idle]

\* A sign-in that succeeded (see SignIn) asks for the first pair of a family.
SignedIn(r) ==
  /\ tokenReq[r] = Idle
  /\ Start(r, "issue", 0)
  /\ UNCHANGED <<refreshTokens, sessions>>

\* issueTokenPair: a first row opens a family, a rotated one continues it.
NextRow(of) ==
  LET new == Cardinality(Issued) + 1 IN
  IF of = 0
  THEN [family |-> new, generation |-> 1, consumed |-> FALSE, revoked |-> FALSE]
  ELSE [refreshTokens[of] EXCEPT !.generation = @ + 1, !.consumed = FALSE, !.revoked = FALSE]

IssuePair(r) ==
  LET new == Cardinality(Issued) + 1 IN
  /\ tokenReq[r].pc = "issue"
  /\ new \in Rows
  /\ refreshTokens' = [t \in 1..new |-> IF t = new THEN NextRow(tokenReq[r].of)
                                        ELSE refreshTokens[t]]
  /\ Start(r, "track", new)
  /\ UNCHANGED sessions

\* trackAccessTokenSession
CreateSession(r) ==
  /\ tokenReq[r].pc = "track"
  /\ sessions' = sessions \union {tokenReq[r].of}
  /\ Finish(r)
  /\ UNCHANGED refreshTokens

\* rotate: a token consumed before revokes its family, a revoked one is refused.
ReadToken(r) ==
  /\ tokenReq[r] = Idle
  /\ \E t \in Issued :
       \/ /\ refreshTokens[t].consumed
          /\ Start(r, "revoke", t)
       \/ /\ ~refreshTokens[t].consumed /\ ~refreshTokens[t].revoked
          /\ Start(r, "consume", t)
  /\ UNCHANGED <<refreshTokens, sessions>>

\* (mutant) the token is consumed by its id alone
AnyToken(t) == TRUE

\* The where clause of the update that consumes the token.
Consumable(t) == ~refreshTokens[t].consumed /\ ~refreshTokens[t].revoked

ConsumeToken(r) ==
  LET t == tokenReq[r].of IN
  /\ tokenReq[r].pc = "consume"
  /\ IF Consumable(t)
     THEN /\ refreshTokens' = [refreshTokens EXCEPT ![t].consumed = TRUE]
          /\ Start(r, "issue", t)
     ELSE /\ Start(r, "revoke", t)
          /\ UNCHANGED refreshTokens
  /\ UNCHANGED sessions

RevokeFamily(r) ==
  LET f == refreshTokens[tokenReq[r].of].family IN
  /\ tokenReq[r].pc = "revoke"
  /\ refreshTokens' = [t \in Issued |->
       IF refreshTokens[t].family = f THEN [refreshTokens[t] EXCEPT !.revoked = TRUE]
       ELSE refreshTokens[t]]
  /\ Finish(r)
  /\ UNCHANGED sessions

\* revokeSession: read, found the user's own and active, and revoked.
RevokeSession(t) ==
  /\ t \in sessions
  /\ sessions' = sessions \ {t}
  /\ UNCHANGED <<refreshTokens, tokenReq>>

\* revokeAllExceptCurrent
RevokeOthers(current) ==
  /\ sessions # {}
  /\ sessions' = sessions \intersect {current}
  /\ UNCHANGED <<refreshTokens, tokenReq>>

\* A crash, or a failed query, ends a request where it is.
Abort(r) ==
  /\ tokenReq[r] # Idle
  /\ Finish(r)
  /\ UNCHANGED <<refreshTokens, sessions>>

Init ==
  /\ refreshTokens = <<>>
  /\ sessions = {}
  /\ tokenReq = [r \in Requests |-> Idle]

Step(r) ==
  \/ SignedIn(r) \/ IssuePair(r) \/ CreateSession(r)
  \/ ReadToken(r) \/ ConsumeToken(r) \/ RevokeFamily(r)
  \/ Abort(r)

Next ==
  \/ \E r \in Requests : Step(r)
  \/ \E t \in Rows : RevokeSession(t) \/ RevokeOthers(t)

Spec == Init /\ [][Next]_vars

------------------------------------------------------------------------------

TypeOK ==
  /\ \E n \in 0..MaxTokens : refreshTokens \in [1..n -> Row]
  /\ sessions \subseteq Issued
  /\ tokenReq \in [Requests -> RequestType]

\* However many requests rotate a family at once, it stays a chain: no two of
\* its rows have the same generation, and every row but the newest has been
\* consumed (rotate's conditional update, refresh-token.service.ts:150).
FamilyIsChain ==
  \A t, u \in Issued :
    t < u /\ refreshTokens[t].family = refreshTokens[u].family =>
      /\ refreshTokens[t].generation < refreshTokens[u].generation
      /\ refreshTokens[t].consumed
==============================================================================
