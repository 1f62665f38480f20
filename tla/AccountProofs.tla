---------------------------- MODULE AccountProofs ----------------------------
(***************************************************************************)
(* What the services of accounts and operations keep, each in the instance *)
(* that MCPlatform makes of it: for each an invariant of its variables,    *)
(* that it holds initially, that its steps preserve it, and what it means. *)
(* The sections are independent of each other; PlatformProofs adds the     *)
(* catalogue's and joins them.                                             *)
(***************************************************************************)
EXTENDS MCPlatform, FiniteSetTheorems, WellFoundedInduction, TLAPS

------------------------------------------------------------------------------
(***************************************************************************)
(* RefreshTokens: x1 are the rows, x2 the sessions, x3 the requests.  Of a *)
(* family only the newest row can be unconsumed, so a request that has     *)
(* consumed a row is the only one to follow it, and its row the newest.    *)
(***************************************************************************)
TokensLineage(n) ==
  /\ \A t \in 1 .. n : x1[t].family <= t /\ x1[t].generation <= t
  /\ \A t, u \in 1 .. n :
       t < u /\ x1[t].family = x1[u].family =>
         x1[t].generation < x1[u].generation /\ x1[t].consumed = TRUE
TokensFollowing(n) ==
  /\ \A r \in Requests :
       /\ x3[r].of <= n
       /\ x3[r].pc \in {"track", "consume", "revoke"} => x3[r].of # 0
       /\ x3[r].pc = "issue" /\ x3[r].of # 0 =>
            /\ x1[x3[r].of].consumed = TRUE
            /\ \A u \in 1 .. n : x1[u].family = x1[x3[r].of].family => u <= x3[r].of
  /\ \A p, q \in Requests :
       p # q /\ x3[p].pc = "issue" /\ x3[q].pc = "issue" /\ x3[p].of = x3[q].of =>
         x3[p].of = 0
TokensTyped(n) ==
  /\ n \in 0 .. MaxTokens /\ x1 \in [1 .. n -> Tokens!Row] /\ x2 \subseteq 1 .. n
  /\ x3 \in [Requests -> Tokens!RequestType]
TokensAt(n) == TokensTyped(n) /\ TokensLineage(n) /\ TokensFollowing(n)
TokensInv == \E n \in Nat : TokensAt(n)

LEMMA TokensCardinality == \A S : Tokens!Cardinality(S) = Cardinality(S)
BY Zenon DEF Tokens!Cardinality, Cardinality

LEMMA TokensBound == MaxTokens \in Nat
BY PlatformAssumption DEF Tokens!ConstantsAssumption

LEMMA TokensIssued ==
  ASSUME NEW n \in Nat, TokensAt(n)
  PROVE  Tokens!Issued = 1 .. n /\ Tokens!Cardinality(Tokens!Issued) = n
<1>1. Tokens!Issued = 1 .. n
  BY DEF Tokens!Issued, TokensAt, TokensTyped
<1>2. Cardinality(1 .. n) = n
  BY FS_Interval
<1> QED BY <1>1, <1>2, TokensCardinality

LEMMA TokensInitially == Tokens!Init => TokensInv
<1> SUFFICES ASSUME Tokens!Init PROVE TokensAt(0)
  BY DEF TokensInv
<1>1. x1 \in [1 .. 0 -> Tokens!Row] /\ 1 .. 0 = {}
  BY DEF Tokens!Init
<1> QED
  BY <1>1, TokensBound DEF Tokens!Init, Tokens!Idle, Tokens!RequestType, TokensAt, TokensTyped,
     TokensLineage, TokensFollowing

\* A request that goes on, but not to follow a row.
LEMMA TokensMoves ==
  ASSUME NEW n \in Nat, TokensAt(n), NEW r \in Requests, NEW new \in Tokens!RequestType,
         x3' = [x3 EXCEPT ![r] = new], x1' = x1, x2' \subseteq 1 .. n,
         new.of <= n, new.pc \in {"track", "consume", "revoke"} => new.of # 0,
         new.pc = "issue" => new.of = 0
  PROVE  TokensInv'
<1>1. TokensTyped(n)'
  BY DEF TokensAt, TokensTyped
<1>2. TokensLineage(n)'
  BY DEF TokensAt, TokensLineage
<1>3. TokensFollowing(n)'
  BY DEF TokensAt, TokensTyped, TokensFollowing, Tokens!RequestType
<1> QED BY <1>1, <1>2, <1>3 DEF TokensAt, TokensInv

LEMMA TokensInductive == TokensInv /\ [Tokens!Next]_(Tokens!vars) => TokensInv'
<1> SUFFICES ASSUME TokensInv, [Tokens!Next]_(Tokens!vars) PROVE TokensInv'
  OBVIOUS
<1> PICK n \in Nat : TokensAt(n)
  BY DEF TokensInv
<1>a. /\ n \in 0 .. MaxTokens /\ x1 \in [1 .. n -> Tokens!Row] /\ x2 \subseteq 1 .. n
      /\ x3 \in [Requests -> Tokens!RequestType]
  BY DEF TokensAt, TokensTyped
<1>b. Tokens!Issued = 1 .. n /\ Tokens!Cardinality(Tokens!Issued) = n
  BY TokensIssued
<1>c. \A r \in Requests : x3[r].of \in 0 .. MaxTokens /\ x3[r].of <= n
  BY <1>a DEF TokensAt, TokensFollowing, Tokens!RequestType
<1>d. Tokens!Idle \in Tokens!RequestType /\ Tokens!Idle.of = 0 /\ Tokens!Idle.pc = "idle"
  BY TokensBound DEF Tokens!Idle, Tokens!RequestType
<1>e. \A t \in 1 .. n : /\ x1[t].consumed \in BOOLEAN /\ x1[t].revoked \in BOOLEAN
                        /\ x1[t].family \in 1 .. MaxTokens /\ x1[t].generation \in 1 .. MaxTokens
  BY <1>a DEF Tokens!Row, Tokens!Rows
<1>8. ASSUME NEW r \in Requests, x3' = [x3 EXCEPT ![r] = Tokens!Idle], x1' = x1, x2' \subseteq 1 .. n
      PROVE  TokensInv'
  <2>1. /\ Tokens!Idle.of <= n /\ Tokens!Idle.pc \notin {"track", "consume", "revoke"}
        /\ Tokens!Idle.pc # "issue"
    BY <1>d
  <2>2. PICK new \in Tokens!RequestType :
          /\ x3' = [x3 EXCEPT ![r] = new] /\ new.of <= n
          /\ new.pc \notin {"track", "consume", "revoke"} /\ new.pc # "issue"
    BY <2>1, <1>8, <1>d
  <2> QED BY <2>2, <1>8, TokensMoves
<1>1. ASSUME NEW r \in Requests, Tokens!SignedIn(r) PROVE TokensInv'
  <2> DEFINE new == [pc |-> "issue", of |-> 0]
  <2>1. new \in Tokens!RequestType /\ new.of = 0 /\ new.of <= n /\ new.pc = "issue"
    BY TokensBound DEF Tokens!RequestType
  <2>2. x3' = [x3 EXCEPT ![r] = new] /\ x1' = x1 /\ x2' = x2
    BY <1>1 DEF Tokens!SignedIn, Tokens!Start
  <2> HIDE DEF new
  <2> QED BY <2>1, <2>2, <1>a, TokensMoves
<1>2. ASSUME NEW r \in Requests, Tokens!IssuePair(r) PROVE TokensInv'
  <2> DEFINE new == n + 1
             t == x3[r].of
             fresh == Tokens!NextRow(t)
  <2>1. /\ new \in 1 .. MaxTokens /\ x2' = x2 /\ x3[r].pc = "issue"
        /\ x3' = [x3 EXCEPT ![r] = [pc |-> "track", of |-> new]]
        /\ x1' = [u \in 1 .. new |-> IF u = new THEN fresh ELSE x1[u]]
    BY <1>2, <1>b DEF Tokens!IssuePair, Tokens!Start, Tokens!Rows
  <2>2. /\ fresh.consumed = FALSE
        /\ t = 0 => /\ fresh.family = new /\ fresh.generation = 1
                    /\ fresh \in Tokens!Row
        /\ t # 0 => /\ fresh.family = x1[t].family
                    /\ fresh.generation = x1[t].generation + 1
                    /\ fresh \in Tokens!Row
    <3>1. CASE t = 0
      <4>1. fresh = [family |-> new, generation |-> 1, consumed |-> FALSE, revoked |-> FALSE]
        BY <3>1, <1>b DEF Tokens!NextRow
      <4>2. 1 \in 1 .. MaxTokens /\ new \in 1 .. MaxTokens
        BY <2>1, TokensBound
      <4> HIDE DEF new, fresh, t
      <4>3. fresh.consumed = FALSE /\ fresh.family = new /\ fresh.generation = 1
        BY <4>1
      <4>4. fresh \in Tokens!Row
        BY <4>1, <4>2 DEF Tokens!Row, Tokens!Rows
      <4> QED BY <3>1, <4>3, <4>4
    <3>2. CASE t # 0
      <4>1. t \in 1 .. n /\ x1[t] \in Tokens!Row
        BY <3>2, <1>a, <1>c
      <4>2. x1[t].generation + 1 \in 1 .. MaxTokens
        <5>1. x1[t].generation <= t /\ x1[t].generation \in 1 .. MaxTokens
          BY <4>1, <1>e DEF TokensAt, TokensLineage
        <5>2. t <= n /\ n + 1 <= MaxTokens /\ t \in Nat
          BY <4>1, <2>1, TokensBound
        <5> HIDE DEF t
        <5> QED BY <5>1, <5>2, TokensBound
      <4>3. fresh = [x1[t] EXCEPT !.generation = x1[t].generation + 1, !.consumed = FALSE,
                                  !.revoked = FALSE]
        BY <3>2 DEF Tokens!NextRow
      <4>4. fresh = [family |-> x1[t].family, generation |-> x1[t].generation + 1,
                     consumed |-> FALSE, revoked |-> FALSE]
        BY <4>1, <4>3 DEF Tokens!Row
      <4> QED BY <3>2, <4>1, <4>2, <4>4, <1>e DEF Tokens!Row, Tokens!Rows
    <3> QED BY <3>1, <3>2
  <2>3. TokensTyped(new)'
    <3>1. x1' \in [1 .. new -> Tokens!Row]
      BY <2>1, <2>2, <1>a
    <3>2. x3' \in [Requests -> Tokens!RequestType]
      BY <2>1, <1>a DEF Tokens!RequestType
    <3> QED BY <3>1, <3>2, <2>1, <1>a DEF TokensTyped
  <2>4. /\ \A u \in 1 .. n : x1'[u] = x1[u] /\ u <= n
        /\ x1'[new] = fresh /\ new = n + 1 /\ new > n
        /\ \A u \in 1 .. new : u \in 1 .. n \/ u = new
    BY <2>1, <1>a
  <2>5. t # 0 => /\ t \in 1 .. n /\ x1[t].consumed = TRUE
                 /\ \A u \in 1 .. n : x1[u].family = x1[t].family => u <= t
    BY <2>1, <1>c DEF TokensAt, TokensFollowing
  <2>6. \A u \in 1 .. n : x1[u].family = fresh.family =>
          x1[u].generation < fresh.generation /\ x1[u].consumed = TRUE /\ t # 0
    <3> SUFFICES ASSUME NEW u \in 1 .. n, x1[u].family = fresh.family
                 PROVE  x1[u].generation < fresh.generation /\ x1[u].consumed = TRUE /\ t # 0
      OBVIOUS
    <3>1. x1[u].family <= u /\ x1[u].family \in Nat /\ u < new /\ x1[u].generation \in Nat
      BY <1>e DEF TokensAt, TokensLineage
    <3>2. t # 0
      BY <3>1, <2>2
    <3>3. u <= t /\ t \in 1 .. n /\ x1[u].family = x1[t].family /\ x1[t].consumed = TRUE
          /\ fresh.generation = x1[t].generation + 1 /\ x1[t].generation \in Nat
      BY <3>2, <2>2, <2>5, <1>e
    <3> HIDE DEF fresh, t
    <3>4. CASE u = t
      BY <3>2, <3>3, <3>4, <3>1
    <3>5. CASE u < t
      BY <3>1, <3>2, <3>3, <3>5 DEF TokensAt, TokensLineage
    <3>6. t \in Nat /\ u \in Nat /\ (u = t \/ u < t)
      BY <3>3
    <3> QED BY <3>4, <3>5, <3>6
  <2>7. fresh.family \in Nat /\ fresh.family <= new /\ fresh.generation \in Nat
        /\ fresh.generation <= new
    BY <2>2, <2>5, <1>e DEF TokensAt, TokensLineage
  <2> HIDE DEF fresh, new
  <2>8. TokensLineage(new)'
    BY <2>4, <2>6, <2>7, <1>e DEF TokensAt, TokensLineage
  <2>9. TokensFollowing(new)'
    <3>1. ASSUME NEW p \in Requests, p # r
          PROVE /\ x3'[p].of <= new
                /\ x3'[p].pc \in {"track", "consume", "revoke"} => x3'[p].of # 0
                /\ x3'[p].pc = "issue" /\ x3'[p].of # 0 =>
                     /\ x1'[x3'[p].of].consumed = TRUE
                     /\ \A u \in 1 .. new : x1'[u].family = x1'[x3'[p].of].family => u <= x3'[p].of
      <4>1. x3'[p] = x3[p] /\ x3[p].of \in Nat /\ x3[p].of <= n /\ x3[p].of <= new
        BY <3>1, <2>1, <2>4, <1>a, <1>c
      <4>2. x3[p].pc \in {"track", "consume", "revoke"} => x3[p].of # 0
        BY DEF TokensAt, TokensFollowing
      <4>3. ASSUME x3[p].pc = "issue", x3[p].of # 0
            PROVE /\ x1'[x3[p].of].consumed = TRUE
                  /\ \A u \in 1 .. new : x1'[u].family = x1'[x3[p].of].family => u <= x3[p].of
        <5>1. /\ x3[p].of \in 1 .. n /\ x1[x3[p].of].consumed = TRUE
              /\ \A u \in 1 .. n : x1[u].family = x1[x3[p].of].family => u <= x3[p].of
          BY <4>1, <4>3 DEF TokensAt, TokensFollowing
        <5>2. x3[p].of # t
          BY <4>3, <3>1, <2>1 DEF TokensAt, TokensFollowing
        <5>3. fresh.family # x1[x3[p].of].family
          <6> SUFFICES ASSUME fresh.family = x1[x3[p].of].family PROVE FALSE
            OBVIOUS
          <6>1. t # 0
            BY <5>1, <2>6
          <6>2. x1[t].family = x1[x3[p].of].family
            BY <6>1, <2>2
          <6>3. t <= x3[p].of /\ x3[p].of <= t
            BY <6>1, <6>2, <5>1, <2>5
          <6> QED BY <6>3, <5>2, <5>1, <6>1, <2>5
        <5> QED BY <5>1, <5>3, <2>4
      <4> QED BY <4>1, <4>2, <4>3
    <3>2. x3'[r].of = new /\ x3'[r].pc = "track" /\ new # 0
      BY <2>1, <2>4, <1>a
    <3>3. \A p \in Requests : p # r => x3'[p] = x3[p]
      BY <2>1, <1>a
    <3>4. \A p, q \in Requests :
            p # q /\ x3'[p].pc = "issue" /\ x3'[q].pc = "issue" /\ x3'[p].of = x3'[q].of =>
              x3'[p].of = 0
      BY <3>2, <3>3 DEF TokensAt, TokensFollowing
    <3>5. new <= new
      BY <2>4
    <3> QED BY <3>1, <3>2, <3>4, <3>5 DEF TokensFollowing
  <2>10. new \in Nat
    BY DEF new
  <2> QED BY <2>3, <2>8, <2>9, <2>10 DEF TokensAt, TokensInv
<1>3. ASSUME NEW r \in Requests, Tokens!CreateSession(r) PROVE TokensInv'
  <2>1. x3' = [x3 EXCEPT ![r] = Tokens!Idle] /\ x1' = x1 /\ x2' = x2 \union {x3[r].of}
        /\ x3[r].pc = "track"
    BY <1>3 DEF Tokens!CreateSession, Tokens!Finish
  <2>2. x3[r].of \in 1 .. n
    BY <2>1, <1>c DEF TokensAt, TokensFollowing
  <2>3. x2' \subseteq 1 .. n
    BY <2>1, <2>2, <1>a
  <2> QED BY <2>1, <2>3, <1>8
<1>4. ASSUME NEW r \in Requests, Tokens!ReadToken(r) PROVE TokensInv'
  <2>1. PICK t \in 1 .. n, pc \in {"revoke", "consume"} :
          x3' = [x3 EXCEPT ![r] = [pc |-> pc, of |-> t]] /\ x1' = x1 /\ x2' = x2
    BY <1>4, <1>b DEF Tokens!ReadToken, Tokens!Start
  <2> DEFINE new == [pc |-> pc, of |-> t]
  <2>2. new \in Tokens!RequestType /\ new.of = t /\ new.pc # "issue"
    <3>1. t \in 0 .. MaxTokens
      BY <1>a, TokensBound
    <3> QED BY <3>1 DEF Tokens!RequestType
  <2>3. x3' = [x3 EXCEPT ![r] = new] /\ new.of <= n /\ new.of # 0
    BY <2>1, <2>2
  <2> HIDE DEF new
  <2> QED BY <2>1, <2>2, <2>3, <1>a, TokensMoves
<1>5. ASSUME NEW r \in Requests, Tokens!ConsumeToken(r) PROVE TokensInv'
  <2> DEFINE t == x3[r].of
  <2>1. x3[r].pc = "consume" /\ x2' = x2
    BY <1>5 DEF Tokens!ConsumeToken
  <2>2. t \in 1 .. n
    BY <2>1, <1>c DEF TokensAt, TokensFollowing
  <2>3. CASE ~Tokens!Consumable(t)
    <3> DEFINE new == [pc |-> "revoke", of |-> t]
    <3>1. new \in Tokens!RequestType /\ new.of = t /\ new.pc = "revoke"
      BY <1>a, <2>2 DEF Tokens!RequestType
    <3>2. x3' = [x3 EXCEPT ![r] = new] /\ x1' = x1
      BY <1>5, <2>3 DEF Tokens!ConsumeToken, Tokens!Start
    <3>3. t <= n /\ t # 0
      BY <2>2
    <3> HIDE DEF new
    <3> QED BY <3>1, <3>2, <3>3, <2>1, <1>a, TokensMoves
  <2>4. CASE Tokens!Consumable(t)
    <3>1. x1' = [x1 EXCEPT ![t].consumed = TRUE] /\ x3' = [x3 EXCEPT ![r] = [pc |-> "issue", of |-> t]]
      BY <1>5, <2>4 DEF Tokens!ConsumeToken, Tokens!Start
    <3>2. x1[t].consumed = FALSE
      BY <2>4, <2>2, <1>e, Zenon DEF Tokens!Consumable
    <3>3. \A u \in 1 .. n :
            /\ x1'[u].family = x1[u].family /\ x1'[u].generation = x1[u].generation
            /\ u = t => x1'[u].consumed = TRUE
            /\ u # t => x1'[u].consumed = x1[u].consumed
            /\ x1'[u] \in Tokens!Row
      BY <3>1, <2>2, <1>a DEF Tokens!Row
    <3>4. TokensTyped(n)'
      <4>1. x1' \in [1 .. n -> Tokens!Row]
        BY <3>1, <3>3, <1>a
      <4>2. x3' \in [Requests -> Tokens!RequestType]
        BY <3>1, <2>2, <1>a DEF Tokens!RequestType
      <4> QED BY <4>1, <4>2, <2>1, <1>a DEF TokensTyped
    <3>5. TokensLineage(n)'
      BY <3>3 DEF TokensAt, TokensLineage
    <3>6. \A u \in 1 .. n : x1[u].family = x1[t].family => u <= t
      BY <3>2, <2>2 DEF TokensAt, TokensLineage
    <3>7. \A p \in Requests : x3[p].pc = "issue" => x3[p].of # t
      BY <3>2, <2>2 DEF TokensAt, TokensFollowing
    <3>8. x3'[r].pc = "issue" /\ x3'[r].of = t /\ \A p \in Requests \ {r} : x3'[p] = x3[p]
      BY <3>1, <1>a
    <3>9. TokensFollowing(n)'
      <4>1. ASSUME NEW p \in Requests
            PROVE /\ x3'[p].of <= n
                  /\ x3'[p].pc \in {"track", "consume", "revoke"} => x3'[p].of # 0
                  /\ x3'[p].pc = "issue" /\ x3'[p].of # 0 =>
                       /\ x1'[x3'[p].of].consumed = TRUE
                       /\ \A u \in 1 .. n : x1'[u].family = x1'[x3'[p].of].family => u <= x3'[p].of
        <5>1. CASE p = r
          <6>1. x3'[p].of = t /\ x3'[p].pc = "issue"
            BY <5>1, <3>8
          <6>2. t <= n /\ x1'[t].consumed = TRUE /\ \A u \in 1 .. n : x1'[u].family = x1'[t].family => u <= t
            BY <2>2, <3>3, <3>6
          <6> HIDE DEF t
          <6> QED BY <6>1, <6>2
        <5>2. CASE p # r
          <6>1. x3'[p] = x3[p] /\ x3[p].of \in 0 .. n
            BY <5>2, <3>8, <1>c, <1>a
          <6>2. /\ x3[p].pc \in {"track", "consume", "revoke"} => x3[p].of # 0
                /\ x3[p].pc = "issue" /\ x3[p].of # 0 =>
                     /\ x3[p].of \in 1 .. n /\ x1[x3[p].of].consumed = TRUE
                     /\ \A u \in 1 .. n : x1[u].family = x1[x3[p].of].family => u <= x3[p].of
            BY <6>1 DEF TokensAt, TokensFollowing
          <6>3. \A u \in 1 .. n : x1[u].consumed = TRUE => x1'[u].consumed = TRUE
            BY <3>3
          <6> HIDE DEF t
          <6> QED BY <6>1, <6>2, <6>3, <3>3
        <5> QED BY <5>1, <5>2
      <4>2. \A p, q \in Requests :
              p # q /\ x3'[p].pc = "issue" /\ x3'[q].pc = "issue" /\ x3'[p].of = x3'[q].of =>
                x3'[p].of = 0
        BY <3>7, <3>8 DEF TokensAt, TokensFollowing
      <4> QED BY <4>1, <4>2 DEF TokensFollowing
    <3> QED BY <3>4, <3>5, <3>9 DEF TokensAt, TokensInv
  <2> QED BY <2>3, <2>4
<1>6. ASSUME NEW r \in Requests, Tokens!RevokeFamily(r) PROVE TokensInv'
  <2>1. /\ x3' = [x3 EXCEPT ![r] = Tokens!Idle] /\ x2' = x2
        /\ x1' = [t \in 1 .. n |-> IF x1[t].family = x1[x3[r].of].family
                                   THEN [x1[t] EXCEPT !.revoked = TRUE] ELSE x1[t]]
    BY <1>6, <1>b DEF Tokens!RevokeFamily, Tokens!Finish
  <2>2. \A u \in 1 .. n :
          /\ x1'[u].family = x1[u].family /\ x1'[u].generation = x1[u].generation
          /\ x1'[u].consumed = x1[u].consumed /\ x1'[u] \in Tokens!Row
    BY <2>1, <1>a DEF Tokens!Row
  <2>3. TokensTyped(n)'
    <3>1. x1' \in [1 .. n -> Tokens!Row]
      BY <2>1, <2>2
    <3> QED BY <3>1, <2>1, <1>a, <1>d DEF TokensTyped
  <2>4. TokensLineage(n)'
    BY <2>2 DEF TokensAt, TokensLineage
  <2>5. x3'[r].pc = "idle" /\ x3'[r].of = 0 /\ \A p \in Requests \ {r} : x3'[p] = x3[p]
    BY <2>1, <1>a, <1>d
  <2>6. TokensFollowing(n)'
    <3>1. \A p \in Requests : x3[p].of \in 0 .. n
      BY <1>a, <1>c
    <3>2. ASSUME NEW p \in Requests, p # r
          PROVE /\ x3'[p] = x3[p] /\ x3[p].of <= n
                /\ x3[p].pc \in {"track", "consume", "revoke"} => x3[p].of # 0
                /\ x3[p].pc = "issue" /\ x3[p].of # 0 =>
                     /\ x1'[x3[p].of].consumed = TRUE
                     /\ \A u \in 1 .. n : x1'[u].family = x1'[x3[p].of].family => u <= x3[p].of
      <4>1. /\ x3[p].pc \in {"track", "consume", "revoke"} => x3[p].of # 0
            /\ x3[p].pc = "issue" /\ x3[p].of # 0 =>
                 /\ x3[p].of \in 1 .. n /\ x1[x3[p].of].consumed = TRUE
                 /\ \A u \in 1 .. n : x1[u].family = x1[x3[p].of].family => u <= x3[p].of
        BY <3>1 DEF TokensAt, TokensFollowing
      <4> QED BY <4>1, <3>1, <3>2, <2>2, <2>5
    <3>3. \A p, q \in Requests :
            p # q /\ x3'[p].pc = "issue" /\ x3'[q].pc = "issue" /\ x3'[p].of = x3'[q].of =>
              x3'[p].of = 0
      BY <2>5, <3>2 DEF TokensAt, TokensFollowing
    <3>4. x3'[r].of <= n
      BY <2>5
    <3> QED BY <2>5, <3>2, <3>3, <3>4 DEF TokensFollowing
  <2> QED BY <2>3, <2>4, <2>6 DEF TokensAt, TokensInv
<1>7. ASSUME NEW r \in Requests, Tokens!Abort(r) PROVE TokensInv'
  <2>1. x3' = [x3 EXCEPT ![r] = Tokens!Idle] /\ x1' = x1 /\ x2' = x2
    BY <1>7 DEF Tokens!Abort, Tokens!Finish
  <2>2. x2' \subseteq 1 .. n
    BY <2>1, <1>a
  <2> QED BY <2>1, <2>2, <1>8
<1>11. ASSUME x1' = x1, x3' = x3, x2' \subseteq x2 PROVE TokensInv'
  BY <1>11 DEF TokensInv, TokensAt, TokensTyped, TokensLineage, TokensFollowing
<1>9. ASSUME NEW t \in Tokens!Rows, Tokens!RevokeSession(t) \/ Tokens!RevokeOthers(t)
      PROVE  TokensInv'
  BY <1>11, <1>9 DEF Tokens!RevokeSession, Tokens!RevokeOthers
<1>10. CASE UNCHANGED Tokens!vars
  BY <1>11, <1>10 DEF Tokens!vars
<1> QED
  BY <1>1, <1>2, <1>3, <1>4, <1>5, <1>6, <1>7, <1>9, <1>10 DEF Tokens!Next, Tokens!Step

LEMMA TokensMeans == TokensInv => Tokens!TypeOK /\ Tokens!FamilyIsChain
<1> SUFFICES ASSUME NEW n \in Nat, TokensAt(n) PROVE Tokens!TypeOK /\ Tokens!FamilyIsChain
  BY DEF TokensInv
<1>1. Tokens!Issued = 1 .. n
  BY TokensIssued
<1>2. Tokens!TypeOK
  BY <1>1 DEF TokensAt, TokensTyped, Tokens!TypeOK
<1>3. Tokens!FamilyIsChain
  BY <1>1 DEF TokensAt, TokensLineage, Tokens!FamilyIsChain
<1> QED BY <1>2, <1>3

------------------------------------------------------------------------------
(***************************************************************************)
(* SignIn: x1 and x2 are the nonce and the Google identity, x3 to x6 the   *)
(* secrets, the secret, the factor and its codes, x7 and x8 what was       *)
(* confirmed and spent, x9 says whether changes overlapped, x10 are the    *)
(* requests.  If they did not, at most one request is between a read of    *)
(* the factor and its write, and what it read still is in the row.         *)
(***************************************************************************)
SignTypes ==
  /\ x3 \in 0 .. MaxSecrets /\ x4 \in 0 .. x3 /\ x6 \subseteq Codes
  /\ x7 \in 0 .. MaxSecrets /\ x8 \subseteq Codes
  /\ x10 \in [Requests -> SignIn!RequestType]
  /\ \A r \in Requests : x10[r].pc \in {"verify", "spend"} => x10[r].goal # "none"
SignFlags == x1 \in BOOLEAN /\ x2 \in BOOLEAN /\ x5 \in BOOLEAN /\ x9 \in BOOLEAN
SignUsable == x5 = TRUE => x4 = x7 /\ x4 # 0 /\ x6 \intersect x8 = {}
SignAlone ==
  /\ \A p, q \in Requests :
       p # q => x10[p].pc \notin SignIn!Writing \/ x10[q].pc \notin SignIn!Writing
  /\ \A r \in Requests :
       /\ x10[r].pc = "setup" => x5 = FALSE
       /\ x10[r].pc = "enable" => x10[r].secret = x4 /\ x4 # 0
       /\ x10[r].pc = "spend" => x10[r].read = x6
SignInv == SignTypes /\ SignFlags /\ (x9 = FALSE => SignUsable /\ SignAlone)

SignStates ==
  {"idle", "delNonce", "lookup", "link", "create", "verify", "spend", "tokens",
   "setup", "enable", "disable"}

LEMMA SignBound == MaxSecrets \in Nat
BY PlatformAssumption DEF SignIn!ConstantsAssumption

LEMMA SignIdle == SignIn!Idle \in SignIn!RequestType /\ SignIn!Idle.pc = "idle"
BY SignBound DEF SignIn!Idle, SignIn!RequestType

LEMMA SignInitially == SignIn!Init => SignInv
<1> SUFFICES ASSUME SignIn!Init PROVE SignInv
  OBVIOUS
<1>1. /\ x3 = 0 /\ x4 = 0 /\ x6 = {} /\ x7 = 0 /\ x8 = {}
      /\ x10 = [r \in Requests |-> SignIn!Idle]
  BY Zenon DEF SignIn!Init
<1>2. SignFlags /\ x5 = FALSE
  BY Zenon DEF SignIn!Init, SignFlags
<1>3. SignTypes
  BY <1>1, SignBound, SignIdle DEF SignTypes
<1>4. SignUsable
  BY <1>2, Zenon DEF SignUsable
<1>5. SignAlone
  BY <1>1, SignIdle DEF SignAlone, SignIn!Writing
<1> QED BY <1>2, <1>3, <1>4, <1>5 DEF SignInv

\* A step that leaves the factor alone.
LEMMA SignMoves ==
  ASSUME SignInv, NEW r \in Requests, NEW new \in SignIn!RequestType,
         x10' = [x10 EXCEPT ![r] = new], SignFlags',
         x3' = x3, x4' = x4, x5' = x5, x6' = x6, x7' = x7, x8' = x8,
         new.pc \in {"verify", "spend"} => new.goal # "none",
         x9' = FALSE =>
           /\ x9 = FALSE
           /\ \/ new.pc \notin SignIn!Writing \/ x10[r].pc \in SignIn!Writing
              \/ \A o \in Requests \ {r} : x10[o].pc \notin SignIn!Writing
           /\ new.pc = "setup" => x5 = FALSE
           /\ new.pc = "enable" => new.secret = x4 /\ x4 # 0
           /\ new.pc = "spend" => new.read = x6
  PROVE  SignInv'
<1>1. x10'[r] = new /\ \A o \in Requests : o # r => x10'[o] = x10[o]
  BY DEF SignInv, SignTypes
<1>2. SignTypes'
  BY <1>1 DEF SignInv, SignTypes
<1>3. ASSUME x9' = FALSE PROVE SignUsable' /\ SignAlone'
  <2>1. SignUsable /\ SignAlone
    BY <1>3 DEF SignInv
  <2>2. SignUsable'
    BY <2>1 DEF SignUsable
  <2>3. \A p, q \in Requests :
          p # q => x10'[p].pc \notin SignIn!Writing \/ x10'[q].pc \notin SignIn!Writing
    BY <1>1, <1>3, <2>1 DEF SignAlone
  <2>4. SignAlone'
    BY <1>1, <1>3, <2>1, <2>3 DEF SignAlone
  <2> QED BY <2>2, <2>4
<1> QED BY <1>2, <1>3 DEF SignInv

\* A write of the factor, by the one request that may.
LEMMA SignWrites ==
  ASSUME SignInv, NEW r \in Requests, NEW new \in SignIn!RequestType,
         x10' = [x10 EXCEPT ![r] = new], SignFlags', x9' = x9,
         x10[r].pc \in SignIn!Writing, new.pc \notin {"verify", "spend", "setup", "enable"},
         x3' \in 0 .. MaxSecrets, x4' \in 0 .. x3', x6' \subseteq Codes,
         x7' \in 0 .. MaxSecrets, x8' \subseteq Codes,
         x9 = FALSE => SignUsable'
  PROVE  SignInv'
<1>1. x10'[r] = new /\ \A o \in Requests : o # r => x10'[o] = x10[o]
  BY DEF SignInv, SignTypes
<1>2. SignTypes'
  <2>1. x10' \in [Requests -> SignIn!RequestType]
    BY DEF SignInv, SignTypes
  <2>2. \A o \in Requests : x10'[o].pc \in {"verify", "spend"} => x10'[o].goal # "none"
    BY <1>1 DEF SignInv, SignTypes
  <2> QED BY <2>1, <2>2 DEF SignTypes
<1>3. ASSUME x9' = FALSE PROVE SignUsable' /\ SignAlone'
  <2>1. \A o \in Requests : o # r => x10[o].pc \notin SignIn!Writing
    BY <1>3 DEF SignInv, SignAlone
  <2>2. SignAlone'
    BY <1>1, <2>1 DEF SignAlone, SignIn!Writing
  <2> QED BY <1>3, <2>2
<1> QED BY <1>2, <1>3 DEF SignInv

LEMMA SignGo ==
  ASSUME x10 \in [Requests -> SignIn!RequestType], NEW r \in Requests, NEW pc \in SignStates,
         SignIn!Go(r, pc)
  PROVE  \E new \in SignIn!RequestType :
           x10' = [x10 EXCEPT ![r] = new] /\ new.pc = pc /\ new.goal = x10[r].goal
<1> DEFINE new == [x10[r] EXCEPT !.pc = pc]
<1>1. x10' = [x10 EXCEPT ![r] = new]
  BY DEF SignIn!Go
<1>2. new \in SignIn!RequestType /\ new.pc = pc /\ new.goal = x10[r].goal
  BY DEF SignIn!RequestType, SignStates
<1> HIDE DEF new
<1> QED BY <1>1, <1>2

LEMMA SignGoFor ==
  ASSUME x10 \in [Requests -> SignIn!RequestType], NEW r \in Requests,
         NEW goal \in {"login", "google", "disable"}, SignIn!GoFor(r, "verify", goal)
  PROVE  \E new \in SignIn!RequestType :
           x10' = [x10 EXCEPT ![r] = new] /\ new.pc = "verify" /\ new.goal = goal
<1> DEFINE n1 == [x10[r] EXCEPT !.pc = "verify"]
           n2 == [n1 EXCEPT !.goal = goal]
<1>1. x10' = [x10 EXCEPT ![r] = n2]
  BY DEF SignIn!GoFor
<1>2. n1 \in SignIn!RequestType /\ n1.pc = "verify"
  BY DEF SignIn!RequestType
<1> HIDE DEF n1
<1>3. n2 \in SignIn!RequestType /\ n2.pc = "verify" /\ n2.goal = goal
  BY <1>2 DEF SignIn!RequestType
<1> HIDE DEF n2
<1> QED BY <1>1, <1>3

LEMMA SignAccepted ==
  ASSUME SignInv, NEW r \in Requests, x10[r].pc \in {"verify", "spend"}, SignIn!Accepted(r)
  PROVE  \E new \in SignIn!RequestType :
           x10' = [x10 EXCEPT ![r] = new] /\ new.pc \in {"tokens", "link", "disable"}
<1>1. x10 \in [Requests -> SignIn!RequestType] /\ x10[r].goal \in {"login", "google", "disable"}
  BY DEF SignInv, SignTypes, SignIn!RequestType
<1>2. \E pc \in {"tokens", "link", "disable"} : SignIn!Go(r, pc)
  BY <1>1 DEF SignIn!Accepted
<1>3. PICK pc \in {"tokens", "link", "disable"} : SignIn!Go(r, pc)
  BY <1>2
<1>4. pc \in SignStates
  BY DEF SignStates
<1> QED BY <1>1, <1>3, <1>4, SignGo

LEMMA SignFinish ==
  ASSUME NEW r \in Requests, SignIn!Finish(r)
  PROVE  \E new \in SignIn!RequestType :
           x10' = [x10 EXCEPT ![r] = new] /\ new.pc = "idle"
BY SignIdle DEF SignIn!Finish

\* What a step that ends in a state without a write of the factor shows.
LEMMA SignLeaves ==
  ASSUME SignInv, NEW r \in Requests, SignFlags', x9 = FALSE \/ x9' # FALSE,
         x3' = x3, x4' = x4, x5' = x5, x6' = x6, x7' = x7, x8' = x8,
         NEW new \in SignIn!RequestType, x10' = [x10 EXCEPT ![r] = new],
         \/ new.pc \in {"idle", "delNonce", "lookup", "link", "create", "tokens"}
         \/ new.pc = "disable" /\ x10[r].pc \in SignIn!Writing
  PROVE  SignInv'
<1>1. new.pc \notin {"verify", "spend"} /\ new.pc # "setup" /\ new.pc # "enable" /\ new.pc # "spend"
  OBVIOUS
<1>2. new.pc \notin SignIn!Writing \/ x10[r].pc \in SignIn!Writing
  BY DEF SignIn!Writing
<1> QED BY <1>1, <1>2, SignMoves

LEMMA SignInsKeep ==
  ASSUME SignInv, NEW r \in Requests,
         \/ SignIn!ReadNonce(r) \/ SignIn!ConsumeNonce(r) \/ SignIn!LinkGoogleUser(r)
         \/ SignIn!IssueTokens(r) \/ SignIn!Abort(r)
  PROVE  SignInv'
<1>0. x10 \in [Requests -> SignIn!RequestType] /\ SignFlags
  BY DEF SignInv, SignTypes
<1>1. x3' = x3 /\ x4' = x4 /\ x5' = x5 /\ x6' = x6 /\ x7' = x7 /\ x8' = x8 /\ x9' = x9
  BY DEF SignIn!ReadNonce, SignIn!ConsumeNonce, SignIn!LinkGoogleUser, SignIn!IssueTokens,
         SignIn!Abort, SignIn!factor
<1>2. SignFlags'
  <2>1. x1' \in BOOLEAN
    BY <1>0, Zenon DEF SignFlags, SignIn!ReadNonce, SignIn!ConsumeNonce, SignIn!LinkGoogleUser,
       SignIn!IssueTokens, SignIn!Abort
  <2>2. x2' \in BOOLEAN
    BY <1>0, Zenon DEF SignFlags, SignIn!ReadNonce, SignIn!ConsumeNonce, SignIn!LinkGoogleUser,
       SignIn!IssueTokens, SignIn!Abort
  <2> QED BY <1>0, <1>1, <2>1, <2>2, Zenon DEF SignFlags
<1>3. \/ \E pc \in {"delNonce", "lookup", "tokens"} : SignIn!Go(r, pc)
      \/ SignIn!Finish(r)
  BY DEF SignIn!ReadNonce, SignIn!ConsumeNonce, SignIn!LinkGoogleUser, SignIn!IssueTokens,
         SignIn!Abort
<1>4. PICK new \in SignIn!RequestType :
        /\ x10' = [x10 EXCEPT ![r] = new]
        /\ new.pc \in {"idle", "delNonce", "lookup", "link", "create", "tokens"}
  <2>1. CASE \E pc \in {"delNonce", "lookup", "tokens"} : SignIn!Go(r, pc)
    <3>1. PICK pc \in {"delNonce", "lookup", "tokens"} : SignIn!Go(r, pc)
      BY <2>1
    <3>2. pc \in SignStates
      BY DEF SignStates
    <3> QED BY <1>0, <3>1, <3>2, SignGo
  <2>2. CASE SignIn!Finish(r)
    BY <2>2, SignFinish
  <2> QED BY <1>3, <2>1, <2>2
<1>5. x9 = FALSE \/ x9' # FALSE
  BY <1>1
<1> QED BY <1>1, <1>2, <1>4, <1>5, SignLeaves

\* The reads that may find the factor enabled.
LEMMA SignLooksKeep ==
  ASSUME SignInv, NEW r \in Requests, SignIn!LookUp(r) \/ SignIn!ReadGoogleUser(r)
  PROVE  SignInv'
<1>0. x10 \in [Requests -> SignIn!RequestType] /\ SignFlags
  BY DEF SignInv, SignTypes
<1>1. /\ x1' = x1 /\ x2' = x2
      /\ x3' = x3 /\ x4' = x4 /\ x5' = x5 /\ x6' = x6 /\ x7' = x7 /\ x8' = x8
  BY DEF SignIn!LookUp, SignIn!ReadGoogleUser, SignIn!factor
<1>2. x9' \in BOOLEAN /\ (x9' = FALSE => x9 = FALSE)
  <2>1. CASE SignIn!LookUp(r)
    BY <1>0, <2>1, Zenon DEF SignFlags, SignIn!LookUp
  <2>2. CASE SignIn!ReadGoogleUser(r)
    <3>1. PICK found \in {x2, TRUE} : x9' = (x9 \/ (found /\ x5 /\ SignIn!Overlaps(r)))
      BY <2>2, Zenon DEF SignIn!ReadGoogleUser
    <3> QED BY <1>0, <3>1, Zenon DEF SignFlags
  <2> QED BY <2>1, <2>2
<1>3. SignFlags'
  BY <1>0, <1>1, <1>2, Zenon DEF SignFlags
<1>4. x9 = FALSE \/ x9' # FALSE
  BY <1>0, <1>2, Zenon DEF SignFlags
<1>5. \/ \E goal \in {"login", "google"} :
           SignIn!GoFor(r, "verify", goal)
           /\ (x9' = FALSE => ~SignIn!Overlaps(r))
      \/ \E pc \in {"tokens", "link", "create"} : SignIn!Go(r, pc)
      \/ SignIn!Finish(r)
  <2>1. CASE SignIn!LookUp(r)
    <3>1. CASE x5
      BY <2>1, <3>1, Zenon DEF SignIn!LookUp
    <3>2. CASE ~x5
      BY <2>1, <3>2, Zenon DEF SignIn!LookUp
    <3> QED BY <3>1, <3>2
  <2>2. CASE SignIn!ReadGoogleUser(r)
    <3>0. PICK found \in {x2, TRUE} :
            /\ IF found /\ x5 THEN SignIn!GoFor(r, "verify", "google")
               ELSE SignIn!Go(r, IF found THEN "link" ELSE "create")
            /\ x9' = (x9 \/ (found /\ x5 /\ SignIn!Overlaps(r)))
      BY <2>2, Zenon DEF SignIn!ReadGoogleUser
    <3>1. CASE found /\ x5
      BY <3>0, <3>1, Zenon
    <3>2. CASE ~(found /\ x5)
      <4>1. SignIn!Go(r, IF found THEN "link" ELSE "create")
        BY <3>0, <3>2, Zenon
      <4>2. CASE found
        BY <4>1, <4>2, Zenon
      <4>3. CASE ~found
        BY <4>1, <4>3, Zenon
      <4> QED BY <4>2, <4>3
    <3> QED BY <3>1, <3>2
  <2> QED BY <2>1, <2>2
<1>6. ASSUME NEW goal \in {"login", "google"}, SignIn!GoFor(r, "verify", goal),
             x9' = FALSE => ~SignIn!Overlaps(r)
      PROVE  SignInv'
  <2>1. PICK new \in SignIn!RequestType :
          x10' = [x10 EXCEPT ![r] = new] /\ new.pc = "verify" /\ new.goal = goal
    BY <1>0, <1>6, SignGoFor
  <2>2. x9' = FALSE => \A o \in Requests \ {r} : x10[o].pc \notin SignIn!Writing
    BY <1>6 DEF SignIn!Overlaps
  <2>3. new.pc # "setup" /\ new.pc # "enable" /\ new.pc # "spend" /\ new.goal # "none"
    BY <2>1
  <2> QED BY <1>1, <1>2, <1>3, <2>1, <2>2, <2>3, SignMoves
<1>7. ASSUME NEW pc \in {"tokens", "link", "create"}, SignIn!Go(r, pc) PROVE SignInv'
  <2>1. pc \in SignStates
    BY DEF SignStates
  <2>2. PICK new \in SignIn!RequestType : x10' = [x10 EXCEPT ![r] = new] /\ new.pc = pc
    BY <1>0, <1>7, <2>1, SignGo
  <2>3. new.pc \in {"idle", "delNonce", "lookup", "link", "create", "tokens"}
    BY <2>2
  <2> QED BY <1>1, <1>3, <1>4, <2>2, <2>3, SignLeaves
<1>8. CASE SignIn!Finish(r)
  <2>1. PICK new \in SignIn!RequestType : x10' = [x10 EXCEPT ![r] = new] /\ new.pc = "idle"
    BY <1>8, SignFinish
  <2>2. new.pc \in {"idle", "delNonce", "lookup", "link", "create", "tokens"}
    BY <2>1
  <2> QED BY <1>1, <1>3, <1>4, <2>1, <2>2, SignLeaves
<1> QED BY <1>5, <1>6, <1>7, <1>8

LEMMA VerifyCodeKeeps == ASSUME SignInv, NEW r \in Requests, SignIn!VerifyCode(r) PROVE SignInv'
<1>0. /\ x10 \in [Requests -> SignIn!RequestType] /\ SignFlags /\ x6 \subseteq Codes
      /\ x10[r].pc = "verify" /\ x10[r].goal # "none"
  BY DEF SignInv, SignTypes, SignIn!VerifyCode
<1>1. /\ x1' = x1 /\ x2' = x2 /\ x9' = x9
      /\ x3' = x3 /\ x4' = x4 /\ x5' = x5 /\ x6' = x6 /\ x7' = x7 /\ x8' = x8
  BY DEF SignIn!VerifyCode, SignIn!factor
<1>2. SignFlags' /\ (x9 = FALSE \/ x9' # FALSE)
  BY <1>0, <1>1, Zenon DEF SignFlags
<1>3. CASE SignIn!Finish(r)
  <2>1. PICK new \in SignIn!RequestType : x10' = [x10 EXCEPT ![r] = new] /\ new.pc = "idle"
    BY <1>3, SignFinish
  <2>2. new.pc \in {"idle", "delNonce", "lookup", "link", "create", "tokens"}
    BY <2>1
  <2> QED BY <1>1, <1>2, <2>1, <2>2, SignLeaves
<1>4. CASE SignIn!Accepted(r)
  <2>1. x10[r].pc \in {"verify", "spend"} /\ x10[r].pc \in SignIn!Writing
    BY <1>0 DEF SignIn!Writing
  <2>2. PICK new \in SignIn!RequestType :
          x10' = [x10 EXCEPT ![r] = new] /\ new.pc \in {"tokens", "link", "disable"}
    BY <1>4, <2>1, SignAccepted
  <2>3. \/ new.pc \in {"idle", "delNonce", "lookup", "link", "create", "tokens"}
        \/ new.pc = "disable" /\ x10[r].pc \in SignIn!Writing
    BY <2>1, <2>2
  <2> QED BY <1>1, <1>2, <2>2, <2>3, SignLeaves
<1>5. ASSUME NEW c \in x6,
             x10' = [x10 EXCEPT ![r].pc = "spend", ![r].read = x6, ![r].used = {c}]
      PROVE  SignInv'
  <2> DEFINE n1 == [x10[r] EXCEPT !.pc = "spend"]
             n2 == [n1 EXCEPT !.read = x6]
             n3 == [n2 EXCEPT !.used = {c}]
  <2>1. x10' = [x10 EXCEPT ![r] = n3]
    BY <1>0, <1>5
  <2>2. n1 \in SignIn!RequestType /\ n1.pc = "spend" /\ n1.goal # "none"
    BY <1>0 DEF SignIn!RequestType
  <2> HIDE DEF n1
  <2>3. n2 \in SignIn!RequestType /\ n2.pc = "spend" /\ n2.goal # "none" /\ n2.read = x6
    BY <1>0, <2>2 DEF SignIn!RequestType
  <2> HIDE DEF n2
  <2>4. n3 \in SignIn!RequestType /\ n3.pc = "spend" /\ n3.goal # "none" /\ n3.read = x6
    BY <1>0, <2>3 DEF SignIn!RequestType
  <2> HIDE DEF n3
  <2>5. PICK new \in SignIn!RequestType :
          /\ x10' = [x10 EXCEPT ![r] = new] /\ new.pc = "spend" /\ new.goal # "none"
          /\ new.read = x6
    BY <2>1, <2>4
  <2>6. /\ x10[r].pc \in SignIn!Writing /\ new.pc # "setup" /\ new.pc # "enable"
        /\ (x9' = FALSE => x9 = FALSE)
    BY <1>0, <1>1, <2>5 DEF SignIn!Writing
  <2> QED BY <1>1, <1>2, <2>5, <2>6, SignMoves
<1> QED BY <1>3, <1>4, <1>5, Zenon DEF SignIn!VerifyCode

LEMMA ReadFactorKeeps == ASSUME SignInv, NEW r \in Requests, SignIn!ReadFactor(r) PROVE SignInv'
<1>0. /\ x10 \in [Requests -> SignIn!RequestType] /\ SignFlags
      /\ x4 \in 0 .. MaxSecrets
  BY SignBound DEF SignInv, SignTypes
<1>1. /\ x1' = x1 /\ x2' = x2
      /\ x3' = x3 /\ x4' = x4 /\ x5' = x5 /\ x6' = x6 /\ x7' = x7 /\ x8' = x8
  BY DEF SignIn!ReadFactor, SignIn!factor
<1>2. x9' \in BOOLEAN /\ (x9' = FALSE => x9 = FALSE /\ ~SignIn!Overlaps(r))
  BY <1>0, Zenon DEF SignFlags, SignIn!ReadFactor
<1>3. SignFlags'
  BY <1>0, <1>1, <1>2, Zenon DEF SignFlags
<1>4. x9' = FALSE => \A o \in Requests \ {r} : x10[o].pc \notin SignIn!Writing
  BY <1>2 DEF SignIn!Overlaps
<1>5. \/ x5 = FALSE /\ SignIn!Go(r, "setup")
      \/ x4 # 0 /\ x10' = [x10 EXCEPT ![r].pc = "enable", ![r].secret = x4]
      \/ SignIn!GoFor(r, "verify", "disable")
  BY <1>0, Zenon DEF SignFlags, SignIn!ReadFactor
<1>6. CASE x5 = FALSE /\ SignIn!Go(r, "setup")
  <2>1. "setup" \in SignStates
    BY DEF SignStates
  <2>2. PICK new \in SignIn!RequestType : x10' = [x10 EXCEPT ![r] = new] /\ new.pc = "setup"
    BY <1>0, <1>6, <2>1, SignGo
  <2>3. new.pc \notin {"verify", "spend"} /\ new.pc # "enable" /\ new.pc # "spend"
    BY <2>2
  <2> QED BY <1>1, <1>2, <1>3, <1>4, <1>6, <2>2, <2>3, SignMoves
<1>7. CASE x4 # 0 /\ x10' = [x10 EXCEPT ![r].pc = "enable", ![r].secret = x4]
  <2> DEFINE n1 == [x10[r] EXCEPT !.pc = "enable"]
             n2 == [n1 EXCEPT !.secret = x4]
  <2>1. x10' = [x10 EXCEPT ![r] = n2]
    BY <1>0, <1>7
  <2>2. n1 \in SignIn!RequestType /\ n1.pc = "enable"
    BY <1>0 DEF SignIn!RequestType
  <2> HIDE DEF n1
  <2>3. n2 \in SignIn!RequestType /\ n2.pc = "enable" /\ n2.secret = x4
    BY <1>0, <2>2 DEF SignIn!RequestType
  <2> HIDE DEF n2
  <2>4. PICK new \in SignIn!RequestType :
          x10' = [x10 EXCEPT ![r] = new] /\ new.pc = "enable" /\ new.secret = x4
    BY <2>1, <2>3
  <2>5. new.pc \notin {"verify", "spend"} /\ new.pc # "setup" /\ new.pc # "spend"
    BY <2>4
  <2> QED BY <1>1, <1>2, <1>3, <1>4, <1>7, <2>4, <2>5, SignMoves
<1>8. CASE SignIn!GoFor(r, "verify", "disable")
  <2>1. PICK new \in SignIn!RequestType :
          x10' = [x10 EXCEPT ![r] = new] /\ new.pc = "verify" /\ new.goal = "disable"
    BY <1>0, <1>8, SignGoFor
  <2>2. new.pc # "setup" /\ new.pc # "enable" /\ new.pc # "spend" /\ new.goal # "none"
    BY <2>1
  <2> QED BY <1>1, <1>2, <1>3, <1>4, <2>1, <2>2, SignMoves
<1> QED BY <1>5, <1>6, <1>7, <1>8

LEMMA FactorWritesKeep ==
  ASSUME SignInv, NEW r \in Requests,
         SignIn!SpendCode(r) \/ SignIn!StoreSecret(r) \/ SignIn!Enable(r) \/ SignIn!Disable(r)
  PROVE  SignInv'
<1> USE SignBound
<1>0. /\ x3 \in 0 .. MaxSecrets /\ x4 \in 0 .. x3 /\ x6 \subseteq Codes /\ x7 \in 0 .. MaxSecrets
      /\ x8 \subseteq Codes /\ x10[r] \in SignIn!RequestType /\ SignFlags
  BY DEF SignInv, SignTypes
<1>1. x10[r].pc \in SignIn!Writing /\ x1' = x1 /\ x2' = x2 /\ x9' = x9
  BY DEF SignIn!SpendCode, SignIn!StoreSecret, SignIn!Enable, SignIn!Disable, SignIn!Writing
<1>2. x5' \in BOOLEAN
  BY <1>0, Zenon DEF SignFlags, SignIn!SpendCode, SignIn!StoreSecret, SignIn!Enable, SignIn!Disable
<1>3. SignFlags'
  BY <1>0, <1>1, <1>2, Zenon DEF SignFlags
<1>4. CASE SignIn!SpendCode(r)
  <2>1. /\ x6' = x10[r].read \ x10[r].used /\ x8' = x8 \union x10[r].used
        /\ x3' = x3 /\ x4' = x4 /\ x5' = x5 /\ x7' = x7 /\ x10[r].pc = "spend"
    BY <1>4 DEF SignIn!SpendCode, SignIn!Remaining
  <2>2. x10[r].read \subseteq Codes /\ x10[r].used \subseteq Codes
    BY <1>0 DEF SignIn!RequestType
  <2>3. x9 = FALSE => SignUsable'
    <3> SUFFICES ASSUME x9 = FALSE, x5 = TRUE PROVE x4 = x7 /\ x4 # 0 /\ x6' \intersect x8' = {}
      BY <2>1 DEF SignUsable
    <3>1. x10[r].read = x6 /\ x4 = x7 /\ x4 # 0 /\ x6 \intersect x8 = {}
      BY <2>1 DEF SignInv, SignAlone, SignUsable
    <3> QED BY <2>1, <3>1
  <2>4. PICK new \in SignIn!RequestType :
          x10' = [x10 EXCEPT ![r] = new] /\ new.pc \in {"tokens", "link", "disable"}
    BY <1>4, <2>1, SignAccepted DEF SignIn!SpendCode
  <2>5. new.pc \notin {"verify", "spend", "setup", "enable"} /\ x6' \subseteq Codes /\ x8' \subseteq Codes
    BY <1>0, <2>1, <2>2, <2>4
  <2> QED BY <1>0, <1>1, <1>3, <2>1, <2>3, <2>4, <2>5, SignWrites
<1>5. CASE SignIn!StoreSecret(r)
  <2>1. /\ x3' = x3 + 1 /\ x3 < MaxSecrets /\ x4' = x3 + 1 /\ x5' = x5 /\ x6' = x6 /\ x7' = x7
        /\ x8' = x8 /\ x10[r].pc = "setup"
    BY <1>5 DEF SignIn!StoreSecret
  <2>2. x3' \in 0 .. MaxSecrets /\ x4' \in 0 .. x3'
    BY <1>0, <2>1
  <2>3. x9 = FALSE => SignUsable'
    BY <2>1 DEF SignInv, SignAlone, SignUsable
  <2>4. PICK new \in SignIn!RequestType : x10' = [x10 EXCEPT ![r] = new] /\ new.pc = "idle"
    BY <1>5, SignFinish DEF SignIn!StoreSecret
  <2>5. new.pc \notin {"verify", "spend", "setup", "enable"} /\ x6' \subseteq Codes
        /\ x8' \subseteq Codes /\ x7' \in 0 .. MaxSecrets
    BY <1>0, <2>1, <2>4
  <2> QED BY <1>1, <1>3, <2>2, <2>3, <2>4, <2>5, SignWrites
<1>6. CASE SignIn!Enable(r)
  <2>1. /\ x3' = x3 /\ x4' = x4 /\ x6' = Codes /\ x7' = x10[r].secret /\ x8' = {}
        /\ x10[r].pc = "enable"
    BY <1>6 DEF SignIn!Enable
  <2>2. x10[r].secret \in 0 .. MaxSecrets
    BY <1>0 DEF SignIn!RequestType
  <2>3. x9 = FALSE => SignUsable'
    BY <2>1 DEF SignInv, SignAlone, SignUsable
  <2>4. PICK new \in SignIn!RequestType : x10' = [x10 EXCEPT ![r] = new] /\ new.pc = "idle"
    BY <1>6, SignFinish DEF SignIn!Enable
  <2>5. new.pc \notin {"verify", "spend", "setup", "enable"} /\ x6' \subseteq Codes
        /\ x8' \subseteq Codes /\ x7' \in 0 .. MaxSecrets /\ x3' \in 0 .. MaxSecrets
        /\ x4' \in 0 .. x3'
    BY <1>0, <2>1, <2>2, <2>4
  <2> QED BY <1>1, <1>3, <2>3, <2>4, <2>5, SignWrites
<1>7. CASE SignIn!Disable(r)
  <2>1. x3' = x3 /\ x4' = 0 /\ x6' = {} /\ x7' = x7 /\ x8' = x8
    BY <1>7 DEF SignIn!Disable
  <2>2. x5' = FALSE
    BY <1>7, Zenon DEF SignIn!Disable
  <2>3. SignUsable'
    BY <2>2, Zenon DEF SignUsable
  <2>4. PICK new \in SignIn!RequestType : x10' = [x10 EXCEPT ![r] = new] /\ new.pc = "idle"
    BY <1>7, SignFinish DEF SignIn!Disable
  <2>5. new.pc \notin {"verify", "spend", "setup", "enable"} /\ x6' \subseteq Codes
        /\ x8' \subseteq Codes /\ x7' \in 0 .. MaxSecrets /\ x3' \in 0 .. MaxSecrets
        /\ x4' \in 0 .. x3'
    BY <1>0, <2>1, <2>4
  <2> QED BY <1>1, <1>3, <2>3, <2>4, <2>5, SignWrites
<1> QED BY <1>4, <1>5, <1>6, <1>7

LEMMA SignInductive == SignInv /\ [SignIn!Next]_(SignIn!vars) => SignInv'
<1> SUFFICES ASSUME SignInv, [SignIn!Next]_(SignIn!vars) PROVE SignInv'
  OBVIOUS
<1>1. CASE UNCHANGED SignIn!vars
  BY <1>1 DEF SignIn!vars, SignIn!factor, SignInv, SignTypes, SignFlags, SignUsable, SignAlone
<1>2. CASE SignIn!GenerateNonce \/ SignIn!NonceLapses
  <2>1. /\ x2' = x2 /\ x3' = x3 /\ x4' = x4 /\ x5' = x5 /\ x6' = x6 /\ x7' = x7 /\ x8' = x8
        /\ x9' = x9 /\ x10' = x10
    BY <1>2 DEF SignIn!GenerateNonce, SignIn!NonceLapses, SignIn!factor
  <2>2. x1' \in BOOLEAN
    BY <1>2, Zenon DEF SignIn!GenerateNonce, SignIn!NonceLapses
  <2>3. SignFlags'
    BY <2>1, <2>2, Zenon DEF SignInv, SignFlags
  <2> QED BY <2>1, <2>3 DEF SignInv, SignTypes, SignUsable, SignAlone
<1>3. ASSUME NEW r \in Requests, SignIn!Step(r) PROVE SignInv'
  BY <1>3, SignInsKeep, SignLooksKeep, VerifyCodeKeeps, ReadFactorKeeps, FactorWritesKeep
     DEF SignIn!Step
<1> QED BY <1>1, <1>2, <1>3 DEF SignIn!Next

LEMMA SignMeans == SignInv => SignIn!TypeOK /\ SignIn!FactorUsable
<1> SUFFICES ASSUME SignInv PROVE SignIn!TypeOK /\ SignIn!FactorUsable
  OBVIOUS
<1>1. SignIn!TypeOK
  BY Zenon DEF SignInv, SignTypes, SignFlags, SignIn!TypeOK
<1>2. SignIn!FactorUsable
  BY Zenon DEF SignInv, SignFlags, SignUsable, SignIn!FactorUsable
<1> QED BY <1>1, <1>2

------------------------------------------------------------------------------
\* A non-empty set of natural numbers under a bound has a greatest one.
LEMMA Greatest ==
  ASSUME NEW n \in Nat, NEW S \in SUBSET (1 .. n), S # {}
  PROVE  \E x \in S : \A y \in S : y <= x
<1> DEFINE R == {ss \in Nat \X Nat : ss[1] < ss[2]}
           T == {m \in Nat : n - m \in S}
<1>1. IsWellFoundedOn(R, Nat)
  BY NatLessThanWellFounded DEF OpToRel
<1>2. \A x, y \in Nat : <<x, y>> \in R <=> x < y
  OBVIOUS
<1>3. T \in SUBSET Nat /\ T # {} /\ \A m \in T : n - m \in S
  <2>1. PICK x \in S : TRUE
    OBVIOUS
  <2>2. x \in 1 .. n /\ n - x \in Nat /\ n - (n - x) = x
    OBVIOUS
  <2>3. n - x \in T
    BY <2>2
  <2> QED BY <2>3
<1>4. \A x \in S : x \in Nat /\ n - x \in T
  BY DEF T
<1> HIDE DEF R, T
<1>5. PICK m \in T : \A k \in T : ~(<<k, m>> \in R)
  BY <1>1, <1>3, WFMin
<1>6. \A k \in T : k \in Nat /\ ~(k < m)
  BY <1>2, <1>3, <1>5
<1>7. m \in Nat /\ n - m \in S
  BY <1>3
<1>8. \A y \in S : y <= n - m
  BY <1>4, <1>6, <1>7
<1> QED BY <1>7, <1>8

------------------------------------------------------------------------------
(***************************************************************************)
(* PhoneOtp: x1 are the codes, x2 the requests counted in the window, x3   *)
(* says whether the phone is verified, x4 counts the wrong answers, x5 the *)
(* codes stored in the window, x6 says whether verifications overlapped,   *)
(* x7 are the requests.  A request that is still to store its code was     *)
(* counted when it began; and if no verifications overlapped, the count of *)
(* a row lacks the wrong answer of the one under way and no other.         *)
(***************************************************************************)
OtpTyped(n) ==
  /\ n \in 0 .. MaxOtps /\ x1 \in [1 .. n -> Otp!Row] /\ x4 \in [1 .. n -> Nat]
  /\ x2 \in 0 .. MaxSends /\ x5 \in Nat /\ x3 \in BOOLEAN /\ x6 \in BOOLEAN
  /\ x7 \in [Requests -> Otp!RequestType]
  /\ \A r \in Requests :
       /\ Otp!Verifying(r) => x7[r].row \in 1 .. n
       /\ x7[r].pc = "miss" => x7[r].attempts < OtpTries
OtpSending == {r \in Requests : x7[r].pc \in {"invalidate", "insert"} /\ x7[r].now = TRUE}
OtpCounted == x5 + Cardinality(OtpSending) <= x2
OtpInTurn(n) ==
  /\ \A p, q \in Requests : p # q => ~Otp!Verifying(p) \/ ~Otp!Verifying(q)
  /\ \A r \in Requests : x7[r].pc = "miss" =>
       x1[x7[r].row].attempts = x7[r].attempts /\ x4[x7[r].row] = x7[r].attempts + 1
  /\ \A i \in 1 .. n :
       (\A r \in Requests : x7[r].pc = "miss" => x7[r].row # i) => x4[i] = x1[i].attempts
OtpAt(n) == OtpTyped(n) /\ OtpCounted /\ (x6 = FALSE => OtpInTurn(n))
OtpInv == \E n \in Nat : OtpAt(n)

LEMMA OtpBounds ==
  /\ IsFiniteSet(Requests) /\ OtpTries \in Nat \ {0} /\ MaxSends \in Nat \ {0} /\ MaxOtps \in Nat
<1>1. Otp!IsFiniteSet(Requests) => IsFiniteSet(Requests)
  BY Zenon DEF Otp!IsFiniteSet, IsFiniteSet
<1> QED BY <1>1, PlatformAssumption DEF Otp!ConstantsAssumption

LEMMA OtpIdle == Otp!Idle \in Otp!RequestType /\ Otp!Idle.pc = "idle" /\ Otp!Idle.now = TRUE
BY OtpBounds DEF Otp!Idle, Otp!RequestType

LEMMA SendingFinite ==
  IsFiniteSet(OtpSending) /\ Cardinality(OtpSending) \in Nat
<1>1. OtpSending \subseteq Requests
  BY DEF OtpSending
<1> QED BY <1>1, OtpBounds, FS_Subset, FS_CardinalityType

\* One request at most joins those that are to store a code, or one that did leaves.
LEMMA SendingSteps ==
  ASSUME NEW r \in Requests, \A o \in Requests : o # r => x7'[o] = x7[o]
  PROVE  /\ Cardinality(OtpSending') \in Nat
         /\ Cardinality(OtpSending') <= Cardinality(OtpSending) + 1
         /\ r \notin OtpSending' => Cardinality(OtpSending') <= Cardinality(OtpSending)
         /\ r \in OtpSending => Cardinality(OtpSending') <= Cardinality(OtpSending)
         /\ r \in OtpSending /\ r \notin OtpSending' =>
              Cardinality(OtpSending') = Cardinality(OtpSending) - 1
<1> DEFINE S == OtpSending
           T == OtpSending'
<1>1. IsFiniteSet(S) /\ Cardinality(S) \in Nat
  BY SendingFinite
<1>2. T \subseteq S \union {r} /\ (r \notin T => T = S \ {r}) /\ (r \in S => T \subseteq S)
  BY DEF OtpSending
<1>3. IsFiniteSet(S \union {r}) /\ Cardinality(S \union {r}) <= Cardinality(S) + 1
      /\ Cardinality(S \union {r}) \in Nat
  <2> HIDE DEF S, T
  <2>1. CASE r \in S
    <3>1. S \union {r} = S
      BY <2>1
    <3> QED BY <1>1, <3>1
  <2>2. CASE r \notin S
    BY <1>1, <2>2, FS_AddElement
  <2> QED BY <2>1, <2>2
<1> HIDE DEF S, T
<1>4. Cardinality(T) \in Nat /\ Cardinality(T) <= Cardinality(S) + 1
  <2>1. IsFiniteSet(T) /\ Cardinality(T) <= Cardinality(S \union {r})
    BY <1>2, <1>3, FS_Subset
  <2> QED BY <1>1, <1>3, <2>1, FS_CardinalityType
<1>5. r \in S => Cardinality(T) <= Cardinality(S)
  BY <1>1, <1>2, FS_Subset
<1>6. r \notin T => Cardinality(T) <= Cardinality(S)
  <2>1. S \ {r} \in SUBSET S
    OBVIOUS
  <2> QED BY <1>1, <1>2, <2>1, FS_Subset
<1>7. r \in S /\ r \notin T => Cardinality(T) = Cardinality(S) - 1
  BY <1>1, <1>2, FS_RemoveElement
<1> QED BY <1>4, <1>5, <1>6, <1>7 DEF S, T

LEMMA OtpInitially == Otp!Init => OtpInv
<1> SUFFICES ASSUME Otp!Init PROVE OtpAt(0)
  BY DEF OtpInv
<1> USE OtpBounds
<1>1. /\ x1 = <<>> /\ x4 = <<>> /\ x2 = 0 /\ x5 = 0 /\ x3 = FALSE /\ x6 = FALSE
      /\ x7 = [r \in Requests |-> Otp!Idle]
  BY Zenon DEF Otp!Init
<1>2. x1 \in [1 .. 0 -> Otp!Row] /\ x4 \in [1 .. 0 -> Nat] /\ 0 \in 0 .. MaxOtps /\ 0 \in 0 .. MaxSends
  BY <1>1
<1>3. \A r \in Requests : x7[r].pc = "idle" /\ ~Otp!Verifying(r)
  BY <1>1, OtpIdle DEF Otp!Verifying
<1>4. OtpTyped(0)
  <2>1. x7 \in [Requests -> Otp!RequestType] /\ x5 \in Nat
    BY <1>1, OtpIdle
  <2> QED BY <1>1, <1>2, <1>3, <2>1, Zenon DEF OtpTyped
<1>5. OtpSending = {}
  BY <1>3 DEF OtpSending
<1>6. OtpCounted
  BY <1>1, <1>5, FS_EmptySet DEF OtpCounted
<1>7. OtpInTurn(0)
  BY <1>3 DEF OtpInTurn
<1> QED BY <1>4, <1>6, <1>7 DEF OtpAt

\* A step of one request that changes no count of wrong answers.
LEMMA OtpMoves ==
  ASSUME NEW n \in Nat, OtpAt(n), NEW r \in Requests, NEW new \in Otp!RequestType,
         x7' = [x7 EXCEPT ![r] = new], x7[r].pc # "miss", new.pc # "miss",
         x1' \in [1 .. n -> Otp!Row], \A i \in 1 .. n : x1'[i].attempts = x1[i].attempts,
         x4' = x4, x3' \in BOOLEAN, x6' \in BOOLEAN, x2' \in 0 .. MaxSends, x5' \in Nat, OtpCounted',
         new.pc \in {"retire", "accept"} => new.row \in 1 .. n,
         x6' = FALSE => x6 = FALSE
                        /\ (new.pc \in {"retire", "accept"} =>
                              \A o \in Requests : o # r => ~Otp!Verifying(o))
  PROVE  OtpInv'
<1>1. x7'[r] = new /\ \A o \in Requests : o # r => x7'[o] = x7[o]
  BY DEF OtpAt, OtpTyped
<1>2. OtpTyped(n)'
  <2>1. x7' \in [Requests -> Otp!RequestType] /\ n \in 0 .. MaxOtps /\ x4' \in [1 .. n -> Nat]
    BY DEF OtpAt, OtpTyped
  <2>2. \A o \in Requests :
          /\ Otp!Verifying(o)' => x7'[o].row \in 1 .. n
          /\ x7'[o].pc = "miss" => x7'[o].attempts < OtpTries
    BY <1>1 DEF OtpAt, OtpTyped, Otp!Verifying
  <2> QED BY <2>1, <2>2, Zenon DEF OtpTyped
<1>3. ASSUME x6' = FALSE PROVE OtpInTurn(n)'
  <2>1. OtpInTurn(n)
    BY <1>3 DEF OtpAt
  <2>2. \A p, q \in Requests : p # q => ~Otp!Verifying(p)' \/ ~Otp!Verifying(q)'
    BY <1>1, <1>3, <2>1 DEF OtpInTurn, Otp!Verifying
  <2>3. \A o \in Requests : x7'[o].pc = "miss" <=> x7[o].pc = "miss"
    BY <1>1
  <2>4. \A o \in Requests : x7'[o].pc = "miss" => x7'[o] = x7[o] /\ x7[o].row \in 1 .. n
    BY <1>1, <2>3 DEF OtpAt, OtpTyped, Otp!Verifying
  <2> QED BY <2>1, <2>2, <2>3, <2>4 DEF OtpInTurn
<1> QED BY <1>2, <1>3 DEF OtpAt, OtpInv

LEMMA OtpFacts ==
  ASSUME NEW n \in Nat, OtpAt(n)
  PROVE  /\ n \in 0 .. MaxOtps /\ x1 \in [1 .. n -> Otp!Row] /\ x4 \in [1 .. n -> Nat]
         /\ x2 \in 0 .. MaxSends /\ x5 \in Nat
         /\ x7 \in [Requests -> Otp!RequestType] /\ x5 + Cardinality(OtpSending) <= x2
         /\ Cardinality(OtpSending) \in Nat
         /\ DOMAIN x1 = 1 .. n /\ Len(x1) = n /\ x1 \in Seq(Otp!Row)
         /\ DOMAIN x4 = 1 .. n /\ Len(x4) = n /\ x4 \in Seq(Nat)
BY SendingFinite DEF OtpAt, OtpTyped, OtpCounted

LEMMA OtpGo ==
  ASSUME x7 \in [Requests -> Otp!RequestType], NEW r \in Requests,
         NEW pc \in {"invalidate", "insert", "user"}, Otp!Go(r, pc)
  PROVE  \E new \in Otp!RequestType :
           x7' = [x7 EXCEPT ![r] = new] /\ new.pc = pc /\ new.now = x7[r].now
<1> DEFINE new == [x7[r] EXCEPT !.pc = pc]
<1>1. x7' = [x7 EXCEPT ![r] = new]
  BY DEF Otp!Go
<1>2. new \in Otp!RequestType /\ new.pc = pc /\ new.now = x7[r].now
  BY DEF Otp!RequestType
<1> HIDE DEF new
<1> QED BY <1>1, <1>2

\* A code that is used up keeps its count.
LEMMA UsedCode ==
  ASSUME NEW row \in Otp!Row
  PROVE  /\ [row EXCEPT !.used = TRUE] \in Otp!Row /\ [row EXCEPT !.overdue = TRUE] \in Otp!Row
         /\ [row EXCEPT !.used = TRUE].attempts = row.attempts
         /\ [row EXCEPT !.overdue = TRUE].attempts = row.attempts
<1> DEFINE used == [row EXCEPT !.used = TRUE]
           overdue == [row EXCEPT !.overdue = TRUE]
<1>1. used \in Otp!Row /\ used.attempts = row.attempts
  BY DEF Otp!Row
<1>2. overdue \in Otp!Row /\ overdue.attempts = row.attempts
  BY DEF Otp!Row
<1> QED BY <1>1, <1>2

LEMMA SendsKeep ==
  ASSUME OtpInv, NEW r \in Requests, Otp!StartSend(r) \/ Otp!Invalidate(r)
  PROVE  OtpInv'
<1> PICK n \in Nat : OtpAt(n)
  BY DEF OtpInv
<1>0. /\ x1 \in [1 .. n -> Otp!Row] /\ x2 \in 0 .. MaxSends /\ x5 \in Nat /\ x3 \in BOOLEAN
      /\ x6 \in BOOLEAN /\ x7 \in [Requests -> Otp!RequestType] /\ DOMAIN x1 = 1 .. n
      /\ x5 + Cardinality(OtpSending) <= x2 /\ Cardinality(OtpSending) \in Nat
  BY OtpFacts DEF OtpAt, OtpTyped
<1>1. x4' = x4 /\ x3' = x3 /\ x5' = x5 /\ x6' = x6
  BY DEF Otp!StartSend, Otp!Invalidate
<1>2. PICK pc \in {"invalidate", "insert"} : Otp!Go(r, pc)
  BY DEF Otp!StartSend, Otp!Invalidate
<1>3. PICK new \in Otp!RequestType :
        x7' = [x7 EXCEPT ![r] = new] /\ new.pc = pc /\ new.now = x7[r].now
  BY <1>0, <1>2, OtpGo
<1>4. x7'[r] = new /\ \A o \in Requests : o # r => x7'[o] = x7[o]
  BY <1>0, <1>3
<1>5. x1' \in [1 .. n -> Otp!Row] /\ \A i \in 1 .. n : x1'[i].attempts = x1[i].attempts
  <2>1. CASE Otp!StartSend(r)
    BY <1>0, <2>1 DEF Otp!StartSend
  <2>2. CASE Otp!Invalidate(r)
    <3>1. x1' = [i \in 1 .. n |-> [x1[i] EXCEPT !.used = TRUE]]
      BY <1>0, <2>2 DEF Otp!Invalidate
    <3> QED BY <1>0, <3>1, UsedCode
  <2> QED BY <2>1, <2>2
<1>6. x2' \in 0 .. MaxSends /\ OtpCounted'
  <2>1. CASE Otp!StartSend(r)
    <3>1. x2' = x2 + 1 /\ x2 < MaxSends
      BY <2>1 DEF Otp!StartSend, Otp!WithinRate
    <3>2. Cardinality(OtpSending') \in Nat /\ Cardinality(OtpSending') <= Cardinality(OtpSending) + 1
      BY <1>4, SendingSteps
    <3> QED BY <1>0, <1>1, <3>1, <3>2, OtpBounds DEF OtpCounted
  <2>2. CASE Otp!Invalidate(r)
    <3>1. x2' = x2 /\ x7[r].pc = "invalidate"
      BY <2>2 DEF Otp!Invalidate
    <3>2. r \in OtpSending \/ r \notin OtpSending'
      BY <1>3, <1>4, <3>1 DEF OtpSending
    <3>3. Cardinality(OtpSending') \in Nat /\ Cardinality(OtpSending') <= Cardinality(OtpSending)
      BY <1>4, <3>2, SendingSteps
    <3> QED BY <1>0, <1>1, <3>1, <3>3 DEF OtpCounted
  <2> QED BY <2>1, <2>2
<1>7. x7[r].pc # "miss" /\ new.pc # "miss" /\ new.pc \notin {"retire", "accept"}
  <2>1. x7[r].pc \in {"idle", "invalidate"}
    BY OtpIdle DEF Otp!StartSend, Otp!Invalidate
  <2> QED BY <1>2, <1>3, <2>1
<1>8. x3' \in BOOLEAN /\ x6' \in BOOLEAN /\ x5' \in Nat /\ (x6' = FALSE => x6 = FALSE)
  BY <1>0, <1>1
<1> QED BY <1>1, <1>3, <1>5, <1>6, <1>7, <1>8, OtpMoves

LEMMA InsertOtpKeeps == ASSUME OtpInv, NEW r \in Requests, Otp!InsertOtp(r) PROVE OtpInv'
<1> PICK n \in Nat : OtpAt(n)
  BY DEF OtpInv
<1> USE OtpBounds
<1>0. /\ x2 \in 0 .. MaxSends /\ x5 \in Nat /\ x3 \in BOOLEAN
      /\ x6 \in BOOLEAN /\ x7 \in [Requests -> Otp!RequestType] /\ n \in 0 .. MaxOtps
      /\ x1 \in [1 .. n -> Otp!Row] /\ x4 \in [1 .. n -> Nat]
      /\ Len(x1) = n /\ x1 \in Seq(Otp!Row) /\ Len(x4) = n /\ x4 \in Seq(Nat)
      /\ x5 + Cardinality(OtpSending) <= x2 /\ Cardinality(OtpSending) \in Nat
  BY OtpFacts DEF OtpAt, OtpTyped
<1> DEFINE row == [used |-> FALSE, attempts |-> 0, overdue |-> FALSE]
<1>1. row \in Otp!Row /\ row.attempts = 0
  BY DEF Otp!Row
<1>2. /\ x7[r].pc = "insert" /\ n < MaxOtps /\ x1' = Append(x1, row) /\ x4' = Append(x4, 0)
      /\ x2' = x2 /\ x3' = x3 /\ x6' = x6 /\ x7' = [x7 EXCEPT ![r] = Otp!Idle]
  BY <1>0 DEF Otp!InsertOtp, Otp!Finish
<1>3. (x7[r].now = TRUE => x5' = x5 + 1) /\ (x7[r].now # TRUE => x5' = x5)
  <2>1. x7[r].now \in BOOLEAN
    BY <1>0, Zenon DEF Otp!RequestType
  <2> QED BY <2>1, Zenon DEF Otp!InsertOtp
<1> HIDE DEF row
<1>4. PICK m \in Nat : m = n + 1
  OBVIOUS
<1>5. x1' \in [1 .. m -> Otp!Row] /\ x1'[m] = row /\ \A i \in 1 .. n : x1'[i] = x1[i]
  <2>1. /\ x1' \in Seq(Otp!Row) /\ Len(x1') = m /\ x1'[m] = row
        /\ \A i \in 1 .. n : x1'[i] = x1[i]
    BY <1>0, <1>1, <1>2, <1>4
  <2>2. x1' \in [1 .. Len(x1') -> Otp!Row]
    BY <2>1
  <2> QED BY <2>1, <2>2
<1>6. x4' \in [1 .. m -> Nat] /\ x4'[m] = 0 /\ \A i \in 1 .. n : x4'[i] = x4[i]
  <2>1. /\ x4' \in Seq(Nat) /\ Len(x4') = m /\ x4'[m] = 0
        /\ \A i \in 1 .. n : x4'[i] = x4[i]
    BY <1>0, <1>2, <1>4
  <2>2. x4' \in [1 .. Len(x4') -> Nat]
    BY <2>1
  <2> QED BY <2>1, <2>2
<1>7. x7'[r] = Otp!Idle /\ \A o \in Requests : o # r => x7'[o] = x7[o]
  BY <1>0, <1>2
<1>8. OtpTyped(m)'
  <2>1. x7' \in [Requests -> Otp!RequestType] /\ m \in 0 .. MaxOtps /\ x2' \in 0 .. MaxSends /\ x5' \in Nat
    <3>1. x7' \in [Requests -> Otp!RequestType]
      BY <1>0, <1>2, OtpIdle
    <3>2. m \in 0 .. MaxOtps /\ x2' \in 0 .. MaxSends
      BY <1>0, <1>2, <1>4
    <3>3. x5' = x5 + 1 \/ x5' = x5
      BY <1>3, Zenon
    <3>4. x5' \in Nat
      BY <1>0, <3>3
    <3> QED BY <3>1, <3>2, <3>4
  <2>2. \A o \in Requests :
          /\ Otp!Verifying(o)' => x7'[o].row \in 1 .. m
          /\ x7'[o].pc = "miss" => x7'[o].attempts < OtpTries
    BY <1>4, <1>7, OtpIdle DEF OtpAt, OtpTyped, Otp!Verifying
  <2>3. x3' \in BOOLEAN /\ x6' \in BOOLEAN
    BY <1>0, <1>2
  <2> QED BY <1>5, <1>6, <2>1, <2>2, <2>3, Zenon DEF OtpTyped
<1>9. OtpCounted'
  <2>1. r \notin OtpSending' /\ (r \in OtpSending <=> x7[r].now = TRUE)
    BY <1>2, <1>7, OtpIdle DEF OtpSending
  <2>2. /\ Cardinality(OtpSending') \in Nat /\ Cardinality(OtpSending') <= Cardinality(OtpSending)
        /\ r \in OtpSending => Cardinality(OtpSending') = Cardinality(OtpSending) - 1
    BY <1>7, <2>1, SendingSteps
  <2>3. PICK k \in Nat, k1 \in Nat : k = Cardinality(OtpSending) /\ k1 = Cardinality(OtpSending')
    BY <1>0, <2>2
  <2>4. CASE r \in OtpSending
    <3>1. x5' = x5 + 1
      BY <1>3, <2>1, <2>4, Zenon
    <3>2. k1 = k - 1
      BY <2>2, <2>3, <2>4, Zenon
    <3> QED BY <1>0, <1>2, <2>3, <3>1, <3>2 DEF OtpCounted
  <2>5. CASE r \notin OtpSending
    <3>1. x5' = x5
      BY <1>3, <2>1, <2>5, Zenon
    <3> QED BY <1>0, <1>2, <2>2, <2>3, <3>1 DEF OtpCounted
  <2> QED BY <2>4, <2>5
<1>10. ASSUME x6' = FALSE PROVE OtpInTurn(m)'
  <2>1. OtpInTurn(n)
    BY <1>2, <1>10 DEF OtpAt
  <2>2. \A o \in Requests : Otp!Verifying(o)' => Otp!Verifying(o) /\ o # r
    BY <1>7, OtpIdle DEF Otp!Verifying
  <2>3. \A p, q \in Requests : p # q => ~Otp!Verifying(p)' \/ ~Otp!Verifying(q)'
    BY <2>1, <2>2 DEF OtpInTurn
  <2>4. \A o \in Requests :
          /\ x7'[o].pc = "miss" <=> x7[o].pc = "miss"
          /\ x7[o].pc = "miss" => x7'[o] = x7[o] /\ x7[o].row \in 1 .. n
    BY <1>2, <1>7, OtpIdle DEF OtpAt, OtpTyped, Otp!Verifying
  <2>5. ASSUME NEW o \in Requests, x7'[o].pc = "miss"
        PROVE  x1'[x7'[o].row].attempts = x7'[o].attempts /\ x4'[x7'[o].row] = x7'[o].attempts + 1
    BY <1>5, <1>6, <2>1, <2>4, <2>5 DEF OtpInTurn
  <2>6. ASSUME NEW i \in 1 .. m, \A o \in Requests : x7'[o].pc = "miss" => x7'[o].row # i
        PROVE  x4'[i] = x1'[i].attempts
    <3>1. CASE i = m
      BY <1>1, <1>5, <1>6, <3>1
    <3>2. CASE i # m
      <4>1. i \in 1 .. n
        BY <1>4, <3>2
      <4>2. \A o \in Requests : x7[o].pc = "miss" => x7[o].row # i
        BY <2>4, <2>6
      <4>3. x4[i] = x1[i].attempts
        BY <2>1, <4>1, <4>2 DEF OtpInTurn
      <4> QED BY <1>5, <1>6, <4>1, <4>3
    <3> QED BY <3>1, <3>2
  <2> QED BY <2>3, <2>5, <2>6 DEF OtpInTurn
<1> QED BY <1>8, <1>9, <1>10 DEF OtpAt, OtpInv

\* The row a verification reads is one of the rows.
LEMMA NewestRow ==
  ASSUME NEW n \in Nat, x1 \in [1 .. n -> Otp!Row], Otp!Unused # {}
  PROVE  Otp!Newest \in 1 .. n
<1>1. Otp!Unused \in SUBSET (1 .. n)
  BY DEF Otp!Unused
<1>2. \E i \in Otp!Unused : \A j \in Otp!Unused : j <= i
  BY <1>1, Greatest
<1>3. Otp!Newest \in Otp!Unused
  BY <1>2 DEF Otp!Newest
<1> QED BY <1>1, <1>3

LEMMA ReadOtpKeeps == ASSUME OtpInv, NEW r \in Requests, Otp!ReadOtp(r) PROVE OtpInv'
<1> PICK n \in Nat : OtpAt(n)
  BY DEF OtpInv
<1> USE OtpBounds
<1>0. /\ x2 \in 0 .. MaxSends /\ x5 \in Nat /\ x3 \in BOOLEAN
      /\ x6 \in BOOLEAN /\ x7 \in [Requests -> Otp!RequestType] /\ n \in 0 .. MaxOtps
      /\ x1 \in [1 .. n -> Otp!Row] /\ x4 \in [1 .. n -> Nat]
      /\ x5 + Cardinality(OtpSending) <= x2 /\ Cardinality(OtpSending) \in Nat
  BY OtpFacts DEF OtpAt, OtpTyped
<1>1. /\ x1' = x1 /\ x2' = x2 /\ x3' = x3 /\ x5' = x5 /\ x7[r] = Otp!Idle /\ Otp!Unused # {}
  BY DEF Otp!ReadOtp
<1>2. x6' \in BOOLEAN /\ (x6' = FALSE => x6 = FALSE /\ \A o \in Requests : ~Otp!Verifying(o))
  BY <1>0, Zenon DEF Otp!ReadOtp
<1>3. PICK top \in 1 .. n : top = Otp!Newest
  BY <1>0, <1>1, NewestRow
<1>4. x1[top].attempts \in 0 .. OtpTries /\ top \in 0 .. MaxOtps
  BY <1>0, <1>3 DEF Otp!Row
<1>5. ASSUME NEW pc \in {"retire", "miss", "accept"},
             x7' = [x7 EXCEPT ![r] =
                      [pc |-> pc, row |-> top, attempts |-> x1[top].attempts, now |-> TRUE]]
      PROVE  \E new \in Otp!RequestType :
               /\ x7' = [x7 EXCEPT ![r] = new] /\ new.pc = pc /\ new.row = top
               /\ new.attempts = x1[top].attempts
  <2> DEFINE new == [pc |-> pc, row |-> top, attempts |-> x1[top].attempts, now |-> TRUE]
  <2>1. new \in Otp!RequestType /\ new.pc = pc /\ new.row = top /\ new.attempts = x1[top].attempts
    BY <1>4 DEF Otp!RequestType
  <2> HIDE DEF new
  <2> QED BY <1>5, <2>1 DEF new
<1>6. OtpCounted' /\ \A o \in Requests : o # r => x7'[o] = x7[o]
  <2>1. \E pc \in {"retire", "miss", "accept"} :
          x7' = [x7 EXCEPT ![r] =
                   [pc |-> pc, row |-> top, attempts |-> x1[top].attempts, now |-> TRUE]]
    BY <1>3, Zenon DEF Otp!ReadOtp
  <2>2. PICK pc \in {"retire", "miss", "accept"}, new \in Otp!RequestType :
          x7' = [x7 EXCEPT ![r] = new] /\ new.pc = pc
    BY <1>5, <2>1
  <2>3. x7'[r] = new /\ \A o \in Requests : o # r => x7'[o] = x7[o]
    BY <1>0, <2>2
  <2>4. r \notin OtpSending'
    BY <2>2, <2>3 DEF OtpSending
  <2>5. Cardinality(OtpSending') \in Nat /\ Cardinality(OtpSending') <= Cardinality(OtpSending)
    BY <2>3, <2>4, SendingSteps
  <2> QED BY <1>0, <1>1, <2>3, <2>5 DEF OtpCounted
<1>7. \/ \E pc \in {"retire", "accept"} :
           /\ x7' = [x7 EXCEPT ![r] =
                      [pc |-> pc, row |-> top, attempts |-> x1[top].attempts, now |-> TRUE]]
           /\ x4' = x4
      \/ /\ x7' = [x7 EXCEPT ![r] =
                      [pc |-> "miss", row |-> top, attempts |-> x1[top].attempts, now |-> TRUE]]
         /\ ~(x1[top].attempts >= OtpTries)
         /\ x4' = [x4 EXCEPT ![top] = Otp!CountedUp(@)]
  BY <1>3, Zenon DEF Otp!ReadOtp
<1>8. ASSUME NEW pc \in {"retire", "accept"}, x4' = x4,
             x7' = [x7 EXCEPT ![r] =
                      [pc |-> pc, row |-> top, attempts |-> x1[top].attempts, now |-> TRUE]]
      PROVE  OtpInv'
  <2>1. PICK new \in Otp!RequestType : x7' = [x7 EXCEPT ![r] = new] /\ new.pc = pc /\ new.row = top
    BY <1>5, <1>8
  <2>2. x7[r].pc # "miss" /\ new.pc # "miss" /\ new.row \in 1 .. n
    BY <1>1, <2>1, OtpIdle
  <2>3. /\ x1' \in [1 .. n -> Otp!Row] /\ x2' \in 0 .. MaxSends /\ x5' \in Nat /\ x3' \in BOOLEAN
        /\ \A i \in 1 .. n : x1'[i].attempts = x1[i].attempts
    BY <1>0, <1>1
  <2> QED BY <1>2, <1>6, <1>8, <2>1, <2>2, <2>3, OtpMoves
<1>9. ASSUME x7' = [x7 EXCEPT ![r] =
                      [pc |-> "miss", row |-> top, attempts |-> x1[top].attempts, now |-> TRUE]],
             ~(x1[top].attempts >= OtpTries), x4' = [x4 EXCEPT ![top] = Otp!CountedUp(@)]
      PROVE  OtpInv'
  <2>1. PICK new \in Otp!RequestType :
          /\ x7' = [x7 EXCEPT ![r] = new] /\ new.pc = "miss" /\ new.row = top
          /\ new.attempts = x1[top].attempts
    BY <1>5, <1>9
  <2>2. x7'[r] = new /\ \A o \in Requests : o # r => x7'[o] = x7[o]
    BY <1>0, <2>1
  <2>3. Otp!CountedUp(x4[top]) \in Nat
    BY <1>0 DEF Otp!CountedUp
  <2>4. OtpTyped(n)'
    <3>1. x4' \in [1 .. n -> Nat] /\ x7' \in [Requests -> Otp!RequestType]
      BY <1>0, <1>9, <2>1, <2>3
    <3>2. \A o \in Requests :
            /\ Otp!Verifying(o)' => x7'[o].row \in 1 .. n
            /\ x7'[o].pc = "miss" => x7'[o].attempts < OtpTries
      BY <1>4, <1>9, <2>1, <2>2 DEF OtpAt, OtpTyped, Otp!Verifying
    <3>3. x1' \in [1 .. n -> Otp!Row] /\ x2' \in 0 .. MaxSends /\ x5' \in Nat /\ x3' \in BOOLEAN
      BY <1>0, <1>1
    <3> QED BY <1>0, <1>2, <3>1, <3>2, <3>3, Zenon DEF OtpTyped
  <2>5. ASSUME x6' = FALSE PROVE OtpInTurn(n)'
    <3>1. OtpInTurn(n) /\ \A o \in Requests : ~Otp!Verifying(o) /\ x7[o].pc # "miss"
      BY <1>2, <2>5 DEF OtpAt, Otp!Verifying
    <3>2. \A p, q \in Requests : p # q => ~Otp!Verifying(p)' \/ ~Otp!Verifying(q)'
      BY <2>2, <3>1 DEF Otp!Verifying
    <3>3. \A i \in 1 .. n : x4[i] = x1[i].attempts
      BY <3>1 DEF OtpInTurn
    <3>4. x1[top].attempts < OtpTries /\ Otp!CountedUp(x4[top]) = x1[top].attempts + 1
      BY <1>4, <1>9, <3>3 DEF Otp!CountedUp
    <3>5. x4'[top] = x1[top].attempts + 1 /\ \A i \in 1 .. n : i # top => x4'[i] = x4[i]
      BY <1>0, <1>9, <3>4
    <3>6. \A o \in Requests : x7'[o].pc = "miss" => o = r
      BY <2>2, <3>1
    <3>7. ASSUME NEW o \in Requests, x7'[o].pc = "miss"
          PROVE  x1'[x7'[o].row].attempts = x7'[o].attempts /\ x4'[x7'[o].row] = x7'[o].attempts + 1
      BY <1>1, <2>1, <2>2, <3>4, <3>5, <3>6, <3>7
    <3>8. ASSUME NEW i \in 1 .. n, \A o \in Requests : x7'[o].pc = "miss" => x7'[o].row # i
          PROVE  x4'[i] = x1'[i].attempts
      <4>1. i # top
        BY <2>1, <2>2, <3>8
      <4> QED BY <1>1, <3>3, <3>5, <4>1
    <3> QED BY <3>2, <3>7, <3>8 DEF OtpInTurn
  <2> QED BY <1>6, <2>4, <2>5 DEF OtpAt, OtpInv
<1> QED BY <1>7, <1>8, <1>9

\* The verifications that end without a count.
LEMMA VerificationsKeep ==
  ASSUME OtpInv, NEW r \in Requests, Otp!RetireOtp(r) \/ Otp!AcceptOtp(r) \/ Otp!VerifyUser(r)
  PROVE  OtpInv'
<1> PICK n \in Nat : OtpAt(n)
  BY DEF OtpInv
<1>0. /\ x2 \in 0 .. MaxSends /\ x5 \in Nat /\ x3 \in BOOLEAN
      /\ x6 \in BOOLEAN /\ x7 \in [Requests -> Otp!RequestType] /\ x1 \in [1 .. n -> Otp!Row]
      /\ x5 + Cardinality(OtpSending) <= x2 /\ Cardinality(OtpSending) \in Nat
  BY OtpFacts DEF OtpAt, OtpTyped
<1>1. x4' = x4 /\ x2' = x2 /\ x5' = x5 /\ x6' = x6 /\ x7[r].pc \in {"retire", "accept", "user"}
  BY DEF Otp!RetireOtp, Otp!AcceptOtp, Otp!VerifyUser
<1>2. x3' \in BOOLEAN
  BY <1>0, Zenon DEF Otp!RetireOtp, Otp!AcceptOtp, Otp!VerifyUser
<1>3. PICK new \in Otp!RequestType : x7' = [x7 EXCEPT ![r] = new] /\ new.pc \in {"idle", "user"}
  <2>1. CASE Otp!Go(r, "user")
    BY <1>0, <2>1, OtpGo
  <2>2. CASE Otp!Finish(r)
    BY <2>2, OtpIdle DEF Otp!Finish
  <2> QED BY <2>1, <2>2 DEF Otp!RetireOtp, Otp!AcceptOtp, Otp!VerifyUser
<1>4. x1' \in [1 .. n -> Otp!Row] /\ \A i \in 1 .. n : x1'[i].attempts = x1[i].attempts
  <2>1. CASE Otp!VerifyUser(r)
    BY <1>0, <2>1 DEF Otp!VerifyUser
  <2>2. CASE Otp!RetireOtp(r) \/ Otp!AcceptOtp(r)
    <3>1. x7[r].row \in 1 .. n
      BY <2>2 DEF Otp!RetireOtp, Otp!AcceptOtp, OtpAt, OtpTyped, Otp!Verifying
    <3>2. x1' = [x1 EXCEPT ![x7[r].row] = [x1[x7[r].row] EXCEPT !.used = TRUE]]
      BY <2>2 DEF Otp!RetireOtp, Otp!AcceptOtp
    <3>3. x1[x7[r].row] \in Otp!Row
      BY <1>0, <3>1
    <3>4. PICK used \in Otp!Row : x1' = [x1 EXCEPT ![x7[r].row] = used]
                                 /\ used.attempts = x1[x7[r].row].attempts
      BY <3>2, <3>3, UsedCode
    <3> QED BY <1>0, <3>1, <3>4
  <2> QED BY <2>1, <2>2
<1>5. OtpCounted'
  <2>1. x7'[r] = new /\ \A o \in Requests : o # r => x7'[o] = x7[o]
    BY <1>0, <1>3
  <2>2. r \notin OtpSending'
    BY <1>3, <2>1 DEF OtpSending
  <2>3. Cardinality(OtpSending') \in Nat /\ Cardinality(OtpSending') <= Cardinality(OtpSending)
    BY <2>1, <2>2, SendingSteps
  <2> QED BY <1>0, <1>1, <2>3 DEF OtpCounted
<1>6. /\ x7[r].pc # "miss" /\ new.pc # "miss" /\ new.pc \notin {"retire", "accept"}
      /\ x6' \in BOOLEAN /\ x2' \in 0 .. MaxSends /\ x5' \in Nat /\ (x6' = FALSE => x6 = FALSE)
  BY <1>0, <1>1, <1>3
<1> QED BY <1>1, <1>2, <1>3, <1>4, <1>5, <1>6, OtpMoves

LEMMA CountMissKeeps == ASSUME OtpInv, NEW r \in Requests, Otp!CountMiss(r) PROVE OtpInv'
<1> PICK n \in Nat : OtpAt(n)
  BY DEF OtpInv
<1> USE OtpBounds
<1>0. /\ x2 \in 0 .. MaxSends /\ x5 \in Nat /\ x3 \in BOOLEAN
      /\ x6 \in BOOLEAN /\ x7 \in [Requests -> Otp!RequestType] /\ n \in 0 .. MaxOtps
      /\ x1 \in [1 .. n -> Otp!Row] /\ x4 \in [1 .. n -> Nat]
      /\ x5 + Cardinality(OtpSending) <= x2 /\ Cardinality(OtpSending) \in Nat
  BY OtpFacts DEF OtpAt, OtpTyped
<1>1. /\ x2' = x2 /\ x3' = x3 /\ x4' = x4 /\ x5' = x5 /\ x6' = x6 /\ x7[r].pc = "miss"
      /\ x7' = [x7 EXCEPT ![r] = Otp!Idle]
  BY DEF Otp!CountMiss, Otp!Finish
<1>2. PICK row \in 1 .. n : row = x7[r].row
  BY <1>1 DEF OtpAt, OtpTyped, Otp!Verifying
<1>3. x1' = [x1 EXCEPT ![row] = [x1[row] EXCEPT !.attempts = x7[r].attempts + 1]]
  BY <1>2 DEF Otp!CountMiss
<1>4. x1[row] \in Otp!Row /\ x7[r].attempts + 1 \in 0 .. OtpTries
  <2>1. x7[r] \in Otp!RequestType /\ x7[r].attempts < OtpTries
    BY <1>0, <1>1 DEF OtpAt, OtpTyped
  <2> QED BY <1>0, <2>1 DEF Otp!RequestType
<1>5. PICK new \in Otp!Row : x1' = [x1 EXCEPT ![row] = new] /\ new.attempts = x7[r].attempts + 1
  <2> DEFINE new == [x1[row] EXCEPT !.attempts = x7[r].attempts + 1]
  <2>1. new \in Otp!Row /\ new.attempts = x7[r].attempts + 1
    BY <1>4 DEF Otp!Row
  <2> QED BY <1>3, <2>1, Zenon
<1>6. x7'[r] = Otp!Idle /\ \A o \in Requests : o # r => x7'[o] = x7[o]
  BY <1>0, <1>1
<1>7. /\ x1' \in [1 .. n -> Otp!Row] /\ x1'[row] = new
      /\ \A i \in 1 .. n : i # row => x1'[i] = x1[i]
  BY <1>0, <1>5
<1>8. OtpTyped(n)'
  <2>1. x7' \in [Requests -> Otp!RequestType] /\ x2' \in 0 .. MaxSends /\ x5' \in Nat
        /\ x4' \in [1 .. n -> Nat]
    BY <1>0, <1>1, OtpIdle
  <2>2. \A o \in Requests :
          /\ Otp!Verifying(o)' => x7'[o].row \in 1 .. n
          /\ x7'[o].pc = "miss" => x7'[o].attempts < OtpTries
    BY <1>6, OtpIdle DEF OtpAt, OtpTyped, Otp!Verifying
  <2>3. x3' \in BOOLEAN /\ x6' \in BOOLEAN
    BY <1>0, <1>1
  <2> QED BY <1>0, <1>7, <2>1, <2>2, <2>3, Zenon DEF OtpTyped
<1>9. OtpCounted'
  <2>1. r \notin OtpSending'
    BY <1>6, OtpIdle DEF OtpSending
  <2>2. Cardinality(OtpSending') \in Nat /\ Cardinality(OtpSending') <= Cardinality(OtpSending)
    BY <1>6, <2>1, SendingSteps
  <2> QED BY <1>0, <1>1, <2>2 DEF OtpCounted
<1>10. ASSUME x6' = FALSE PROVE OtpInTurn(n)'
  <2>1. OtpInTurn(n)
    BY <1>1, <1>10 DEF OtpAt
  <2>2. \A o \in Requests : ~Otp!Verifying(o)' /\ x7'[o].pc # "miss" /\ (o # r => x7[o].pc # "miss")
    BY <1>1, <1>6, <2>1, OtpIdle DEF OtpInTurn, Otp!Verifying
  <2>3. ASSUME NEW i \in 1 .. n PROVE x4'[i] = x1'[i].attempts
    <3>1. CASE i = row
      BY <1>1, <1>2, <1>5, <1>7, <2>1, <3>1 DEF OtpInTurn
    <3>2. CASE i # row
      <4>1. x4[i] = x1[i].attempts
        BY <1>2, <2>1, <2>2, <3>2 DEF OtpInTurn
      <4> QED BY <1>1, <1>7, <3>2, <4>1
    <3> QED BY <3>1, <3>2
  <2> QED BY <2>2, <2>3 DEF OtpInTurn
<1> QED BY <1>8, <1>9, <1>10 DEF OtpAt, OtpInv

LEMMA PassExpiryKeeps == ASSUME OtpInv, NEW i \in DOMAIN x1, Otp!PassExpiry(i) PROVE OtpInv'
<1> PICK n \in Nat : OtpAt(n)
  BY DEF OtpInv
<1>0. x1 \in [1 .. n -> Otp!Row] /\ i \in 1 .. n
  BY OtpFacts
<1>1. x2' = x2 /\ x3' = x3 /\ x4' = x4 /\ x5' = x5 /\ x6' = x6 /\ x7' = x7
  BY DEF Otp!PassExpiry
<1>2. x1' = [x1 EXCEPT ![i] = [x1[i] EXCEPT !.overdue = TRUE]] /\ x1[i] \in Otp!Row
  BY <1>0 DEF Otp!PassExpiry
<1>3. PICK new \in Otp!Row : x1' = [x1 EXCEPT ![i] = new] /\ new.attempts = x1[i].attempts
  BY <1>2, UsedCode
<1>4. x1' \in [1 .. n -> Otp!Row] /\ \A j \in 1 .. n : x1'[j].attempts = x1[j].attempts
  BY <1>0, <1>3
<1>5. OtpTyped(n)' /\ OtpCounted'
  BY <1>1, <1>4 DEF OtpAt, OtpTyped, OtpCounted, OtpSending, Otp!Verifying
<1>6. x6' = FALSE => OtpInTurn(n)'
  <2> SUFFICES ASSUME x6 = FALSE PROVE OtpInTurn(n)'
    BY <1>1
  <2>1. OtpInTurn(n) /\ \A r \in Requests : x7[r].pc = "miss" => x7[r].row \in 1 .. n
    BY DEF OtpAt, OtpTyped, Otp!Verifying
  <2> QED BY <1>1, <1>4, <2>1 DEF OtpInTurn, Otp!Verifying
<1> QED BY <1>5, <1>6 DEF OtpAt, OtpInv

\* The window ends for the requests under way, or all of them end.
LEMMA WindowsKeep == ASSUME OtpInv, Otp!WindowEnds \/ Otp!Restart PROVE OtpInv'
<1> PICK n \in Nat : OtpAt(n)
  BY DEF OtpInv
<1> USE OtpBounds
<1>0. x6 \in BOOLEAN /\ x7 \in [Requests -> Otp!RequestType]
  BY OtpFacts DEF OtpAt, OtpTyped
<1>1. x1' = x1 /\ x3' = x3 /\ x4' = x4 /\ x2' = 0 /\ x5' = 0
  BY DEF Otp!WindowEnds, Otp!Restart
<1>2. /\ x6' \in BOOLEAN /\ (x6' = FALSE => x6 = FALSE)
      /\ Otp!Restart /\ x6' = FALSE => \A o \in Requests : x7[o].pc # "miss"
  BY <1>0, Zenon DEF Otp!WindowEnds, Otp!Restart
<1>3. /\ x7' \in [Requests -> Otp!RequestType]
      /\ \A o \in Requests :
           /\ x7'[o].pc \in {"invalidate", "insert"} => x7'[o].now = FALSE
           /\ x7'[o].pc \notin {"idle", "invalidate", "insert"} => x7'[o] = x7[o]
      /\ Otp!Restart \/ \A o \in Requests : x7'[o].pc = x7[o].pc
  <2>1. CASE Otp!Restart
    BY <2>1, OtpIdle DEF Otp!Restart
  <2>2. CASE Otp!WindowEnds
    <3>1. x7' = [o \in Requests |->
             IF x7[o].pc \in {"invalidate", "insert"} THEN [x7[o] EXCEPT !.now = FALSE] ELSE x7[o]]
      BY <2>2 DEF Otp!WindowEnds
    <3>2. ASSUME NEW o \in Requests
          PROVE  /\ x7'[o] \in Otp!RequestType /\ x7'[o].pc = x7[o].pc
                 /\ x7[o].pc \in {"invalidate", "insert"} => x7'[o].now = FALSE
                 /\ x7[o].pc \notin {"invalidate", "insert"} => x7'[o] = x7[o]
      <4> DEFINE new == [x7[o] EXCEPT !.now = FALSE]
      <4>1. new \in Otp!RequestType /\ new.pc = x7[o].pc
        BY <1>0 DEF Otp!RequestType
      <4>2. new.now = FALSE
        BY <1>0, Zenon DEF Otp!RequestType
      <4>3. /\ x7[o].pc \in {"invalidate", "insert"} => x7'[o] = new
            /\ x7[o].pc \notin {"invalidate", "insert"} => x7'[o] = x7[o]
        BY <3>1
      <4> HIDE DEF new
      <4>4. x7[o] \in Otp!RequestType
        BY <1>0
      <4> QED BY <4>1, <4>2, <4>3, <4>4, Zenon
    <3>3. x7' \in [Requests -> Otp!RequestType]
      BY <3>1, <3>2
    <3> QED BY <3>2, <3>3
  <2> QED BY <2>1, <2>2
<1>4. OtpSending' = {}
  BY <1>3 DEF OtpSending
<1>5. OtpCounted'
  BY <1>1, <1>4, FS_EmptySet DEF OtpCounted
<1>6. OtpTyped(n)'
  <2>1. \A o \in Requests :
          /\ Otp!Verifying(o)' => x7'[o].row \in 1 .. n
          /\ x7'[o].pc = "miss" => x7'[o].attempts < OtpTries
    BY <1>3 DEF OtpAt, OtpTyped, Otp!Verifying
  <2>2. /\ x2' \in 0 .. MaxSends /\ x5' \in Nat /\ n \in 0 .. MaxOtps /\ x1' \in [1 .. n -> Otp!Row]
        /\ x4' \in [1 .. n -> Nat] /\ x3' \in BOOLEAN
    BY <1>1 DEF OtpAt, OtpTyped
  <2> QED BY <1>2, <1>3, <2>1, <2>2, Zenon DEF OtpTyped
<1>7. ASSUME x6' = FALSE PROVE OtpInTurn(n)'
  <2>1. OtpInTurn(n)
    BY <1>2, <1>7 DEF OtpAt
  <2>2. \A o \in Requests : x7'[o].pc = "miss" => x7'[o] = x7[o]
    BY <1>3
  <2>3. \A p, q \in Requests : p # q => ~Otp!Verifying(p)' \/ ~Otp!Verifying(q)'
    BY <1>3, <2>1 DEF OtpInTurn, Otp!Verifying
  <2>4. \A o \in Requests : x7[o].pc = "miss" => x7'[o].pc = "miss"
    BY <1>2, <1>3, <1>7
  <2> QED BY <1>1, <2>1, <2>2, <2>3, <2>4 DEF OtpInTurn
<1> QED BY <1>5, <1>6, <1>7 DEF OtpAt, OtpInv

LEMMA OtpInductive == OtpInv /\ [Otp!Next]_(Otp!vars) => OtpInv'
<1> SUFFICES ASSUME OtpInv, [Otp!Next]_(Otp!vars) PROVE OtpInv'
  OBVIOUS
<1>1. CASE UNCHANGED Otp!vars
  BY <1>1 DEF Otp!vars, OtpInv, OtpAt, OtpTyped, OtpCounted, OtpSending, OtpInTurn, Otp!Verifying
<1>2. ASSUME NEW r \in Requests,
             \/ Otp!StartSend(r) \/ Otp!Invalidate(r) \/ Otp!InsertOtp(r)
             \/ Otp!ReadOtp(r) \/ Otp!RetireOtp(r) \/ Otp!CountMiss(r) \/ Otp!AcceptOtp(r)
             \/ Otp!VerifyUser(r)
      PROVE  OtpInv'
  BY <1>2, SendsKeep, InsertOtpKeeps, ReadOtpKeeps, VerificationsKeep, CountMissKeeps
<1>3. ASSUME NEW i \in DOMAIN x1, Otp!PassExpiry(i) PROVE OtpInv'
  BY <1>3, PassExpiryKeeps
<1>4. CASE Otp!WindowEnds \/ Otp!Restart
  BY <1>4, WindowsKeep
<1> QED BY <1>1, <1>2, <1>3, <1>4 DEF Otp!Next

LEMMA OtpMeans == OtpInv => Otp!TypeOK /\ Otp!LimitsHold
<1> SUFFICES ASSUME OtpInv PROVE Otp!TypeOK /\ Otp!LimitsHold
  OBVIOUS
<1> PICK n \in Nat : OtpAt(n)
  BY DEF OtpInv
<1>0. /\ n \in 0 .. MaxOtps /\ x1 \in [1 .. n -> Otp!Row] /\ x4 \in [1 .. n -> Nat]
      /\ x2 \in 0 .. MaxSends /\ x5 \in Nat /\ x3 \in BOOLEAN /\ x6 \in BOOLEAN
      /\ x7 \in [Requests -> Otp!RequestType]
  BY DEF OtpAt, OtpTyped
<1>1. Otp!TypeOK
  BY <1>0, Zenon DEF Otp!TypeOK
<1>2. x5 <= MaxSends
  BY <1>0, OtpFacts, OtpBounds
<1>3. ASSUME x6 = FALSE, NEW i \in 1 .. n PROVE x4[i] <= OtpTries
  <2>1. OtpInTurn(n)
    BY <1>3 DEF OtpAt
  <2>2. CASE \E r \in Requests : x7[r].pc = "miss" /\ x7[r].row = i
    <3>1. PICK r \in Requests : x7[r].pc = "miss" /\ x7[r].row = i
      BY <2>2
    <3>2. x4[i] = x7[r].attempts + 1 /\ x7[r].attempts < OtpTries
      BY <2>1, <3>1 DEF OtpInTurn, OtpAt, OtpTyped
    <3>3. x7[r].attempts \in 0 .. OtpTries
      BY <1>0 DEF Otp!RequestType
    <3> QED BY <3>2, <3>3, OtpBounds
  <2>3. CASE \A r \in Requests : x7[r].pc = "miss" => x7[r].row # i
    <3>1. x4[i] = x1[i].attempts /\ x1[i].attempts \in 0 .. OtpTries
      BY <1>0, <2>1, <2>3 DEF OtpInTurn, Otp!Row
    <3> QED BY <3>1, OtpBounds
  <2> QED BY <2>2, <2>3
<1>4. DOMAIN x4 = 1 .. n
  BY <1>0
<1>5. Otp!LimitsHold
  BY <1>0, <1>2, <1>3, <1>4, Zenon DEF Otp!LimitsHold
<1> QED BY <1>1, <1>5

------------------------------------------------------------------------------
(***************************************************************************)
(* AccountStatus: x1, x2 and x3 say whether the account is banned,         *)
(* suspended and past its suspension, x4 is the log, x5 says whether       *)
(* handlers overlapped, x6 are the handlers.  If they did not, what the    *)
(* one under way has checked still holds, and the log lacks no row but its *)
(* own.  x7 is the cached copy, x8 the checks, x9 the time since the last  *)
(* write: a copy that is not old tells the row, and an old one has no more *)
(* left than a lifetime less that time.                                    *)
(***************************************************************************)
StatusTypes ==
  /\ x4 \in [ban : {"none", "ban", "unban"}, suspension : {"none", "suspend", "unsuspend"}]
  /\ x6 \in [Requests -> Account!RequestType]
  /\ \A r \in Requests :
       /\ x6[r].pc # "idle" => x6[r].action # "none"
       /\ x6[r].pc = "log" => x6[r].action # "lapse"
StatusFlags == x1 \in BOOLEAN /\ x2 \in BOOLEAN /\ x3 \in BOOLEAN /\ x5 \in BOOLEAN

Banning == {"ban", "unban"}
Suspending == {"suspend", "unsuspend"}
StatusInTurn ==
  /\ \A p, q \in Requests : p # q => x6[p].pc = "idle" \/ x6[q].pc = "idle"
  /\ x1 = FALSE \/ x2 = FALSE
  /\ \A r \in Requests :
       /\ x6[r].pc = "write" =>
            /\ x6[r].action = "unban" => x1 = TRUE
            /\ x6[r].action = "suspend" => x1 = FALSE
            /\ x6[r].action \in {"unsuspend", "lapse"} => x2 = TRUE
       /\ x6[r].pc = "log" =>
            /\ x6[r].action = "ban" => x1 = TRUE
            /\ x6[r].action = "unban" => x1 = FALSE
            /\ x6[r].action = "unsuspend" => x2 = FALSE
  /\ (\A r \in Requests : x6[r].pc = "log" => x6[r].action \in Suspending) =>
       (x1 = TRUE <=> x4.ban = "ban")
  /\ (\A r \in Requests : x6[r].pc = "log" => x6[r].action \in Banning) =>
       (x2 = TRUE => x4.suspension = "suspend")

CopyType == [banned : BOOLEAN, suspended : BOOLEAN, old : BOOLEAN]
CacheType == [copy : CopyType, left : 0 .. CopyTtl]
CheckType == [pc : {"idle", "read", "store"}, copy : CopyType]
AccessTypes == x7 \in CacheType /\ x8 \in [Users -> CheckType] /\ x9 \in 0 .. CopyTtl
Tells(copy) ==
  /\ copy.banned = TRUE <=> x1 = TRUE
  /\ copy.suspended = TRUE <=> x2 = TRUE /\ x3 = FALSE
AccessFresh ==
  /\ x7.left > 0 /\ x7.copy.old = FALSE => Tells(x7.copy)
  /\ \A c \in Users : x8[c].pc = "store" /\ x8[c].copy.old = FALSE => Tells(x8[c].copy)
AccessBound ==
  /\ x7.left > 0 /\ x7.copy.old = TRUE => x7.left + x9 <= CopyTtl
  /\ \A c \in Users : x8[c].copy.old = TRUE => x9 = 0

AccountInv ==
  /\ StatusTypes /\ StatusFlags /\ (x5 = FALSE => StatusInTurn)
  /\ AccessTypes /\ AccessFresh /\ AccessBound

LEMMA AccountBound == CopyTtl \in Nat \ {0}
BY PlatformAssumption DEF Account!ConstantsAssumption

LEMMA AccountIdle == Account!Idle \in Account!RequestType /\ Account!Idle.pc = "idle"
BY DEF Account!Idle, Account!RequestType

LEMMA NoCopyType ==
  /\ Account!NoCopy \in CopyType /\ Account!NoCopy.old = FALSE
  /\ Account!NoCopy.banned = FALSE /\ Account!NoCopy.suspended = FALSE
  /\ Account!Unchecked \in CheckType /\ Account!Unchecked.pc = "idle"
  /\ Account!Unchecked.copy = Account!NoCopy
<1>1. Account!NoCopy \in CopyType
  BY DEF Account!NoCopy, CopyType
<1>2. Account!NoCopy.old = FALSE /\ Account!NoCopy.banned = FALSE /\ Account!NoCopy.suspended = FALSE
  BY DEF Account!NoCopy
<1>3. Account!Unchecked \in CheckType /\ Account!Unchecked.pc = "idle"
      /\ Account!Unchecked.copy = Account!NoCopy
  BY <1>1 DEF Account!Unchecked, CheckType
<1> QED BY <1>1, <1>2, <1>3

LEMMA EndedCopy ==
  ASSUME NEW copy \in CopyType, NEW ends \in BOOLEAN
  PROVE  /\ Account!Ended(copy, ends) \in CopyType
         /\ Account!Ended(copy, ends).old = copy.old
         /\ Account!Ended(copy, ends).banned = copy.banned
         /\ ends = TRUE => Account!Ended(copy, ends).suspended = FALSE
         /\ ends = FALSE => Account!Ended(copy, ends).suspended = copy.suspended
<1> DEFINE s == copy.suspended /\ ~ends
<1>1. s \in BOOLEAN /\ copy.suspended \in BOOLEAN
  BY Zenon DEF CopyType
<1>2. Account!Ended(copy, ends) = [copy EXCEPT !.suspended = s]
  BY Zenon DEF Account!Ended
<1>3. (ends = TRUE => s = FALSE) /\ (ends = FALSE => s = copy.suspended)
  BY <1>1, Zenon
<1> HIDE DEF s
<1> QED BY <1>1, <1>2, <1>3 DEF CopyType

LEMMA AccountInitially == Account!Init => AccountInv
<1> SUFFICES ASSUME Account!Init PROVE AccountInv
  OBVIOUS
<1>1. StatusTypes
  BY AccountIdle DEF StatusTypes, Account!Init
<1>2. StatusFlags
  BY Zenon DEF StatusFlags, Account!Init
<1>3. StatusInTurn
  BY AccountIdle DEF StatusInTurn, Account!Init
<1>4. x7 = [copy |-> Account!NoCopy, left |-> 0] /\ x9 = 0 /\ x8 = [c \in Users |-> Account!Unchecked]
  BY DEF Account!Init
<1>5. AccessTypes /\ AccessFresh /\ AccessBound
  BY <1>4, NoCopyType, AccountBound DEF AccessTypes, AccessFresh, AccessBound, CacheType
<1> QED BY <1>1, <1>2, <1>3, <1>5 DEF AccountInv

------------------------------------------------------------------------------
\* The handlers of administrators

LEMMA ReadUserKeeps ==
  ASSUME AccountInv, NEW r \in Requests, Account!ReadUser(r)
  PROVE  StatusTypes' /\ StatusFlags' /\ (x5' = FALSE => StatusInTurn')
<1>0. StatusTypes /\ StatusFlags /\ (x5 = FALSE => StatusInTurn)
  BY DEF AccountInv
<1>1. PICK action \in Account!Actions \union {"lapse"} :
        Account!Allowed(action) /\ x6' = [x6 EXCEPT ![r] = [pc |-> "write", action |-> action]]
  BY DEF Account!ReadUser
<1>2. UNCHANGED <<x1, x2, x3, x4>> /\ x5' = (x5 \/ \E o \in Requests : x6[o] # Account!Idle)
  BY DEF Account!ReadUser, Account!account
<1>3. x5' \in BOOLEAN
  BY <1>2, Zenon
<1>4. x5' = FALSE => x5 = FALSE /\ \A o \in Requests : x6[o].pc = "idle"
  BY <1>0, <1>2, AccountIdle, Zenon DEF StatusFlags
<1>5. StatusTypes'
  <2> DEFINE new == [pc |-> "write", action |-> action]
  <2>1. new \in Account!RequestType /\ new.pc = "write" /\ new.action # "none"
    BY DEF Account!RequestType, Account!Actions
  <2>2. x6' = [x6 EXCEPT ![r] = new]
    BY <1>1
  <2> HIDE DEF new
  <2> QED BY <2>1, <2>2, <1>0, <1>2 DEF StatusTypes
<1>6. StatusFlags'
  BY <1>0, <1>2, <1>3, Zenon DEF StatusFlags
<1>7. /\ action = "unban" => x1 = TRUE
      /\ action = "suspend" => x1 = FALSE
      /\ action \in {"unsuspend", "lapse"} => x2 = TRUE
  <2>1. action = "unban" => x1 = TRUE
    BY <1>0, <1>1, Zenon DEF Account!Allowed, StatusFlags
  <2>2. action = "suspend" => x1 = FALSE
    BY <1>0, <1>1 DEF Account!Allowed, StatusFlags
  <2>3. action \in {"unsuspend", "lapse"} => x2 = TRUE
    BY <1>0, <1>1 DEF Account!Allowed, StatusFlags
  <2> QED BY <2>1, <2>2, <2>3
<1>8. x5' = FALSE => StatusInTurn'
  <2> SUFFICES ASSUME x5' = FALSE PROVE StatusInTurn'
    OBVIOUS
  <2>1. StatusInTurn /\ \A o \in Requests : x6[o].pc = "idle"
    BY <1>0, <1>4
  <2>2. x6'[r].pc = "write" /\ x6'[r].action = action /\ action # "none"
        /\ \A o \in Requests \ {r} : x6'[o].pc = "idle"
    BY <1>0, <1>1, <2>1 DEF StatusTypes, Account!Actions
  <2> QED BY <2>1, <2>2, <1>7, <1>2 DEF StatusInTurn
<1> QED BY <1>5, <1>6, <1>8

LEMMA WriteUserKeeps ==
  ASSUME AccountInv, NEW r \in Requests, Account!WriteUser(r)
  PROVE  StatusTypes' /\ StatusFlags' /\ (x5' = FALSE => StatusInTurn')
<1>0. StatusTypes /\ StatusFlags /\ (x5 = FALSE => StatusInTurn)
  BY DEF AccountInv
<1> DEFINE action == x6[r].action
           new == IF action = "lapse" THEN Account!Idle ELSE [pc |-> "log", action |-> action]
<1>1. x6[r].pc = "write" /\ x6' = [x6 EXCEPT ![r] = new] /\ UNCHANGED <<x4, x5>>
  BY DEF Account!WriteUser
<1>2. Account!Apply(action)
  BY DEF Account!WriteUser
<1>3. action \in Account!Actions \union {"none", "lapse"}
  BY <1>0 DEF StatusTypes, Account!RequestType
<1>4. StatusFlags'
  BY <1>0, <1>1, <1>2, Zenon DEF StatusFlags, Account!Apply
<1>5. new \in Account!RequestType
  BY <1>3, AccountIdle DEF Account!RequestType
<1>6. StatusTypes'
  <2>1. new.pc # "idle" => new.action # "none" /\ new.action # "lapse"
    BY <1>0, <1>1, AccountIdle DEF StatusTypes
  <2> HIDE DEF new
  <2> QED BY <2>1, <1>0, <1>1, <1>5 DEF StatusTypes
<1>7. /\ action = "ban" => x1' = TRUE /\ x2' = FALSE
      /\ action = "unban" => x1' = FALSE /\ x2' = x2
      /\ action = "suspend" => x1' = x1 /\ x2' = TRUE
      /\ action \in {"unsuspend", "lapse"} => x1' = x1 /\ x2' = FALSE
  BY <1>2 DEF Account!Apply
<1>8. x5' = FALSE => StatusInTurn'
  <2> SUFFICES ASSUME x5' = FALSE PROVE StatusInTurn'
    OBVIOUS
  <2>1. StatusInTurn
    BY <1>0, <1>1
  <2>2. \A o \in Requests \ {r} : x6'[o] = x6[o] /\ x6[o].pc = "idle"
    BY <1>0, <1>1, <2>1 DEF StatusTypes, StatusInTurn
  <2>3. x6'[r] = new
    BY <1>0, <1>1 DEF StatusTypes
  <2>4. /\ action = "lapse" => x6'[r].pc = "idle"
        /\ action # "lapse" => x6'[r].pc = "log" /\ x6'[r].action = action
    BY <2>3, AccountIdle
  <2>5. action # "none" /\ (action = "unban" => x1 = TRUE) /\ (action = "suspend" => x1 = FALSE)
    BY <1>0, <1>1, <2>1 DEF StatusInTurn, StatusTypes
  <2>6. /\ x1 = TRUE <=> x4.ban = "ban"
        /\ x2 = TRUE => x4.suspension = "suspend"
        /\ x1 = FALSE \/ x2 = FALSE
    BY <1>1, <2>1, <2>2 DEF StatusInTurn
  <2> HIDE DEF action, new
  <2>7. action \in {"ban", "unban", "suspend", "unsuspend", "lapse"}
    BY <1>3, <2>5 DEF Account!Actions
  <2> QED BY <1>1, <1>7, <2>2, <2>4, <2>5, <2>6, <2>7
           DEF StatusInTurn, Banning, Suspending
<1> QED BY <1>4, <1>6, <1>8

LEMMA WriteLogKeeps ==
  ASSUME AccountInv, NEW r \in Requests, Account!WriteLog(r)
  PROVE  StatusTypes' /\ StatusFlags' /\ (x5' = FALSE => StatusInTurn')
<1>0. StatusTypes /\ StatusFlags /\ (x5 = FALSE => StatusInTurn)
  BY DEF AccountInv
<1> DEFINE action == x6[r].action
<1>1. x6[r].pc = "log" /\ x6' = [x6 EXCEPT ![r] = Account!Idle] /\ UNCHANGED <<x1, x2, x3, x5>>
  BY DEF Account!WriteLog, Account!account
<1>2. x4' = IF action \in Banning THEN [x4 EXCEPT !.ban = action] ELSE [x4 EXCEPT !.suspension = action]
  BY DEF Account!WriteLog, Banning
<1>3. StatusFlags'
  BY <1>0, <1>1, Zenon DEF StatusFlags
<1>4. \A o \in Requests \ {r} : x6'[o] = x6[o]
  BY <1>0, <1>1 DEF StatusTypes
<1>5. x6'[r].pc = "idle" /\ x6' \in [Requests -> Account!RequestType]
  BY <1>0, <1>1, AccountIdle DEF StatusTypes
<1>6. x5' = FALSE => StatusInTurn'
  <2> SUFFICES ASSUME x5' = FALSE PROVE StatusInTurn'
    OBVIOUS
  <2>1. StatusInTurn
    BY <1>0, <1>1
  <2>2. \A o \in Requests \ {r} : x6[o].pc = "idle"
    BY <1>1, <2>1 DEF StatusInTurn
  <2>3. action \in {"ban", "unban", "suspend", "unsuspend"}
    BY <1>0, <1>1, <2>1 DEF StatusInTurn, StatusTypes, Account!RequestType, Account!Actions
  <2>4. CASE action \in Banning
    <3>1. x4'.ban = action /\ x4'.suspension = x4.suspension
      BY <1>0, <1>2, <2>4 DEF StatusTypes
    <3>2. x2 = TRUE => x4.suspension = "suspend"
      BY <1>1, <2>1, <2>2, <2>4 DEF StatusInTurn
    <3>3. x1 = TRUE <=> action = "ban"
      BY <1>0, <1>1, <2>1, <2>4 DEF StatusInTurn, Banning
    <3> QED BY <3>1, <3>2, <3>3, <1>1, <1>4, <1>5, <2>1, <2>2 DEF StatusInTurn
  <2>5. CASE action \notin Banning
    <3>1. x4'.suspension = action /\ x4'.ban = x4.ban /\ action \in Suspending
      BY <1>0, <1>2, <2>5, <2>3 DEF StatusTypes, Banning, Suspending
    <3>2. x1 = TRUE <=> x4.ban = "ban"
      BY <1>1, <2>1, <2>2, <3>1 DEF StatusInTurn
    <3>3. x2 = TRUE => action = "suspend"
      BY <1>0, <1>1, <2>1, <3>1 DEF StatusInTurn, Suspending
    <3> QED BY <3>1, <3>2, <3>3, <1>1, <1>4, <1>5, <2>1, <2>2 DEF StatusInTurn
  <2> QED BY <2>4, <2>5
<1>7. StatusTypes'
  <2>1. x6[r] \in Account!RequestType
    BY <1>0 DEF StatusTypes
  <2>2. action \in {"ban", "unban", "suspend", "unsuspend"}
    BY <2>1, <1>0, <1>1 DEF Account!RequestType, Account!Actions, StatusTypes
  <2>3. x4' \in [ban : {"none", "ban", "unban"}, suspension : {"none", "suspend", "unsuspend"}]
    BY <2>2, <1>0, <1>2 DEF StatusTypes, Banning
  <2>4. \A o \in Requests : x6'[o].pc # "idle" => x6'[o] = x6[o]
    BY <1>4, <1>5
  <2> QED BY <2>3, <2>4, <1>0, <1>5 DEF StatusTypes
<1> QED BY <1>3, <1>6, <1>7

LEMMA AbortKeeps ==
  ASSUME AccountInv, NEW r \in Requests, Account!Abort(r)
  PROVE  StatusTypes' /\ StatusFlags' /\ (x5' = FALSE => StatusInTurn')
<1>0. StatusTypes /\ StatusFlags /\ (x5 = FALSE => StatusInTurn)
  BY DEF AccountInv
<1>1. x6' = [x6 EXCEPT ![r] = Account!Idle] /\ UNCHANGED <<x1, x2, x3, x4>>
      /\ x5' = (x5 \/ x6[r].pc = "log")
  BY DEF Account!Abort, Account!account
<1>2. x5' \in BOOLEAN
  BY <1>1, Zenon
<1>3. x5' = FALSE => x5 = FALSE /\ x6[r].pc # "log"
  BY <1>0, <1>1, Zenon DEF StatusFlags
<1>4. StatusFlags'
  BY <1>0, <1>1, <1>2, Zenon DEF StatusFlags
<1>5. x6'[r].pc = "idle" /\ \A o \in Requests \ {r} : x6'[o] = x6[o]
  BY <1>0, <1>1, AccountIdle DEF StatusTypes
<1>6. StatusTypes'
  BY <1>0, <1>1, <1>5, AccountIdle DEF StatusTypes
<1>7. x5' = FALSE => StatusInTurn'
  BY <1>0, <1>1, <1>3, <1>5 DEF StatusInTurn
<1> QED BY <1>4, <1>6, <1>7

LEMMA TimePassesKeeps ==
  ASSUME AccountInv, Account!TimePasses
  PROVE  StatusTypes' /\ StatusFlags' /\ (x5' = FALSE => StatusInTurn')
<1>1. UNCHANGED <<x1, x2, x4, x5, x6>> /\ x3' = TRUE
  BY DEF Account!TimePasses
<1> QED BY <1>1 DEF AccountInv, StatusTypes, StatusFlags, StatusInTurn

------------------------------------------------------------------------------
\* The copies

\* A write makes every copy old.
LEMMA OutdateKeeps ==
  ASSUME AccountInv, Account!Outdate
  PROVE  AccessTypes' /\ AccessFresh' /\ AccessBound'
<1>0. AccessTypes
  BY DEF AccountInv
<1> DEFINE old == x7.left > 0
<1>1. old \in BOOLEAN
  OBVIOUS
<1>2. x7' = [x7 EXCEPT !.copy.old = old] /\ x9' = 0
  BY DEF Account!Outdate
<1>3. \A v \in BOOLEAN : x7' = [x7 EXCEPT !.copy.old = v] =>
        x7' \in CacheType /\ x7'.left = x7.left /\ x7'.copy.old = v
  BY <1>0 DEF AccessTypes, CacheType, CopyType
<1>4. x7' \in CacheType /\ x7'.left = x7.left /\ x7'.copy.old = old
  BY <1>1, <1>2, <1>3, Zenon
<1>5. ASSUME NEW c \in Users
      PROVE  /\ x8'[c] \in CheckType /\ x8'[c].pc = x8[c].pc
             /\ x8[c].pc = "store" => x8'[c].copy.old = TRUE
  <2> DEFINE mark == x8[c].pc = "store"
  <2>1. x8'[c] = [x8[c] EXCEPT !.copy.old = mark] /\ mark \in BOOLEAN
    BY DEF Account!Outdate
  <2>2. x8[c] \in CheckType
    BY <1>0 DEF AccessTypes
  <2>3. \A v \in BOOLEAN : x8'[c] = [x8[c] EXCEPT !.copy.old = v] =>
          x8'[c] \in CheckType /\ x8'[c].pc = x8[c].pc /\ x8'[c].copy.old = v
    BY <2>2 DEF CheckType, CopyType
  <2> QED BY <2>1, <2>3, Zenon
<1>6. x8' \in [Users -> CheckType]
  <2>1. x8' = [c \in Users |-> [x8[c] EXCEPT !.copy.old = x8[c].pc = "store"]]
    BY DEF Account!Outdate
  <2> QED BY <2>1, <1>5
<1>7. x7.left > 0 => x7'.copy.old = TRUE
  BY <1>4, Zenon
<1>8. AccessTypes'
  BY <1>2, <1>4, <1>6, AccountBound DEF AccessTypes
<1>9. AccessFresh'
  <2>1. \A c \in Users : x8'[c].pc = "store" => x8'[c].copy.old = TRUE
    BY <1>5
  <2>2. x7'.left > 0 => x7'.copy.old = TRUE
    BY <1>4, <1>7
  <2> QED BY <2>1, <2>2 DEF AccessFresh
<1>10. AccessBound'
  <2>1. x7'.left + x9' <= CopyTtl
    BY <1>0, <1>2, <1>4, AccountBound DEF AccessTypes, CacheType
  <2> QED BY <1>2, <2>1 DEF AccessBound
<1> QED BY <1>8, <1>9, <1>10

\* Copies, each of which ends with its own suspension.
LEMMA EndingsKeep ==
  ASSUME AccessTypes, AccessFresh, AccessBound, x1' = x1, x2' = x2, x9' = x9,
         NEW e \in BOOLEAN, NEW f \in [Users -> BOOLEAN],
         x7' = [x7 EXCEPT !.copy = Account!Ended(@, e)],
         x8' = [c \in Users |-> [x8[c] EXCEPT !.copy = Account!Ended(@, f[c])]],
         \/ x3' = x3 /\ (x7.copy.old = FALSE => e = FALSE)
            /\ \A c \in Users : x8[c].copy.old = FALSE => f[c] = FALSE
         \/ x2 = TRUE /\ x3 = FALSE /\ x3' = TRUE /\ (x7.copy.old = FALSE => e = TRUE)
            /\ \A c \in Users : x8[c].copy.old = FALSE => f[c] = TRUE
  PROVE  AccessTypes' /\ AccessFresh' /\ AccessBound'
<1>1. x7.copy \in CopyType /\ \A c \in Users : x8[c].copy \in CopyType /\ x8[c] \in CheckType
  BY DEF AccessTypes, CacheType, CheckType
<1>2. /\ x7' \in CacheType /\ x7'.left = x7.left /\ x7'.copy = Account!Ended(x7.copy, e)
  BY <1>1, EndedCopy DEF AccessTypes, CacheType
<1>a. \A copy \in CopyType, ends \in BOOLEAN :
         /\ Account!Ended(copy, ends) \in CopyType
         /\ Account!Ended(copy, ends).old = copy.old
         /\ Account!Ended(copy, ends).banned = copy.banned
         /\ ends = TRUE => Account!Ended(copy, ends).suspended = FALSE
         /\ ends = FALSE => Account!Ended(copy, ends).suspended = copy.suspended
  BY EndedCopy, Zenon
<1>3. \A c \in Users : x8'[c] \in CheckType /\ x8'[c].pc = x8[c].pc
                       /\ x8'[c].copy = Account!Ended(x8[c].copy, f[c])
  <2> SUFFICES ASSUME NEW c \in Users
               PROVE  x8'[c] \in CheckType /\ x8'[c].pc = x8[c].pc
                      /\ x8'[c].copy = Account!Ended(x8[c].copy, f[c])
    OBVIOUS
  <2> DEFINE copy == Account!Ended(x8[c].copy, f[c])
  <2>1. f[c] \in BOOLEAN
    BY Zenon
  <2>2. copy \in CopyType
    BY <1>1, <1>a, <2>1, Zenon
  <2>3. x8'[c] = [x8[c] EXCEPT !.copy = copy]
    OBVIOUS
  <2> HIDE DEF copy
  <2>4. x8'[c] \in CheckType /\ x8'[c].pc = x8[c].pc /\ x8'[c].copy = copy
    BY <1>1, <2>2, <2>3 DEF CheckType
  <2> QED BY <2>4, Zenon DEF copy
<1>4. x8' \in [Users -> CheckType]
  BY <1>3
<1>5. x7'.copy.old = x7.copy.old /\ x7'.copy.banned = x7.copy.banned
      /\ (e = TRUE => x7'.copy.suspended = FALSE)
      /\ (e = FALSE => x7'.copy.suspended = x7.copy.suspended)
  <2> DEFINE copy == Account!Ended(x7.copy, e)
  <2>1. /\ copy.old = x7.copy.old /\ copy.banned = x7.copy.banned
        /\ (e = TRUE => copy.suspended = FALSE)
        /\ (e = FALSE => copy.suspended = x7.copy.suspended)
    BY <1>1, <1>a, Zenon
  <2>2. x7'.copy = copy
    BY <1>2
  <2> HIDE DEF copy
  <2> QED BY <2>1, <2>2
<1>6. \A c \in Users :
        x8'[c].copy.old = x8[c].copy.old /\ x8'[c].copy.banned = x8[c].copy.banned
        /\ (f[c] = TRUE => x8'[c].copy.suspended = FALSE)
        /\ (f[c] = FALSE => x8'[c].copy.suspended = x8[c].copy.suspended)
  <2> SUFFICES ASSUME NEW c \in Users
               PROVE  x8'[c].copy.old = x8[c].copy.old /\ x8'[c].copy.banned = x8[c].copy.banned
                      /\ (f[c] = TRUE => x8'[c].copy.suspended = FALSE)
                      /\ (f[c] = FALSE => x8'[c].copy.suspended = x8[c].copy.suspended)
    OBVIOUS
  <2> DEFINE copy == Account!Ended(x8[c].copy, f[c])
  <2>1. f[c] \in BOOLEAN
    BY Zenon
  <2>2. /\ copy.old = x8[c].copy.old /\ copy.banned = x8[c].copy.banned
        /\ (f[c] = TRUE => copy.suspended = FALSE)
        /\ (f[c] = FALSE => copy.suspended = x8[c].copy.suspended)
    <3>1. PICK d \in CopyType : d = x8[c].copy
      BY <1>1, Zenon
    <3>2. PICK t \in BOOLEAN : t = f[c]
      BY <2>1, Zenon
    <3>3. copy = Account!Ended(d, t)
      BY <3>1, <3>2, Zenon
    <3>4. /\ Account!Ended(d, t).old = d.old
          /\ Account!Ended(d, t).banned = d.banned
          /\ t = TRUE => Account!Ended(d, t).suspended = FALSE
          /\ t = FALSE => Account!Ended(d, t).suspended = d.suspended
      BY <1>a, Zenon
    <3> HIDE DEF copy
    <3> QED BY <3>1, <3>2, <3>3, <3>4, Zenon
  <2>3. x8'[c].copy = copy
    BY <1>3
  <2> HIDE DEF copy
  <2> QED BY <2>2, <2>3
<1>7. AccessTypes'
  <2>1. x9' \in 0 .. CopyTtl
    BY DEF AccessTypes
  <2>2. x7' \in CacheType
    BY <1>2
  <2> QED BY <1>4, <2>1, <2>2, Zenon DEF AccessTypes
<1>8. AccessFresh'
  <2>1. x7'.left > 0 /\ x7'.copy.old = FALSE => Tells(x7.copy)'
    <3>1. CASE x3' = x3 /\ (x7.copy.old = FALSE => e = FALSE)
      BY <1>2, <1>5, <3>1 DEF AccessFresh, Tells
    <3>2. CASE x2 = TRUE /\ x3 = FALSE /\ x3' = TRUE /\ (x7.copy.old = FALSE => e = TRUE)
      BY <1>2, <1>5, <3>2 DEF AccessFresh, Tells
    <3> QED BY <3>1, <3>2
  <2>2. ASSUME NEW c \in Users, x8'[c].pc = "store", x8'[c].copy.old = FALSE
        PROVE  Tells(x8[c].copy)'
    <3>0. x8[c].pc = "store" /\ x8[c].copy.old = FALSE /\ Tells(x8[c].copy)
      BY <1>3, <1>6, <2>2 DEF AccessFresh
    <3>1. CASE x3' = x3 /\ f[c] = FALSE
      BY <1>6, <3>0, <3>1 DEF Tells
    <3>2. CASE x2 = TRUE /\ x3 = FALSE /\ x3' = TRUE /\ f[c] = TRUE
      BY <1>6, <3>0, <3>2 DEF Tells
    <3> QED BY <3>0, <3>1, <3>2
  <2> QED BY <2>1, <2>2 DEF AccessFresh
<1>9. AccessBound'
  BY <1>2, <1>3, <1>5, <1>6 DEF AccessBound
<1> QED BY <1>7, <1>8, <1>9

LEMMA CopiesKeep ==
  ASSUME AccountInv,
         \/ Account!TimePasses \/ Account!OldSuspensionEnds \/ Account!Tick
         \/ \E c \in Users : Account!MissCopy(c) \/ Account!ReadRow(c) \/ Account!StoreCopy(c)
  PROVE  AccessTypes' /\ AccessFresh' /\ AccessBound'
<1>0. AccessTypes /\ AccessFresh /\ AccessBound /\ StatusFlags
  BY DEF AccountInv
<1>a. \A c \in Users : x8[c] \in CheckType /\ x8[c].copy \in CopyType /\ x8[c].copy.old \in BOOLEAN
  BY <1>0 DEF AccessTypes, CheckType, CopyType
<1>b. x7.copy \in CopyType /\ x7.copy.old \in BOOLEAN
  BY <1>0 DEF AccessTypes, CacheType, CopyType
<1>1. CASE Account!TimePasses
  <2>1. /\ x1' = x1 /\ x2' = x2 /\ x9' = x9 /\ x3' = TRUE /\ x2 = TRUE /\ x3 = FALSE
    BY <1>0, <1>1, Zenon DEF Account!TimePasses, StatusFlags
  <2> DEFINE e == ~x7.copy.old
             f == [c \in Users |-> ~x8[c].copy.old]
  <2>2. e \in BOOLEAN /\ f \in [Users -> BOOLEAN]
        /\ (x7.copy.old = FALSE => e = TRUE) /\ \A c \in Users : x8[c].copy.old = FALSE => f[c] = TRUE
    BY Zenon
  <2>3. /\ x7' = [x7 EXCEPT !.copy = Account!Ended(@, e)]
        /\ x8' = [c \in Users |-> [x8[c] EXCEPT !.copy = Account!Ended(@, f[c])]]
    BY <1>1, Zenon DEF Account!TimePasses
  <2> HIDE DEF e, f
  <2> QED BY <1>0, <2>1, <2>2, <2>3, EndingsKeep
<1>2. CASE Account!OldSuspensionEnds
  <2>1. /\ x1' = x1 /\ x2' = x2 /\ x9' = x9 /\ x3' = x3
    BY <1>2, Zenon DEF Account!OldSuspensionEnds, Account!adminVars, Account!account
  <2> DEFINE e == x7.copy.old
             f == [c \in Users |-> x8[c].copy.old]
  <2>2. e \in BOOLEAN /\ f \in [Users -> BOOLEAN]
        /\ (x7.copy.old = FALSE => e = FALSE) /\ \A c \in Users : x8[c].copy.old = FALSE => f[c] = FALSE
    BY <1>a, <1>b, Zenon
  <2>3. /\ x7' = [x7 EXCEPT !.copy = Account!Ended(@, e)]
        /\ x8' = [c \in Users |-> [x8[c] EXCEPT !.copy = Account!Ended(@, f[c])]]
    BY <1>2, Zenon DEF Account!OldSuspensionEnds
  <2> HIDE DEF e, f
  <2> QED BY <1>0, <2>1, <2>2, <2>3, EndingsKeep
<1>3. CASE Account!Tick
  <2>1. /\ UNCHANGED <<x1, x2, x3>> /\ x8' = x8
    BY <1>3 DEF Account!Tick, Account!adminVars, Account!account
  <2> DEFINE left == Account!OneTickLess(x7.left)
  <2>2. x7' = [copy |-> IF left = 0 THEN Account!NoCopy ELSE x7.copy, left |-> left]
    BY <1>3 DEF Account!Tick
  <2>3. left \in 0 .. CopyTtl /\ (left > 0 => left = x7.left - 1 /\ x7.left > 0) /\ x7.left \in Nat
    BY <1>0, AccountBound DEF Account!OneTickLess, AccessTypes, CacheType
  <2> HIDE DEF left
  <2>4. x7' \in CacheType /\ x7'.left = left /\ (left > 0 => x7'.copy = x7.copy)
    BY <1>b, <2>2, <2>3, NoCopyType DEF CacheType
  <2>5. x9' = IF x9 = CopyTtl \/ \E c \in Users : x8[c].copy.old THEN x9 ELSE x9 + 1
    BY <1>3 DEF Account!Tick
  <2>6. CASE \E c \in Users : x8[c].copy.old
    <3>1. x9' = x9
      BY <2>5, <2>6
    <3> QED BY <1>0, <2>1, <2>3, <2>4, <3>1, AccountBound DEF AccessTypes, AccessFresh, AccessBound, Tells
  <2>7. CASE ~\E c \in Users : x8[c].copy.old
    <3>1. \A c \in Users : x8[c].copy.old = FALSE
      BY <2>7, <1>a, Zenon
    <3>2. x9' = IF x9 = CopyTtl THEN x9 ELSE x9 + 1
      BY <2>5, <2>7
    <3>3. x9' \in 0 .. CopyTtl /\ x9' <= x9 + 1 /\ x9 \in 0 .. CopyTtl
      BY <1>0, <3>2, AccountBound DEF AccessTypes
    <3>4. x9 = CopyTtl => x9' = x9
      BY <3>2
    <3>5. AccessFresh' /\ AccessTypes'
      <4>1. AccessTypes'
        BY <1>0, <2>1, <2>4, <3>3 DEF AccessTypes
      <4>2. AccessFresh'
        BY <1>0, <2>1, <2>3, <2>4 DEF AccessFresh, Tells
      <4> QED BY <4>1, <4>2
    <3>6. AccessBound'
      <4>1. \A c \in Users : x8'[c].copy.old = FALSE
        BY <2>1, <3>1
      <4>2. ASSUME left > 0, x7.copy.old = TRUE PROVE left + x9' <= CopyTtl
        <5>1. x7.left + x9 <= CopyTtl /\ left = x7.left - 1
          BY <1>0, <2>3, <4>2 DEF AccessBound
        <5> QED BY <5>1, <3>3, <2>3, AccountBound
      <4> QED BY <2>4, <4>1, <4>2 DEF AccessBound
    <3> QED BY <3>5, <3>6
  <2> QED BY <2>6, <2>7
<1>4. ASSUME NEW c \in Users, Account!MissCopy(c)
      PROVE  AccessTypes' /\ AccessFresh' /\ AccessBound'
  <2>1. /\ UNCHANGED <<x1, x2, x3, x7, x9>> /\ x8' = [x8 EXCEPT ![c].pc = "read"]
    BY <1>4 DEF Account!MissCopy, Account!adminVars, Account!account
  <2>2. x8'[c] \in CheckType /\ x8'[c].pc = "read" /\ x8'[c].copy = x8[c].copy
        /\ \A d \in Users \ {c} : x8'[d] = x8[d]
    BY <1>0, <1>a, <2>1 DEF AccessTypes, CheckType
  <2>3. x8' \in [Users -> CheckType]
    BY <1>0, <2>1, <2>2 DEF AccessTypes
  <2> QED BY <1>0, <2>1, <2>2, <2>3 DEF AccessTypes, AccessFresh, AccessBound, Tells
<1>5. ASSUME NEW c \in Users, Account!ReadRow(c)
      PROVE  AccessTypes' /\ AccessFresh' /\ AccessBound'
  <2> DEFINE s == x2 /\ ~x3
             copy == [banned |-> x1, suspended |-> s, old |-> FALSE]
  <2>1. /\ UNCHANGED <<x1, x2, x3, x7, x9>> /\ x8' = [x8 EXCEPT ![c] = [pc |-> "store", copy |-> copy]]
    BY <1>5 DEF Account!ReadRow, Account!adminVars, Account!account
  <2>2. s \in BOOLEAN /\ (s = TRUE <=> x2 = TRUE /\ x3 = FALSE)
    BY <1>0, Zenon DEF StatusFlags
  <2>3. copy.banned = x1 /\ copy.suspended = s /\ copy.old = FALSE
    OBVIOUS
  <2>4. copy \in CopyType
    <3>1. x1 \in BOOLEAN /\ FALSE \in BOOLEAN
      BY <1>0, Zenon DEF StatusFlags
    <3> HIDE DEF s
    <3> QED BY <3>1, <2>2, Zenon DEF CopyType
  <2> HIDE DEF copy, s
  <2>5. x8'[c] = [pc |-> "store", copy |-> copy] /\ \A d \in Users \ {c} : x8'[d] = x8[d]
    BY <1>0, <2>1 DEF AccessTypes
  <2>6. x8'[c].copy = copy /\ x8'[c] \in CheckType
    BY <2>4, <2>5 DEF CheckType
  <2>7. x8' \in [Users -> CheckType]
    BY <1>0, <2>1, <2>5, <2>6 DEF AccessTypes
  <2>8. AccessFresh'
    BY <1>0, <2>1, <2>2, <2>3, <2>5, <2>6 DEF AccessFresh, Tells
  <2>9. AccessBound'
    BY <1>0, <2>1, <2>3, <2>5, <2>6 DEF AccessBound
  <2> QED BY <1>0, <2>1, <2>7, <2>8, <2>9 DEF AccessTypes
<1>6. ASSUME NEW c \in Users, Account!StoreCopy(c)
      PROVE  AccessTypes' /\ AccessFresh' /\ AccessBound'
  <2>1. /\ UNCHANGED <<x1, x2, x3, x9>> /\ x8' = [x8 EXCEPT ![c] = Account!Unchecked]
        /\ x7' = [copy |-> x8[c].copy, left |-> CopyTtl] \/ x7' = x7
        /\ x8[c].pc = "store"
    BY <1>6 DEF Account!StoreCopy, Account!adminVars, Account!account
  <2>2. x8'[c].pc = "idle" /\ x8'[c].copy.old = FALSE /\ \A d \in Users \ {c} : x8'[d] = x8[d]
    BY <1>0, <2>1, NoCopyType DEF AccessTypes
  <2>3. x8' \in [Users -> CheckType]
    BY <1>0, <2>1, NoCopyType DEF AccessTypes
  <2>4. CASE x7' = x7
    BY <1>0, <2>1, <2>2, <2>3, <2>4 DEF AccessTypes, AccessFresh, AccessBound, Tells
  <2>5. CASE x7' = [copy |-> x8[c].copy, left |-> CopyTtl]
    <3>1. x7' \in CacheType /\ x7'.copy = x8[c].copy /\ x7'.left = CopyTtl
      BY <1>a, <2>5, AccountBound DEF CacheType
    <3>2. AccessFresh'
      BY <1>0, <2>1, <2>2, <3>1 DEF AccessFresh, Tells
    <3>3. AccessBound'
      BY <1>0, <2>1, <2>2, <3>1, AccountBound DEF AccessBound
    <3> QED BY <1>0, <2>1, <2>3, <3>1, <3>2, <3>3 DEF AccessTypes
  <2> QED BY <2>1, <2>4, <2>5
<1> QED BY <1>1, <1>2, <1>3, <1>4, <1>5, <1>6

LEMMA AccountInductive == AccountInv /\ [Account!Next]_(Account!vars) => AccountInv'
<1> SUFFICES ASSUME AccountInv, [Account!Next]_(Account!vars) PROVE AccountInv'
  OBVIOUS
<1>0. AccessTypes /\ AccessFresh /\ AccessBound /\ StatusTypes /\ StatusFlags /\ (x5 = FALSE => StatusInTurn)
  BY DEF AccountInv
<1>1. ASSUME UNCHANGED Account!account, UNCHANGED Account!cacheVars
      PROVE  AccessTypes' /\ AccessFresh' /\ AccessBound'
  BY <1>0, <1>1 DEF Account!account, Account!cacheVars, AccessTypes, AccessFresh, AccessBound, Tells
<1>2. ASSUME UNCHANGED Account!adminVars
      PROVE  StatusTypes' /\ StatusFlags' /\ (x5' = FALSE => StatusInTurn')
  BY <1>0, <1>2 DEF Account!account, Account!adminVars, StatusTypes, StatusFlags, StatusInTurn
<1>3. ASSUME NEW r \in Requests, Account!ReadUser(r) PROVE AccountInv'
  BY <1>1, <1>3, ReadUserKeeps DEF Account!ReadUser, AccountInv
<1>4. ASSUME NEW r \in Requests, Account!WriteUser(r) PROVE AccountInv'
  BY <1>4, WriteUserKeeps, OutdateKeeps DEF Account!WriteUser, AccountInv
<1>5. ASSUME NEW r \in Requests, Account!WriteLog(r) PROVE AccountInv'
  BY <1>1, <1>5, WriteLogKeeps DEF Account!WriteLog, AccountInv
<1>6. ASSUME NEW r \in Requests, Account!Abort(r) PROVE AccountInv'
  BY <1>1, <1>6, AbortKeeps DEF Account!Abort, AccountInv
<1>7. ASSUME NEW c \in Users, Account!MissCopy(c) \/ Account!ReadRow(c) \/ Account!StoreCopy(c)
      PROVE  AccountInv'
  BY <1>2, <1>7, CopiesKeep DEF Account!MissCopy, Account!ReadRow, Account!StoreCopy, AccountInv
<1>8. CASE Account!TimePasses
  BY <1>8, CopiesKeep, TimePassesKeeps DEF AccountInv
<1>9. CASE Account!OldSuspensionEnds \/ Account!Tick
  BY <1>2, <1>9, CopiesKeep DEF Account!OldSuspensionEnds, Account!Tick, AccountInv
<1>10. CASE UNCHANGED Account!vars
  BY <1>1, <1>2, <1>10 DEF Account!vars, Account!adminVars, AccountInv
<1> QED BY <1>3, <1>4, <1>5, <1>6, <1>7, <1>8, <1>9, <1>10 DEF Account!Next

LEMMA AccountMeans ==
  AccountInv => Account!TypeOK /\ Account!StatusAgreesWithLog /\ Account!BarredWithinTtl
<1> SUFFICES ASSUME AccountInv
             PROVE  Account!TypeOK /\ Account!StatusAgreesWithLog /\ Account!BarredWithinTtl
  OBVIOUS
<1>0. AccessTypes /\ AccessFresh /\ AccessBound /\ StatusTypes /\ StatusFlags /\ (x5 = FALSE => StatusInTurn)
  BY DEF AccountInv
<1>1. Account!TypeOK
  BY <1>0, Zenon DEF Account!TypeOK, AccessTypes, StatusTypes, StatusFlags, CacheType, CheckType, CopyType
<1>2. Account!StatusAgreesWithLog
  <2> SUFFICES ASSUME ~x5, \A r \in Requests : x6[r].pc # "log"
               PROVE  ~(x1 /\ x2) /\ (x1 <=> x4.ban = "ban") /\ (x2 => x4.suspension = "suspend")
    BY Zenon DEF Account!StatusAgreesWithLog
  <2>1. StatusInTurn
    BY <1>0, Zenon DEF StatusFlags
  <2>2. /\ x1 = FALSE \/ x2 = FALSE
        /\ x1 = TRUE <=> x4.ban = "ban"
        /\ x2 = TRUE => x4.suspension = "suspend"
    BY <2>1 DEF StatusInTurn
  <2> QED BY <1>0, <2>2, Zenon DEF StatusFlags
<1>3. Account!BarredWithinTtl
  <2> SUFFICES ASSUME x7.left > 0, Account!Admits(x7.copy), Account!Barred
               PROVE  x7.copy.old /\ x7.left + x9 <= CopyTtl
    BY DEF Account!BarredWithinTtl
  <2>1. x7.copy.banned \in BOOLEAN /\ x7.copy.suspended \in BOOLEAN /\ x7.copy.old \in BOOLEAN
    BY <1>0 DEF AccessTypes, CacheType, CopyType
  <2>2. x7.copy.banned = FALSE /\ x7.copy.suspended = FALSE
    BY <2>1, Zenon DEF Account!Admits
  <2>3. x1 = TRUE \/ (x2 = TRUE /\ x3 = FALSE)
    BY <1>0, Zenon DEF Account!Barred, StatusFlags
  <2>4. ~Tells(x7.copy)
    BY <2>2, <2>3 DEF Tells
  <2>5. x7.copy.old = TRUE
    BY <1>0, <2>1, <2>4 DEF AccessFresh
  <2>6. x7.left + x9 <= CopyTtl
    BY <1>0, <2>5 DEF AccessBound
  <2> QED BY <2>5, <2>6, Zenon
<1> QED BY <1>1, <1>2, <1>3

------------------------------------------------------------------------------
(***************************************************************************)
(* Kyc: x1 are the submissions, x2 says whether the instructor is          *)
(* verified, x3 whether requests overlapped, x4 are the requests.  If they *)
(* did not, one request is under way: the flag it is to write tells the    *)
(* newest submission as its own write leaves it, and none is approved      *)
(* when it is to insert one.                                               *)
(***************************************************************************)
KycTyped(n) ==
  /\ n \in 0 .. MaxSubmissions /\ x1 \in [1 .. n -> Kyc!Status] /\ x2 \in BOOLEAN /\ x3 \in BOOLEAN
  /\ x4 \in [Requests -> Kyc!RequestType]
  /\ \A r \in Requests : x4[r].pc \in {"review", "commit", "revoke"} => x4[r].of \in 1 .. n
KycAlone(n) ==
  /\ \A p, q \in Requests : p # q => x4[p] = Kyc!Idle \/ x4[q] = Kyc!Idle
  /\ x2 = TRUE <=> n # 0 /\ x1[n] = "APPROVED"
  /\ \A r \in Requests :
       /\ x4[r].pc = "insert" => \A i \in 1 .. n : x1[i] # "APPROVED"
       /\ x4[r].pc = "commit" /\ x4[r].of = n =>
            (x4[r].verified = TRUE <=> x4[r].status = "APPROVED")
       /\ x4[r].pc = "commit" /\ x4[r].of # n => (x4[r].verified = TRUE <=> x1[n] = "APPROVED")
KycAt(n) == KycTyped(n) /\ (x3 = FALSE => KycAlone(n))
KycInv == \E n \in Nat : KycAt(n)

LEMMA KycBound == MaxSubmissions \in Nat
BY PlatformAssumption DEF Kyc!ConstantsAssumption

LEMMA KycIdle == Kyc!Idle \in Kyc!RequestType /\ Kyc!Idle.pc = "idle"
BY KycBound DEF Kyc!Idle, Kyc!RequestType, Kyc!Status, Kyc!Reviewable

LEMMA KycInitially == Kyc!Init => KycInv
<1> SUFFICES ASSUME Kyc!Init PROVE KycAt(0)
  BY DEF KycInv
<1>1. x1 \in [1 .. 0 -> Kyc!Status] /\ 0 \in 0 .. MaxSubmissions
  BY KycBound DEF Kyc!Init
<1>2. x2 = FALSE /\ x3 = FALSE
  BY Zenon DEF Kyc!Init
<1>3. x4 = [r \in Requests |-> Kyc!Idle]
  BY Zenon DEF Kyc!Init
<1>4. KycTyped(0)
  BY <1>1, <1>2, <1>3, KycIdle DEF KycTyped
<1>5. KycAlone(0)
  BY <1>2, <1>3, KycIdle DEF KycAlone
<1> QED BY <1>4, <1>5 DEF KycAt

\* A step of one request that leaves the submissions and the flag alone.
LEMMA KycMoves ==
  ASSUME NEW n \in Nat, KycAt(n), NEW r \in Requests, NEW new \in Kyc!RequestType,
         x4' = [x4 EXCEPT ![r] = new], x1' = x1, x2' = x2, x3' \in BOOLEAN,
         x3' = FALSE => x3 = FALSE
                        /\ (new = Kyc!Idle \/ x4[r] # Kyc!Idle
                            \/ \A o \in Requests \ {r} : x4[o] = Kyc!Idle),
         new.pc \in {"review", "commit", "revoke"} => new.of \in 1 .. n,
         new.pc = "insert" => \A i \in 1 .. n : x1[i] # "APPROVED",
         new.pc = "commit" /\ new.of = n => (new.verified = TRUE <=> new.status = "APPROVED"),
         new.pc = "commit" /\ new.of # n => (new.verified = TRUE <=> x1[n] = "APPROVED")
  PROVE  KycInv'
<1>1. KycTyped(n)'
  BY DEF KycAt, KycTyped
<1>2. x4'[r] = new /\ \A o \in Requests : o # r => x4'[o] = x4[o]
  BY DEF KycAt, KycTyped
<1>3. ASSUME x3' = FALSE PROVE KycAlone(n)'
  <2>1. KycAlone(n)
    BY <1>3 DEF KycAt
  <2>2. \A p, q \in Requests : p # q => x4'[p] = Kyc!Idle \/ x4'[q] = Kyc!Idle
    BY <1>2, <1>3, <2>1 DEF KycAlone
  <2> QED BY <1>2, <2>1, <2>2 DEF KycAlone
<1> QED BY <1>1, <1>3 DEF KycAt, KycInv

LEMMA KycGo ==
  ASSUME x4 \in [Requests -> Kyc!RequestType], NEW r \in Requests,
         NEW pc \in {"insert", "review", "revoke"}, NEW of \in 0 .. MaxSubmissions,
         NEW status \in Kyc!Status, Kyc!Go(r, pc, of, status)
  PROVE  \E new \in Kyc!RequestType : x4' = [x4 EXCEPT ![r] = new] /\ new.pc = pc /\ new.of = of
<1> DEFINE n1 == [x4[r] EXCEPT !.pc = pc]
           n2 == [n1 EXCEPT !.of = of]
           n3 == [n2 EXCEPT !.status = status]
<1>1. x4' = [x4 EXCEPT ![r] = n3]
  BY DEF Kyc!Go
<1>2. n1 \in Kyc!RequestType /\ n1.pc = pc
  BY DEF Kyc!RequestType
<1> HIDE DEF n1
<1>3. n2 \in Kyc!RequestType /\ n2.pc = pc /\ n2.of = of
  BY <1>2 DEF Kyc!RequestType
<1> HIDE DEF n2
<1>4. n3 \in Kyc!RequestType /\ n3.pc = pc /\ n3.of = of
  BY <1>3 DEF Kyc!RequestType
<1> HIDE DEF n3
<1> QED BY <1>1, <1>4

LEMMA KycOverlaps ==
  ASSUME NEW r \in Requests, x3 \in BOOLEAN, Kyc!Overlaps(r)
  PROVE  /\ x3' \in BOOLEAN
         /\ x3' = FALSE => x3 = FALSE /\ \A o \in Requests \ {r} : x4[o] = Kyc!Idle
BY Zenon DEF Kyc!Overlaps

LEMMA KycStarts ==
  ASSUME KycInv, NEW r \in Requests,
         Kyc!StartSubmit(r) \/ Kyc!StartReview(r) \/ Kyc!StartRevoke(r) \/ Kyc!Abort(r)
  PROVE  KycInv'
<1> PICK n \in Nat : KycAt(n)
  BY DEF KycInv
<1> USE KycBound
<1>0. /\ n \in 0 .. MaxSubmissions /\ x1 \in [1 .. n -> Kyc!Status] /\ x3 \in BOOLEAN
      /\ x4 \in [Requests -> Kyc!RequestType] /\ DOMAIN x1 = 1 .. n
  BY DEF KycAt, KycTyped
<1>1. x1' = x1 /\ x2' = x2
  BY DEF Kyc!StartSubmit, Kyc!StartReview, Kyc!StartRevoke, Kyc!Abort
<1>2. CASE Kyc!StartSubmit(r)
  <2>1. PICK new \in Kyc!RequestType : x4' = [x4 EXCEPT ![r] = new] /\ new.pc = "insert"
    <3>1. Kyc!Go(r, "insert", 0, "PENDING") /\ "PENDING" \in Kyc!Status
      BY <1>2 DEF Kyc!StartSubmit, Kyc!Status, Kyc!Reviewable
    <3> QED BY <1>0, <3>1, KycGo
  <2>2. \A i \in 1 .. n : x1[i] # "APPROVED"
    BY <1>0, <1>2 DEF Kyc!StartSubmit
  <2>3. /\ x3' \in BOOLEAN
        /\ x3' = FALSE => x3 = FALSE /\ \A o \in Requests \ {r} : x4[o] = Kyc!Idle
    BY <1>0, <1>2, KycOverlaps DEF Kyc!StartSubmit
  <2> QED BY <1>1, <2>1, <2>2, <2>3, KycMoves
<1>3. CASE Kyc!StartReview(r) \/ Kyc!StartRevoke(r)
  <2>1. PICK new \in Kyc!RequestType :
          /\ x4' = [x4 EXCEPT ![r] = new] /\ new.pc \in {"review", "revoke"} /\ new.of \in 1 .. n
    <3>1. PICK i \in 1 .. n, status \in Kyc!Status, pc \in {"review", "revoke"} :
            Kyc!Go(r, pc, i, status)
      BY <1>0, <1>3 DEF Kyc!StartReview, Kyc!StartRevoke, Kyc!Status
    <3>2. i \in 0 .. MaxSubmissions
      BY <1>0
    <3> QED BY <1>0, <3>1, <3>2, KycGo
  <2>3. /\ x3' \in BOOLEAN
        /\ x3' = FALSE => x3 = FALSE /\ \A o \in Requests \ {r} : x4[o] = Kyc!Idle
    BY <1>0, <1>3, KycOverlaps DEF Kyc!StartReview, Kyc!StartRevoke
  <2>4. new.pc # "insert" /\ new.pc # "commit"
    BY <2>1
  <2> QED BY <1>1, <2>1, <2>3, <2>4, KycMoves
<1>4. CASE Kyc!Abort(r)
  <2>1. PICK new \in Kyc!RequestType :
          x4' = [x4 EXCEPT ![r] = new] /\ new = Kyc!Idle /\ new.pc = "idle" /\ x3' = x3
    BY <1>4, KycIdle DEF Kyc!Abort, Kyc!Finish
  <2>2. new.pc \notin {"review", "commit", "revoke"} /\ new.pc # "insert" /\ new.pc # "commit"
    BY <2>1
  <2> QED BY <1>0, <1>1, <2>1, <2>2, KycMoves
<1> QED BY <1>2, <1>3, <1>4

LEMMA WriteReviewKeeps == ASSUME KycInv, NEW r \in Requests, Kyc!WriteReview(r) PROVE KycInv'
<1> PICK n \in Nat : KycAt(n)
  BY DEF KycInv
<1> USE KycBound
<1>0. /\ n \in 0 .. MaxSubmissions /\ x1 \in [1 .. n -> Kyc!Status] /\ x3 \in BOOLEAN
      /\ x4[r] \in Kyc!RequestType /\ x4[r].pc = "review" /\ x4[r].of \in 1 .. n
      /\ x4 \in [Requests -> Kyc!RequestType]
  BY DEF KycAt, KycTyped, Kyc!WriteReview
<1>1. Len(x1) = n
  BY <1>0
<1>2. PICK verified \in BOOLEAN : verified = Kyc!VerifiedBy(r)
  BY Zenon DEF Kyc!VerifiedBy
<1>3. /\ x4[r].of = n => (verified = TRUE <=> x4[r].status = "APPROVED")
      /\ x4[r].of # n => (verified = TRUE <=> x1[n] = "APPROVED")
  <2>1. x4[r].of = n => Kyc!NewestSeen(r) = x4[r].status
    BY <1>1, Zenon DEF Kyc!NewestSeen
  <2>2. x4[r].of # n => Kyc!NewestSeen(r) = x1[n]
    BY <1>1, Zenon DEF Kyc!NewestSeen
  <2>3. verified = TRUE <=> Kyc!NewestSeen(r) = "APPROVED"
    BY <1>2, Zenon DEF Kyc!VerifiedBy
  <2> QED BY <2>1, <2>2, <2>3, Zenon
<1>4. x1' = x1 /\ x2' = x2 /\ x3' = x3
  BY DEF Kyc!WriteReview
<1>5. x4' = [x4 EXCEPT ![r].pc = "commit", ![r].verified = verified]
  BY <1>2, Zenon DEF Kyc!WriteReview
<1>6. PICK new \in Kyc!RequestType :
        /\ x4' = [x4 EXCEPT ![r] = new] /\ new.pc = "commit" /\ new.verified = verified
        /\ new.of = x4[r].of /\ new.status = x4[r].status
  <2> DEFINE n1 == [x4[r] EXCEPT !.pc = "commit"]
             n2 == [n1 EXCEPT !.verified = verified]
  <2>1. x4' = [x4 EXCEPT ![r] = n2]
    BY <1>0, <1>5
  <2>2. n1 \in Kyc!RequestType /\ n1.pc = "commit" /\ n1.of = x4[r].of /\ n1.status = x4[r].status
    BY <1>0 DEF Kyc!RequestType
  <2> HIDE DEF n1
  <2>3. /\ n2 \in Kyc!RequestType /\ n2.pc = "commit" /\ n2.of = x4[r].of
        /\ n2.status = x4[r].status
    BY <2>2 DEF Kyc!RequestType
  <2>4. n2.verified = verified
    BY <2>2, Zenon DEF Kyc!RequestType
  <2> HIDE DEF n2
  <2> QED BY <2>1, <2>3, <2>4, Zenon
<1>7. new.of \in 1 .. n /\ new.pc # "insert"
  BY <1>0, <1>6
<1>8. /\ new.of = n => (new.verified = TRUE <=> new.status = "APPROVED")
      /\ new.of # n => (new.verified = TRUE <=> x1[n] = "APPROVED")
  BY <1>3, <1>6, Zenon
<1>9. x4[r] # Kyc!Idle
  BY <1>0, KycIdle
<1> QED BY <1>0, <1>4, <1>6, <1>7, <1>8, <1>9, KycMoves

\* A step that ends a request and writes the submissions and the flag.
LEMMA KycWrites ==
  ASSUME NEW n \in Nat, KycAt(n), NEW r \in Requests, x4[r] # Kyc!Idle, x3' = x3,
         x4' = [x4 EXCEPT ![r] = Kyc!Idle],
         NEW m \in Nat, m \in 0 .. MaxSubmissions, n <= m, x1' \in [1 .. m -> Kyc!Status],
         x2' \in BOOLEAN, x3 = FALSE => (x2' = TRUE <=> m # 0 /\ x1'[m] = "APPROVED")
  PROVE  KycInv'
<1>1. x4'[r] = Kyc!Idle /\ \A o \in Requests : o # r => x4'[o] = x4[o]
  BY DEF KycAt, KycTyped
<1>2. KycTyped(m)'
  <2>1. x4' \in [Requests -> Kyc!RequestType]
    BY KycIdle DEF KycAt, KycTyped
  <2>2. \A o \in Requests : x4'[o].pc \in {"review", "commit", "revoke"} => x4'[o].of \in 1 .. m
    BY <1>1, KycIdle DEF KycAt, KycTyped
  <2>3. x3' \in BOOLEAN
    BY DEF KycAt, KycTyped
  <2> QED BY <2>1, <2>2, <2>3 DEF KycTyped
<1>3. ASSUME x3' = FALSE PROVE KycAlone(m)'
  <2>1. KycAlone(n)
    BY <1>3 DEF KycAt
  <2>2. \A o \in Requests : x4'[o] = Kyc!Idle
    BY <1>1, <2>1 DEF KycAlone
  <2> QED BY <1>3, <2>2, KycIdle DEF KycAlone
<1> QED BY <1>2, <1>3 DEF KycAt, KycInv

LEMMA InsertSubmissionKeeps ==
  ASSUME KycInv, NEW r \in Requests, Kyc!InsertSubmission(r) PROVE KycInv'
<1> PICK n \in Nat : KycAt(n)
  BY DEF KycInv
<1> USE KycBound
<1>0. /\ n \in 0 .. MaxSubmissions /\ x1 \in [1 .. n -> Kyc!Status] /\ x2 \in BOOLEAN
  BY DEF KycAt, KycTyped
<1>1. Len(x1) = n /\ x1 \in Seq(Kyc!Status) /\ "PENDING" \in Kyc!Status
  BY <1>0 DEF Kyc!Status, Kyc!Reviewable
<1>2. /\ x4[r].pc = "insert" /\ n < MaxSubmissions /\ x1' = Append(x1, "PENDING")
      /\ x2' = x2 /\ x3' = x3 /\ x4' = [x4 EXCEPT ![r] = Kyc!Idle]
  BY <1>1 DEF Kyc!InsertSubmission, Kyc!Finish
<1>3. x1' \in [1 .. n + 1 -> Kyc!Status] /\ x1'[n + 1] = "PENDING"
  <2>1. x1' \in Seq(Kyc!Status) /\ Len(x1') = n + 1 /\ x1'[n + 1] = "PENDING"
    BY <1>1, <1>2
  <2>2. x1' \in [1 .. Len(x1') -> Kyc!Status]
    BY <2>1
  <2> QED BY <2>1, <2>2
<1>4. x3 = FALSE => x2 = FALSE
  <2> SUFFICES ASSUME x3 = FALSE PROVE x2 = FALSE
    OBVIOUS
  <2>1. n # 0 => x1[n] # "APPROVED"
    BY <1>2 DEF KycAt, KycAlone
  <2> QED BY <1>0, <2>1, Zenon DEF KycAt, KycAlone
<1>5. x3 = FALSE => (x2' = TRUE <=> n + 1 # 0 /\ x1'[n + 1] = "APPROVED")
  BY <1>2, <1>3, <1>4
<1>6. x4[r] # Kyc!Idle /\ n + 1 \in 0 .. MaxSubmissions /\ n <= n + 1 /\ n + 1 \in Nat
      /\ x2' \in BOOLEAN
  BY <1>0, <1>2, KycIdle
<1>7. PICK m \in Nat : m = n + 1
  BY <1>6
<1> QED BY <1>2, <1>3, <1>5, <1>6, <1>7, KycWrites

LEMMA CommitReviewKeeps ==
  ASSUME KycInv, NEW r \in Requests, Kyc!CommitReview(r) PROVE KycInv'
<1> PICK n \in Nat : KycAt(n)
  BY DEF KycInv
<1> USE KycBound
<1>0. /\ n \in 0 .. MaxSubmissions /\ x1 \in [1 .. n -> Kyc!Status] /\ n <= n
      /\ x4[r] \in Kyc!RequestType /\ x4[r].pc = "commit" /\ x4[r].of \in 1 .. n
  BY DEF KycAt, KycTyped, Kyc!CommitReview
<1>1. x4[r].status \in Kyc!Status
  BY <1>0 DEF Kyc!RequestType
<1>2. x4[r].verified \in BOOLEAN
  BY <1>0, Zenon DEF Kyc!RequestType
<1>3. x3' = x3 /\ x4' = [x4 EXCEPT ![r] = Kyc!Idle] /\ x4[r] # Kyc!Idle
  BY <1>0, KycIdle DEF Kyc!CommitReview, Kyc!Finish
<1>4. x1' = [x1 EXCEPT ![x4[r].of] = x4[r].status]
  BY DEF Kyc!CommitReview
<1>5. x1' \in [1 .. n -> Kyc!Status]
  BY <1>0, <1>1, <1>4
<1>6. x2' \in BOOLEAN /\ (x2' = TRUE <=> x4[r].verified = TRUE)
  BY <1>2, Zenon DEF Kyc!CommitReview
<1>7. n # 0 /\ (x4[r].of = n => x1'[n] = x4[r].status) /\ (x4[r].of # n => x1'[n] = x1[n])
  BY <1>0, <1>4
<1>8. ASSUME x3 = FALSE PROVE x2' = TRUE <=> n # 0 /\ x1'[n] = "APPROVED"
  <2>1. /\ x4[r].of = n => (x4[r].verified = TRUE <=> x4[r].status = "APPROVED")
        /\ x4[r].of # n => (x4[r].verified = TRUE <=> x1[n] = "APPROVED")
    BY <1>0, <1>8, Zenon DEF KycAt, KycAlone
  <2> QED BY <1>6, <1>7, <2>1, Zenon
<1> QED BY <1>0, <1>3, <1>5, <1>6, <1>8, KycWrites

LEMMA RevokeKeeps == ASSUME KycInv, NEW r \in Requests, Kyc!Revoke(r) PROVE KycInv'
<1> PICK n \in Nat : KycAt(n)
  BY DEF KycInv
<1> USE KycBound
<1>0. /\ n \in 0 .. MaxSubmissions /\ x1 \in [1 .. n -> Kyc!Status] /\ n <= n
      /\ x4[r].pc = "revoke" /\ x4[r].of \in 1 .. n
  BY DEF KycAt, KycTyped, Kyc!Revoke
<1>1. x3' = x3 /\ x4' = [x4 EXCEPT ![r] = Kyc!Idle] /\ x4[r] # Kyc!Idle
  BY <1>0, KycIdle DEF Kyc!Revoke, Kyc!Finish
<1>2. x1' = [i \in 1 .. n |-> IF x1[i] = "APPROVED" THEN "REVOKED" ELSE x1[i]]
  BY <1>0 DEF Kyc!Revoke
<1>3. x1' \in [1 .. n -> Kyc!Status] /\ x1'[n] # "APPROVED"
  BY <1>0, <1>2 DEF Kyc!Status
<1>4. x2' = FALSE
  BY Zenon DEF Kyc!Revoke
<1>5. x2' \in BOOLEAN /\ (x3 = FALSE => (x2' = TRUE <=> n # 0 /\ x1'[n] = "APPROVED"))
  BY <1>3, <1>4, Zenon
<1> QED BY <1>0, <1>1, <1>3, <1>5, KycWrites

LEMMA KycInductive == KycInv /\ [Kyc!Next]_(Kyc!vars) => KycInv'
<1> SUFFICES ASSUME KycInv, [Kyc!Next]_(Kyc!vars) PROVE KycInv'
  OBVIOUS
<1>1. CASE UNCHANGED Kyc!vars
  BY <1>1 DEF Kyc!vars, KycInv, KycAt, KycTyped, KycAlone
<1>2. ASSUME NEW r \in Requests,
             \/ Kyc!StartSubmit(r) \/ Kyc!InsertSubmission(r)
             \/ Kyc!StartReview(r) \/ Kyc!WriteReview(r) \/ Kyc!CommitReview(r)
             \/ Kyc!StartRevoke(r) \/ Kyc!Revoke(r)
             \/ Kyc!Abort(r)
      PROVE  KycInv'
  BY <1>2, KycStarts, InsertSubmissionKeeps, WriteReviewKeeps, CommitReviewKeeps, RevokeKeeps
<1> QED BY <1>1, <1>2 DEF Kyc!Next

LEMMA KycMeans == KycInv => Kyc!TypeOK /\ Kyc!VerifiedByNewest
<1> SUFFICES ASSUME KycInv PROVE Kyc!TypeOK /\ Kyc!VerifiedByNewest
  OBVIOUS
<1> PICK n \in Nat : KycAt(n)
  BY DEF KycInv
<1>0. /\ n \in 0 .. MaxSubmissions /\ x1 \in [1 .. n -> Kyc!Status] /\ x2 \in BOOLEAN
      /\ x3 \in BOOLEAN /\ x4 \in [Requests -> Kyc!RequestType]
  BY DEF KycAt, KycTyped
<1>1. Kyc!TypeOK
  BY <1>0, Zenon DEF Kyc!TypeOK
<1>2. Len(x1) = n /\ (n # 0 <=> x1 # <<>>)
  BY <1>0
<1>3. Kyc!VerifiedByNewest
  BY <1>0, <1>2, Zenon DEF KycAt, KycAlone, Kyc!VerifiedByNewest
<1> QED BY <1>1, <1>3

------------------------------------------------------------------------------
(***************************************************************************)
(* DatabaseBackup: x1 is the day, x2 the days of the backups in the        *)
(* bucket, x3 says whether one was stored, x4 are the runs, x5 the flags,  *)
(* x6 the last runs.  A run that deletes has stored a backup since it      *)
(* began, which is in the bucket: no run is as long as the retention, so   *)
(* what any run deletes is older than the start of every other.            *)
(***************************************************************************)
DumpStates == {"idle", "dump", "upload", "rotate", "done", "cleanUp"}
DumpRuns == [pc : DumpStates, day : Int, started : Int, before : Int]
DumpTypes ==
  /\ x1 \in 0 .. MaxDay /\ x2 \subseteq 0 .. MaxDay /\ x3 \in BOOLEAN
  /\ x4 \in [Requests -> DumpRuns] /\ x5 \in [Requests -> BOOLEAN]
  /\ x6 \in [Requests -> [state : {"none", "SUCCESS", "FAILED", "SKIPPED"}, day : Int]]
DumpFlags == \A p \in Requests : x5[p] = FALSE <=> x4[p] = Dump!Idle
DumpInTime ==
  \A p \in Requests : x4[p] # Dump!Idle => x4[p].started <= x1 /\ x1 - x4[p].started < Retention
DumpKept ==
  \A p \in Requests : x4[p].pc \in {"rotate", "done"} =>
    /\ x4[p].day \in x2 /\ x4[p].started <= x4[p].day /\ x4[p].day <= x1
    /\ x4[p].before = x4[p].day - Retention
DumpInv == DumpTypes /\ DumpFlags /\ DumpInTime /\ DumpKept /\ (x3 = TRUE => x2 # {})

LEMMA DumpBounds == Retention \in Nat \ {0} /\ MaxDay \in Nat
BY PlatformAssumption DEF Dump!ConstantsAssumption

LEMMA DumpIdle == Dump!Idle \in DumpRuns /\ Dump!Idle.pc = "idle"
BY DEF Dump!Idle, DumpRuns, DumpStates

LEMMA DumpInitially == Dump!Init => DumpInv
<1> SUFFICES ASSUME Dump!Init PROVE DumpInv
  OBVIOUS
<1>1. DumpTypes
  <2>0. x1 = 0 /\ x2 = {} /\ x3 = FALSE
    BY Zenon DEF Dump!Init
  <2>1. x1 \in 0 .. MaxDay /\ x2 \subseteq 0 .. MaxDay /\ x3 \in BOOLEAN
    <3>1. 0 \in 0 .. MaxDay
      BY DumpBounds
    <3> QED BY <2>0, <3>1, Zenon
  <2>2. x4 \in [Requests -> DumpRuns] /\ x5 \in [Requests -> BOOLEAN]
    BY DumpIdle DEF Dump!Init
  <2>3. x6 \in [Requests -> [state : {"none", "SUCCESS", "FAILED", "SKIPPED"}, day : Int]]
    BY DEF Dump!Init
  <2> QED BY <2>1, <2>2, <2>3 DEF DumpTypes
<1>2. DumpFlags /\ DumpInTime /\ DumpKept /\ (x3 = TRUE => x2 # {})
  BY DumpIdle DEF Dump!Init, DumpFlags, DumpInTime, DumpKept
<1> QED BY <1>1, <1>2 DEF DumpInv

\* A step of one run that leaves the bucket alone.
LEMMA RunMoves ==
  ASSUME DumpInv, NEW p \in Requests, x1' = x1, x2' = x2, x3' = x3,
         NEW new \in DumpRuns, x4' = [x4 EXCEPT ![p] = new],
         NEW flag \in BOOLEAN, x5' = [x5 EXCEPT ![p] = flag], flag = FALSE <=> new = Dump!Idle,
         x6' \in [Requests -> [state : {"none", "SUCCESS", "FAILED", "SKIPPED"}, day : Int]],
         new # Dump!Idle => new.started <= x1 /\ x1 - new.started < Retention,
         new.pc \in {"rotate", "done"} =>
           x4[p].pc \in {"rotate", "done"}
           /\ new.day = x4[p].day /\ new.started = x4[p].started /\ new.before = x4[p].before
  PROVE  DumpInv'
<1>1. DumpTypes'
  BY DEF DumpInv, DumpTypes
<1>2. x4'[p] = new /\ x5'[p] = flag
      /\ \A q \in Requests : q # p => x4'[q] = x4[q] /\ x5'[q] = x5[q]
  BY DEF DumpInv, DumpTypes
<1>3. DumpFlags'
  BY <1>2 DEF DumpInv, DumpFlags
<1>4. DumpInTime'
  BY <1>2 DEF DumpInv, DumpInTime
<1>5. DumpKept'
  BY <1>2 DEF DumpInv, DumpKept
<1> QED BY <1>1, <1>3, <1>4, <1>5 DEF DumpInv

LEMMA DumpTicks == DumpInv /\ Dump!Tick => DumpInv'
<1> SUFFICES ASSUME DumpInv, Dump!Tick PROVE DumpInv'
  OBVIOUS
<1>1. x1 \in Int /\ x1' = x1 + 1 /\ x1 < MaxDay /\ x2' = x2 /\ x3' = x3 /\ x4' = x4 /\ x5' = x5 /\ x6' = x6
  BY DumpBounds DEF Dump!Tick, DumpInv, DumpTypes
<1>2. DumpTypes'
  BY <1>1, DumpBounds DEF DumpInv, DumpTypes
<1>3. \A p \in Requests : x4[p].started \in Int /\ x4[p].day \in Int
  BY DEF DumpInv, DumpTypes, DumpRuns
<1>4. DumpFlags'
  BY <1>1 DEF DumpInv, DumpFlags
<1>5. DumpInTime'
  BY <1>1, <1>3, DumpBounds DEF DumpInv, DumpInTime, Dump!Tick
<1>6. DumpKept'
  BY <1>1, <1>3 DEF DumpInv, DumpKept
<1> QED BY <1>1, <1>2, <1>4, <1>5, <1>6 DEF DumpInv

LEMMA UploadKeeps == ASSUME DumpInv, NEW p \in Requests, Dump!Upload(p) PROVE DumpInv'
<1>0. x4[p] \in DumpRuns /\ x1 \in Int /\ x4[p].pc = "upload"
  BY DumpBounds DEF Dump!Upload, DumpInv, DumpTypes
<1> DEFINE new == [x4[p] EXCEPT !.pc = "rotate", !.day = x1, !.before = x1 - Retention]
<1>1. x4' = [x4 EXCEPT ![p] = new]
  BY DEF Dump!Upload, Dump!After, DumpInv, DumpTypes
<1>2. /\ new \in DumpRuns /\ new.pc = "rotate" /\ new.day = x1 /\ new.before = x1 - Retention
      /\ new.started = x4[p].started
  <2>1. PICK day \in Int : day = x1
    BY <1>0
  <2>2. PICK before \in Int : before = x1 - Retention
    BY <1>0, DumpBounds
  <2>3. /\ new \in DumpRuns /\ new.pc = "rotate" /\ new.started = x4[p].started
        /\ new.day = day /\ new.before = before
    <3>1. PICK r \in DumpRuns : r = x4[p]
      BY <1>0
    <3> DEFINE r1 == [r EXCEPT !.pc = "rotate"]
    <3> DEFINE r2 == [r1 EXCEPT !.day = day]
    <3> DEFINE r3 == [r2 EXCEPT !.before = before]
    <3>2. [r EXCEPT !.pc = "rotate", !.day = day, !.before = before] = r3
      BY Zenon
    <3>3. r1 \in DumpRuns /\ r1.pc = "rotate" /\ r1.started = r.started
      BY DEF DumpRuns, DumpStates
    <3> HIDE DEF r1
    <3>4. r2 \in DumpRuns /\ r2.pc = "rotate" /\ r2.started = r.started /\ r2.day = day
      BY <3>3 DEF DumpRuns
    <3> HIDE DEF r2
    <3>5. /\ r3 \in DumpRuns /\ r3.pc = "rotate" /\ r3.started = r.started /\ r3.day = day
          /\ r3.before = before
      BY <3>4 DEF DumpRuns
    <3> HIDE DEF r3
    <3> QED BY <2>1, <2>2, <3>1, <3>2, <3>5, Zenon
  <2> QED BY <2>1, <2>2, <2>3, Zenon
<1> HIDE DEF new
<1>3. x1' = x1 /\ x2' = x2 \union {x1} /\ x3' = TRUE /\ x5' = x5 /\ x6' = x6
  BY DEF Dump!Upload
<1>4. x4'[p] = new /\ \A q \in Requests : q # p => x4'[q] = x4[q]
  BY <1>1 DEF DumpInv, DumpTypes
<1>5. DumpTypes'
  BY <1>1, <1>2, <1>3 DEF DumpInv, DumpTypes
<1>6. x4[p] # Dump!Idle /\ new # Dump!Idle
  BY <1>0, <1>2, DumpIdle
<1>7. DumpFlags'
  BY <1>3, <1>4, <1>6 DEF DumpInv, DumpFlags
<1>8. DumpInTime'
  BY <1>2, <1>3, <1>4, <1>6 DEF DumpInv, DumpInTime
<1>9. DumpKept'
  <2>1. x4[p].started <= x1
    BY <1>6 DEF DumpInv, DumpInTime
  <2> QED BY <1>0, <1>2, <1>3, <1>4, <2>1 DEF DumpInv, DumpKept
<1> QED BY <1>3, <1>5, <1>7, <1>8, <1>9 DEF DumpInv

LEMMA RotatePageKeeps == ASSUME DumpInv, NEW p \in Requests, Dump!RotatePage(p) PROVE DumpInv'
<1>1. PICK page \in SUBSET Dump!Expired(p) : x2' = x2 \ page
  BY DEF Dump!RotatePage
<1>2. /\ x4[p].pc = "rotate" /\ x1' = x1 /\ x3' = x3 /\ x4' = x4 /\ x5' = x5 /\ x6' = x6
  BY DEF Dump!RotatePage
<1>3. \A d \in page : d < x4[p].before
  BY DEF Dump!Expired
<1>4. /\ x4[p].day \in x2 /\ x4[p].day <= x1 /\ x4[p].before = x4[p].day - Retention
  BY <1>2 DEF DumpInv, DumpKept
<1>5. x1 \in Int /\ \A q \in Requests : x4[q].started \in Int /\ x4[q].day \in Int
  BY DumpBounds DEF DumpInv, DumpTypes, DumpRuns
<1>6. \A q \in Requests : x4[q].pc \in {"rotate", "done"} => x4[q].day \notin page
  <2> SUFFICES ASSUME NEW q \in Requests, x4[q].pc \in {"rotate", "done"} PROVE x4[q].day \notin page
    OBVIOUS
  <2>1. x1 - x4[q].started < Retention /\ x4[q].started <= x4[q].day
    BY DumpIdle DEF DumpInv, DumpInTime, DumpKept
  <2> QED BY <1>3, <1>4, <1>5, <2>1, DumpBounds
<1>7. DumpTypes' /\ DumpFlags'
  BY <1>1, <1>2 DEF DumpInv, DumpTypes, DumpFlags
<1>8. DumpInTime' /\ DumpKept'
  BY <1>1, <1>2, <1>6 DEF DumpInv, DumpInTime, DumpKept
<1>9. x2' # {}
  BY <1>1, <1>2, <1>4, <1>6
<1> QED BY <1>7, <1>8, <1>9 DEF DumpInv

LEMMA SkipKeeps == ASSUME DumpInv, NEW p \in Requests, Dump!SkipRun(p) PROVE DumpInv'
<1>1. x1' = x1 /\ x2' = x2 /\ x3' = x3 /\ x4' = x4 /\ x5' = x5
  BY DEF Dump!SkipRun
<1>2. x6' \in [Requests -> [state : {"none", "SUCCESS", "FAILED", "SKIPPED"}, day : Int]]
  BY DEF Dump!SkipRun, DumpInv, DumpTypes
<1> QED BY <1>1, <1>2 DEF DumpInv, DumpTypes, DumpFlags, DumpInTime, DumpKept

LEMMA RunsKeep ==
  ASSUME DumpInv, NEW p \in Requests,
         \/ Dump!StartRun(p) \/ Dump!Dump(p) \/ Dump!RotationEnds(p)
         \/ Dump!Succeed(p) \/ Dump!Fail(p) \/ Dump!CleanUp(p) \/ Dump!Restart(p)
  PROVE  DumpInv'
<1> USE DumpBounds
<1>0. /\ x4[p] \in DumpRuns /\ x1 \in Int /\ x4 \in [Requests -> DumpRuns]
      /\ x5 \in [Requests -> BOOLEAN]
      /\ x6 \in [Requests -> [state : {"none", "SUCCESS", "FAILED", "SKIPPED"}, day : Int]]
  BY DEF DumpInv, DumpTypes
<1>00. x1' = x1 /\ x2' = x2 /\ x3' = x3
  BY DEF Dump!StartRun, Dump!Dump, Dump!RotationEnds, Dump!Succeed, Dump!Fail, Dump!CleanUp,
         Dump!Restart, Dump!End
<1>01. x4[p] # Dump!Idle => x4[p].started <= x1 /\ x1 - x4[p].started < Retention
  BY DEF DumpInv, DumpInTime
<1>02. x6'\in [Requests -> [state : {"none", "SUCCESS", "FAILED", "SKIPPED"}, day : Int]]
  <2>1. CASE x6' = x6
    BY <1>0, <2>1
  <2>2. CASE Dump!Restart(p)
    BY <1>0, <2>2 DEF Dump!Restart
  <2>3. ASSUME NEW state \in {"SUCCESS", "FAILED"}, Dump!End(p, state)
        PROVE  x6' \in [Requests -> [state : {"none", "SUCCESS", "FAILED", "SKIPPED"}, day : Int]]
    <3>1. x4[p].day \in Int
      BY <1>0 DEF DumpRuns
    <3> QED BY <1>0, <2>3, <3>1 DEF Dump!End
  <2> QED
    BY <2>1, <2>2, <2>3 DEF Dump!StartRun, Dump!Dump, Dump!RotationEnds, Dump!Succeed, Dump!Fail,
                            Dump!CleanUp
<1>1. CASE Dump!StartRun(p)
  <2> DEFINE new == [Dump!Idle EXCEPT !.pc = "dump", !.started = x1]
  <2>1. x4' = [x4 EXCEPT ![p] = new] /\ x5' = [x5 EXCEPT ![p] = TRUE]
    BY <1>1 DEF Dump!StartRun
  <2>2. new \in DumpRuns /\ new.pc = "dump" /\ new.started = x1
    BY <1>0, DumpIdle DEF DumpRuns, DumpStates
  <2> HIDE DEF new
  <2>3. new # Dump!Idle /\ x1 - x1 < Retention
    BY <1>0, <2>2, DumpIdle
  <2>4. new.started <= x1 /\ x1 - new.started < Retention /\ new.pc \notin {"rotate", "done"}
    BY <1>0, <2>2, <2>3
  <2> QED BY <1>00, <1>02, <2>1, <2>2, <2>3, <2>4, RunMoves
<1>2. CASE Dump!Dump(p)
  <2> DEFINE new == [x4[p] EXCEPT !.pc = "upload"]
  <2>1. x4' = [x4 EXCEPT ![p] = new] /\ x5' = x5 /\ x4[p].pc = "dump"
    <3>1. x4' = [x4 EXCEPT ![p].pc = "upload", ![p].before = x4[p].before]
      BY <1>2, <1>0 DEF Dump!Dump, Dump!Proceed, Dump!After
    <3>2. x4' = [x4 EXCEPT ![p] = [[x4[p] EXCEPT !.pc = "upload"] EXCEPT !.before = x4[p].before]]
      BY <1>0, <3>1
    <3>3. [[x4[p] EXCEPT !.pc = "upload"] EXCEPT !.before = x4[p].before] = new
      BY <1>0 DEF DumpRuns
    <3> QED BY <1>2, <3>2, <3>3 DEF Dump!Dump
  <2>2. new \in DumpRuns /\ new.pc = "upload" /\ new.started = x4[p].started
    BY <1>0 DEF DumpRuns, DumpStates
  <2> HIDE DEF new
  <2>3. x5[p] = TRUE
    BY <1>0, <2>1, DumpIdle DEF DumpInv, DumpFlags
  <2>4. x5' = [x5 EXCEPT ![p] = TRUE]
    BY <1>0, <2>1, <2>3
  <2>5. new # Dump!Idle /\ x4[p] # Dump!Idle
    BY <2>1, <2>2, DumpIdle
  <2> QED BY <1>0, <1>00, <1>01, <1>02, <2>1, <2>2, <2>4, <2>5, RunMoves
<1>3. CASE Dump!RotationEnds(p)
  <2> DEFINE new == [x4[p] EXCEPT !.pc = "done"]
  <2>1. x4' = [x4 EXCEPT ![p] = new] /\ x5' = x5 /\ x4[p].pc = "rotate"
    <3>1. x4' = [x4 EXCEPT ![p].pc = "done", ![p].before = x4[p].before]
      BY <1>3, <1>0 DEF Dump!RotationEnds, Dump!Proceed, Dump!After
    <3>2. x4' = [x4 EXCEPT ![p] = [[x4[p] EXCEPT !.pc = "done"] EXCEPT !.before = x4[p].before]]
      BY <1>0, <3>1
    <3>3. [[x4[p] EXCEPT !.pc = "done"] EXCEPT !.before = x4[p].before] = new
      BY <1>0 DEF DumpRuns
    <3> QED BY <1>3, <3>2, <3>3 DEF Dump!RotationEnds
  <2>2. /\ new \in DumpRuns /\ new.pc = "done" /\ new.started = x4[p].started
        /\ new.day = x4[p].day /\ new.before = x4[p].before
    BY <1>0 DEF DumpRuns, DumpStates
  <2> HIDE DEF new
  <2>3. x5[p] = TRUE
    BY <1>0, <2>1, DumpIdle DEF DumpInv, DumpFlags
  <2>4. x5' = [x5 EXCEPT ![p] = TRUE]
    BY <1>0, <2>1, <2>3
  <2>5. new # Dump!Idle /\ x4[p] # Dump!Idle
    BY <2>1, <2>2, DumpIdle
  <2> QED BY <1>0, <1>00, <1>01, <1>02, <2>1, <2>2, <2>4, <2>5, RunMoves
<1>4. ASSUME NEW state \in {"SUCCESS", "FAILED"}, Dump!End(p, state),
             x4[p].pc \in {"dump", "upload", "rotate", "done"}
      PROVE  DumpInv'
  <2> DEFINE new == [Dump!Idle EXCEPT !.pc = "cleanUp", !.started = x4[p].started]
  <2>1. x4' = [x4 EXCEPT ![p] = new] /\ x5' = x5
    BY <1>4 DEF Dump!End
  <2>2. new \in DumpRuns /\ new.pc = "cleanUp" /\ new.started = x4[p].started
    BY <1>0, DumpIdle DEF DumpRuns, DumpStates
  <2> HIDE DEF new
  <2>3. x5[p] = TRUE
    BY <1>0, <1>4, DumpIdle DEF DumpInv, DumpFlags
  <2>4. x5' = [x5 EXCEPT ![p] = TRUE]
    BY <1>0, <2>1, <2>3
  <2>5. new # Dump!Idle /\ x4[p] # Dump!Idle
    BY <1>4, <2>2, DumpIdle
  <2> QED BY <1>0, <1>00, <1>01, <1>02, <2>1, <2>2, <2>4, <2>5, RunMoves
<1>5. CASE Dump!Succeed(p) \/ Dump!Fail(p)
  BY <1>4, <1>5 DEF Dump!Succeed, Dump!Fail
<1>6. CASE Dump!CleanUp(p) \/ Dump!Restart(p)
  <2>1. x4' = [x4 EXCEPT ![p] = Dump!Idle] /\ x5' = [x5 EXCEPT ![p] = FALSE]
    BY <1>6 DEF Dump!CleanUp, Dump!Restart
  <2> QED BY <1>0, <1>00, <1>02, <2>1, DumpIdle, RunMoves
<1> QED BY <1>1, <1>2, <1>3, <1>5, <1>6

LEMMA DumpInductive == DumpInv /\ [Dump!Next]_(Dump!vars) => DumpInv'
<1> SUFFICES ASSUME DumpInv, [Dump!Next]_(Dump!vars) PROVE DumpInv'
  OBVIOUS
<1>1. CASE UNCHANGED Dump!vars
  BY <1>1 DEF Dump!vars, DumpInv, DumpTypes, DumpFlags, DumpInTime, DumpKept
<1>2. CASE Dump!Tick
  BY <1>2, DumpTicks
<1>3. ASSUME NEW p \in Requests,
             \/ Dump!SkipRun(p) \/ Dump!StartRun(p) \/ Dump!Dump(p) \/ Dump!Upload(p)
             \/ Dump!RotatePage(p) \/ Dump!RotationEnds(p) \/ Dump!Succeed(p) \/ Dump!Fail(p)
             \/ Dump!CleanUp(p) \/ Dump!Restart(p)
      PROVE  DumpInv'
  BY <1>3, SkipKeeps, UploadKeeps, RotatePageKeeps, RunsKeep
<1> QED BY <1>1, <1>2, <1>3 DEF Dump!Next

LEMMA DumpMeans == DumpInv => Dump!TypeOK /\ Dump!NeverWithoutBackup
<1> SUFFICES ASSUME DumpInv PROVE Dump!TypeOK /\ Dump!NeverWithoutBackup
  OBVIOUS
<1>1. /\ x1 \in 0 .. MaxDay /\ x2 \subseteq 0 .. MaxDay /\ x3 \in BOOLEAN
      /\ \A p \in Requests : x4[p] \in DumpRuns /\ x5[p] \in BOOLEAN
           /\ x6[p].state \in {"none", "SUCCESS", "FAILED", "SKIPPED"}
  BY DEF DumpInv, DumpTypes
<1>2. \A p \in Requests : x4[p].pc \in {"idle", "dump", "upload", "rotate", "done", "cleanUp"}
  BY <1>1 DEF DumpRuns, DumpStates
<1>3. \A p \in Requests : x5[p] = (x4[p] # Dump!Idle)
  BY <1>1, Zenon DEF DumpInv, DumpFlags
<1>4. Dump!TypeOK
  BY <1>1, <1>2, <1>3, Zenon DEF Dump!TypeOK
<1>5. Dump!NeverWithoutBackup
  BY <1>1, Zenon DEF DumpInv, Dump!NeverWithoutBackup
<1> QED BY <1>4, <1>5

------------------------------------------------------------------------------
(***************************************************************************)
(* LiveSessions: x1 are the sessions, x2 the time, x3 how often each was   *)
(* announced, x4 and x5 say whether a time was written unchecked and       *)
(* whether a reminder was cut short, x6 are the requests, x7 the ticks of  *)
(* the cron, x8 the places taken, x9 those let through, x10 the sessions   *)
(* that were squeezed.  What a request is to write stays free while it is  *)
(* the only one; a session that is not marked was not announced, but for   *)
(* the one a tick is about to mark; and whoever was let through has a      *)
(* place left.                                                             *)
(***************************************************************************)
LiveRow ==
  [status : {"none", "SCHEDULED", "RESCHEDULED", "CANCELLED"}, start : Starts \union {0},
   length : Lengths \union {0}, capacity : Capacities \union {0}, sent : BOOLEAN]
LiveTask ==
  [pc : {"idle", "create", "update"}, session : Sessions \union {Live!Idle.session},
   row : LiveRow]
LiveTick ==
  [pc : {"idle", "notify", "mark"}, todo : SUBSET Sessions,
   session : Sessions \union {Live!Idle.session}]
LiveTyped ==
  /\ x1 \in [Sessions -> LiveRow] /\ x3 \in [Sessions -> 0 .. 2]
  /\ x4 \in BOOLEAN /\ x5 \in BOOLEAN
  /\ x6 \in [Editors -> LiveTask] /\ x7 \in [Crons -> LiveTick]
  /\ x8 \subseteq Sessions \X Students /\ x9 \in [Students -> SUBSET Sessions]
  /\ x10 \subseteq Sessions
  /\ \A r \in Editors : x6[r].pc # "idle" => x6[r].session \in Sessions
Clash(p, q) ==
  /\ p.status \in Live!ActiveStatuses /\ q.status \in Live!ActiveStatuses
  /\ Live!Overlap(p, q)
LiveFree ==
  /\ \A s, o \in Sessions : s # o => ~Clash(x1[s], x1[o])
  /\ \A p, q \in Editors : p # q => x6[p].pc = "idle" \/ x6[q].pc = "idle"
  /\ \A r \in Editors, o \in Sessions :
       x6[r].pc # "idle" /\ o # x6[r].session => ~Clash(x6[r].row, x1[o])
LiveReminded ==
  /\ \A c, d \in Crons : c # d => x7[c].pc = "idle" \/ x7[d].pc = "idle"
  /\ \A c \in Crons :
       /\ x7[c].pc # "idle" => \A s \in x7[c].todo : x1[s].sent = FALSE
       /\ x7[c].pc = "mark" => x7[c].session \in x7[c].todo
  /\ \A s \in Sessions : x3[s] <= 1
  /\ \A s \in Sessions :
       x1[s].sent = FALSE /\ (\A c \in Crons : x7[c].pc = "mark" => x7[c].session # s) =>
         x3[s] = 0
LiveSeated ==
  \A s \in Sessions \ x10 :
    /\ Cardinality(Live!Attendees(s)) <= x1[s].capacity
    /\ \A u, v \in Students : s \in x9[u] /\ s \in x9[v] => u = v
    /\ \A u \in Students : s \in x9[u] => Cardinality(Live!Attendees(s)) < x1[s].capacity
LiveInv ==
  LiveTyped /\ (x4 = FALSE => LiveFree) /\ (x5 = FALSE => LiveReminded) /\ LiveSeated

LEMMA LiveBounds ==
  /\ Starts \subseteq Nat /\ Lengths \subseteq Nat /\ Capacities \subseteq Nat
  /\ IsFiniteSet(Students)
<1>1. Live!IsFiniteSet(Students) => IsFiniteSet(Students)
  BY Zenon DEF Live!IsFiniteSet, IsFiniteSet
<1> QED BY <1>1, PlatformAssumption DEF Live!ConstantsAssumption

LEMMA LiveCardinality == \A S : Live!Cardinality(S) = Cardinality(S)
BY Zenon DEF Live!Cardinality, Cardinality

LEMMA LiveNoSession ==
  /\ Live!NoSession \in LiveRow /\ Live!NoSession.status = "none"
  /\ Live!NoSession.capacity = 0 /\ Live!NoSession.sent = FALSE
BY DEF Live!NoSession, LiveRow

LEMMA LiveIdle ==
  /\ Live!Idle \in LiveTask /\ Live!Idle.pc = "idle"
  /\ Live!Asleep \in LiveTick /\ Live!Asleep.pc = "idle" /\ Live!Asleep.todo = {}
<1>1. Live!Idle \in LiveTask /\ Live!Idle.pc = "idle"
  <2>1. Live!Idle = [pc |-> "idle", session |-> Live!Idle.session, row |-> Live!NoSession]
    BY DEF Live!Idle
  <2> QED BY <2>1, LiveNoSession DEF LiveTask
<1>2. Live!Asleep = [pc |-> "idle", todo |-> {}, session |-> Live!Idle.session]
  BY DEF Live!Asleep
<1> QED BY <1>1, <1>2 DEF LiveTick

LEMMA LiveNumbers ==
  ASSUME NEW row \in LiveRow
  PROVE  row.start \in Nat /\ row.length \in Nat /\ row.capacity \in Nat
<1>1. /\ row.start \in Starts \union {0} /\ row.length \in Lengths \union {0}
      /\ row.capacity \in Capacities \union {0}
  BY DEF LiveRow
<1>2. \A n \in Starts \union Lengths \union Capacities : n \in Nat
  BY LiveBounds
<1>3. row.start \in Nat
  BY <1>1, <1>2
<1>4. row.length \in Nat
  BY <1>1, <1>2
<1>5. row.capacity \in Nat
  BY <1>1, <1>2
<1> QED BY <1>3, <1>4, <1>5

LEMMA ClashSymmetric ==
  ASSUME NEW p \in LiveRow, NEW q \in LiveRow
  PROVE  Clash(p, q) <=> Clash(q, p)
<1>1. /\ p.start \in Nat /\ p.length \in Nat /\ q.start \in Nat /\ q.length \in Nat
  BY LiveNumbers
<1> QED BY <1>1 DEF Clash, Live!Overlap

\* Rows that differ in their places or their mark only clash with the same rows.
LEMMA ClashAlike ==
  ASSUME NEW p, NEW q, NEW o, p.status = q.status, p.start = q.start, p.length = q.length
  PROVE  (Clash(p, o) <=> Clash(q, o)) /\ (Clash(o, p) <=> Clash(o, q))
BY DEF Clash, Live!Overlap

LEMMA LiveInitially == Live!Init => LiveInv
<1> SUFFICES ASSUME Live!Init PROVE LiveInv
  OBVIOUS
<1>1. /\ x1 = [s \in Sessions |-> Live!NoSession] /\ x2 = 0
      /\ x3 = [s \in Sessions |-> 0] /\ x4 = FALSE /\ x5 = FALSE
      /\ x6 = [r \in Editors |-> Live!Idle] /\ x7 = [c \in Crons |-> Live!Asleep]
      /\ x8 = {} /\ x9 = [u \in Students |-> {}] /\ x10 = {}
  BY Zenon DEF Live!Init
<1>2. LiveTyped
  <2>1. x4 \in BOOLEAN /\ x5 \in BOOLEAN
    BY <1>1, Zenon
  <2>2. 0 \in 0 .. 2
    OBVIOUS
  <2>3. x1 \in [Sessions -> LiveRow] /\ x3 \in [Sessions -> 0 .. 2]
    BY <1>1, <2>2, LiveNoSession
  <2>4. x6 \in [Editors -> LiveTask] /\ x7 \in [Crons -> LiveTick]
    BY <1>1, LiveIdle
  <2>5. /\ x8 \subseteq Sessions \X Students /\ x9 \in [Students -> SUBSET Sessions]
        /\ x10 \subseteq Sessions
    BY <1>1
  <2>6. \A r \in Editors : x6[r].pc = "idle"
    BY <1>1, LiveIdle
  <2> QED BY <2>1, <2>3, <2>4, <2>5, <2>6 DEF LiveTyped
<1>3. LiveFree
  <2>1. \A s \in Sessions : x1[s].status = "none"
    BY <1>1, LiveNoSession
  <2>2. \A r \in Editors : x6[r].pc = "idle"
    BY <1>1, LiveIdle
  <2> QED BY <2>1, <2>2 DEF LiveFree, Clash, Live!ActiveStatuses
<1>4. LiveReminded
  <2>1. \A s \in Sessions : x3[s] = 0
    BY <1>1
  <2>2. \A c \in Crons : x7[c].pc = "idle"
    BY <1>1, LiveIdle
  <2> QED BY <2>1, <2>2 DEF LiveReminded
<1>5. LiveSeated
  <2>1. \A s \in Sessions : x1[s].capacity = 0 /\ Live!Attendees(s) = {}
    BY <1>1, LiveNoSession DEF Live!Attendees
  <2>2. \A u \in Students : x9[u] = {}
    BY <1>1
  <2>3. Cardinality({}) = 0
    BY FS_EmptySet
  <2>4. \A s \in Sessions : Cardinality(Live!Attendees(s)) <= x1[s].capacity
    <3> TAKE s \in Sessions
    <3>1. Cardinality(Live!Attendees(s)) = 0 /\ x1[s].capacity = 0
      BY <2>1, <2>3
    <3> QED BY <3>1
  <2> QED BY <2>2, <2>4 DEF LiveSeated
<1> QED BY <1>2, <1>3, <1>4, <1>5 DEF LiveInv

------------------------------------------------------------------------------
\* The requests of the instructor

\* Nothing but the requests has changed: the reminders and the places stand.
LEMMA LiveAside ==
  ASSUME LiveInv, x1' = x1, x3' = x3, x5' = x5, x7' = x7, x8' = x8, x9' = x9, x10' = x10
  PROVE  (x5' = FALSE => LiveReminded') /\ LiveSeated'
<1>1. x5' = FALSE => LiveReminded'
  BY Zenon DEF LiveInv, LiveReminded
<1>2. LiveSeated'
  <2>1. \A s : Live!Attendees(s)' = Live!Attendees(s)
    BY Zenon DEF Live!Attendees
  <2> QED BY <2>1, Zenon DEF LiveInv, LiveSeated
<1> QED BY <1>1, <1>2

LEMMA LiveMoves ==
  ASSUME LiveInv, NEW r \in Editors, NEW new \in LiveTask, x6' = [x6 EXCEPT ![r] = new],
         new.pc # "idle" => new.session \in Sessions,
         x1' = x1, x3' = x3, x5' = x5, x7' = x7, x8' = x8, x9' = x9, x10' = x10,
         x4' \in BOOLEAN, x4' = FALSE => x4 = FALSE,
         x4' = FALSE /\ new.pc # "idle" => \A o \in Editors \ {r} : x6[o].pc = "idle",
         x4' = FALSE /\ new.pc # "idle" =>
           \A o \in Sessions : o # new.session => ~Clash(new.row, x1[o])
  PROVE  LiveInv'
<1>1. LiveTyped
  BY DEF LiveInv
<1>2. x6'[r] = new /\ \A o \in Editors : o # r => x6'[o] = x6[o]
  BY <1>1 DEF LiveTyped
<1>3. LiveTyped'
  <2>1. x6' \in [Editors -> LiveTask]
    BY <1>1 DEF LiveTyped
  <2>2. \A o \in Editors : x6'[o].pc # "idle" => x6'[o].session \in Sessions
    BY <1>1, <1>2 DEF LiveTyped
  <2> QED BY <1>1, <2>1, <2>2, Zenon DEF LiveTyped
<1>4. ASSUME x4' = FALSE PROVE LiveFree'
  <2>1. LiveFree
    BY <1>4 DEF LiveInv
  <2>2. \A s, o \in Sessions : s # o => ~Clash(x1'[s], x1'[o])
    BY <2>1 DEF LiveFree
  <2>3. \A p, q \in Editors : p # q => x6'[p].pc = "idle" \/ x6'[q].pc = "idle"
    BY <1>2, <1>4, <2>1 DEF LiveFree
  <2>4. \A p \in Editors, o \in Sessions :
          x6'[p].pc # "idle" /\ o # x6'[p].session => ~Clash(x6'[p].row, x1'[o])
    BY <1>2, <1>4, <2>1 DEF LiveFree
  <2> QED BY <2>2, <2>3, <2>4, Zenon DEF LiveFree, Clash
<1> QED BY <1>3, <1>4, LiveAside DEF LiveInv

LEMMA LiveGoes ==
  ASSUME LiveInv, NEW r \in Editors, NEW s \in Sessions, NEW pc \in {"create", "update"},
         NEW row \in LiveRow, Live!Go(r, pc, s, row),
         x1' = x1, x3' = x3, x5' = x5, x7' = x7, x8' = x8, x9' = x9, x10' = x10,
         x4' \in BOOLEAN, x4' = FALSE => x4 = FALSE /\ ~Live!Busy(r, {"create", "update"}),
         x4' = FALSE => \A o \in Sessions : o # s => ~Clash(row, x1[o])
  PROVE  LiveInv'
<1> DEFINE new == [pc |-> pc, session |-> s, row |-> row]
<1>1. new \in LiveTask /\ new.pc # "idle" /\ new.session = s /\ new.row = row
  BY DEF LiveTask
<1>2. x6' = [x6 EXCEPT ![r] = new]
  BY DEF Live!Go
<1>3. x6 \in [Editors -> LiveTask]
  BY DEF LiveInv, LiveTyped
<1>4. ~Live!Busy(r, {"create", "update"}) => \A o \in Editors \ {r} : x6[o].pc = "idle"
  BY <1>3 DEF Live!Busy, LiveTask
<1> HIDE DEF new
<1>5. x4' = FALSE /\ new.pc # "idle" => \A o \in Editors \ {r} : x6[o].pc = "idle"
  BY <1>4
<1>6. x4' = FALSE /\ new.pc # "idle" =>
        \A o \in Sessions : o # new.session => ~Clash(new.row, x1[o])
  BY <1>1
<1>7. new.pc # "idle" => new.session \in Sessions
  BY <1>1
<1> QED BY <1>1, <1>2, <1>5, <1>6, <1>7, LiveMoves

LEMMA AvailableFits ==
  ASSUME NEW s \in Sessions, NEW row \in LiveRow, Live!Available(row, {s})
  PROVE  \A o \in Sessions : o # s => ~Clash(row, x1[o])
BY DEF Live!Available, Clash

LEMMA CheckScheduleKeeps ==
  ASSUME LiveInv, NEW r \in Editors, NEW s \in Sessions, Live!CheckSchedule(r, s)
  PROVE  LiveInv'
<1>1. /\ x1' = x1 /\ x3' = x3 /\ x5' = x5 /\ x7' = x7 /\ x8' = x8 /\ x9' = x9 /\ x10' = x10
  BY DEF Live!CheckSchedule, Live!seatVars
<1>2. x4' \in BOOLEAN /\ (x4' = FALSE => x4 = FALSE /\ ~Live!Busy(r, {"create", "update"}))
  <2>1. x4 \in BOOLEAN
    BY DEF LiveInv, LiveTyped
  <2> QED BY <2>1, Zenon DEF Live!CheckSchedule
<1>3. PICK row \in LiveRow : Live!Available(row, {s}) /\ Live!Go(r, "create", s, row)
  <2>1. PICK start \in Starts, length \in Lengths, capacity \in Capacities :
          LET row == [status |-> "SCHEDULED", start |-> start, length |-> length,
                      capacity |-> capacity, sent |-> FALSE]
          IN Live!Available(row, {s}) /\ Live!Go(r, "create", s, row)
    BY Zenon DEF Live!CheckSchedule
  <2> DEFINE new == [status |-> "SCHEDULED", start |-> start, length |-> length,
                     capacity |-> capacity, sent |-> FALSE]
  <2>2. new \in LiveRow
    BY DEF LiveRow
  <2>3. Live!Available(new, {s}) /\ Live!Go(r, "create", s, new)
    BY <2>1
  <2> HIDE DEF new
  <2> QED BY <2>2, <2>3
<1> QED BY <1>1, <1>2, <1>3, AvailableFits, LiveGoes

LEMMA CheckMoveKeeps ==
  ASSUME LiveInv, NEW r \in Editors, NEW s \in Sessions, Live!CheckMove(r, s)
  PROVE  LiveInv'
<1>1. /\ x1' = x1 /\ x3' = x3 /\ x5' = x5 /\ x7' = x7 /\ x8' = x8 /\ x9' = x9 /\ x10' = x10
  BY DEF Live!CheckMove, Live!seatVars
<1>2. x4' \in BOOLEAN /\ (x4' = FALSE => x4 = FALSE /\ ~Live!Busy(r, {"create", "update"}))
  <2>1. x4 \in BOOLEAN
    BY DEF LiveInv, LiveTyped
  <2> QED BY <2>1, Zenon DEF Live!CheckMove
<1>3. PICK row \in LiveRow : Live!Available(row, {s}) /\ Live!Go(r, "update", s, row)
  <2>0. x1[s] \in LiveRow
    BY DEF LiveInv, LiveTyped
  <2>1. PICK start \in Starts, length \in Lengths \union {x1[s].length},
             capacity \in Capacities \union {x1[s].capacity} :
          LET row == [x1[s] EXCEPT !.start = start, !.length = length, !.capacity = capacity,
                                   !.status = IF start # x1[s].start THEN "RESCHEDULED"
                                              ELSE x1[s].status]
          IN Live!Available(row, {s}) /\ Live!Go(r, "update", s, row)
    BY Zenon DEF Live!CheckMove
  <2>2. PICK status \in {"none", "SCHEDULED", "RESCHEDULED", "CANCELLED"} :
          status = IF start # x1[s].start THEN "RESCHEDULED" ELSE x1[s].status
    BY <2>0 DEF LiveRow
  <2> DEFINE new == [x1[s] EXCEPT !.start = start, !.length = length, !.capacity = capacity,
                                  !.status = status]
  <2>3. Live!Available(new, {s}) /\ Live!Go(r, "update", s, new)
    BY <2>1, <2>2, Zenon
  <2>4. new \in LiveRow
    <3>1. length \in Lengths \union {0} /\ capacity \in Capacities \union {0}
      BY <2>0 DEF LiveRow
    <3> QED BY <2>0, <3>1 DEF LiveRow
  <2> HIDE DEF new
  <2> QED BY <2>3, <2>4
<1> QED BY <1>1, <1>2, <1>3, AvailableFits, LiveGoes

LEMMA ReadForEditKeeps ==
  ASSUME LiveInv, NEW r \in Editors, NEW s \in Sessions, Live!ReadForEdit(r, s)
  PROVE  LiveInv'
<1>0. x1[s] \in LiveRow /\ x1 \in [Sessions -> LiveRow] /\ x4 \in BOOLEAN
  BY DEF LiveInv, LiveTyped
<1>1. /\ x1' = x1 /\ x3' = x3 /\ x5' = x5 /\ x7' = x7 /\ x8' = x8 /\ x9' = x9 /\ x10' = x10
  BY DEF Live!ReadForEdit, Live!seatVars
<1>2. PICK length \in Lengths, status \in {"SCHEDULED", "CANCELLED", x1[s].status},
           capacity \in Capacities :
        /\ Live!Go(r, "update", s, [x1[s] EXCEPT !.length = length, !.status = status,
                                                 !.capacity = capacity])
        /\ x4' = (\/ x4 \/ Live!Busy(r, {"create", "update"})
                  \/ /\ status \in Live!ActiveStatuses
                     /\ <<length, status>> # <<x1[s].length, x1[s].status>>)
  BY Zenon DEF Live!ReadForEdit
<1>3. /\ x4' \in BOOLEAN
      /\ x4' = FALSE => x4 = FALSE /\ ~Live!Busy(r, {"create", "update"})
                        /\ (status \in Live!ActiveStatuses =>
                              <<length, status>> = <<x1[s].length, x1[s].status>>)
  BY <1>0, <1>2, Zenon
<1> DEFINE new == [x1[s] EXCEPT !.length = length, !.status = status, !.capacity = capacity]
<1>4. /\ new \in LiveRow /\ new.status = status /\ new.length = length
      /\ new.start = x1[s].start
  BY <1>0, <1>2 DEF LiveRow
<1>5. Live!Go(r, "update", s, new)
  BY <1>2
<1> HIDE DEF new
<1>6. ASSUME x4' = FALSE, NEW o \in Sessions, o # s PROVE ~Clash(new, x1[o])
  <2>1. CASE status \in Live!ActiveStatuses
    <3>1. new.status = x1[s].status /\ new.length = x1[s].length /\ new.start = x1[s].start
      BY <1>3, <1>4, <1>6, <2>1
    <3>2. ~Clash(x1[s], x1[o])
      BY <1>3, <1>6 DEF LiveInv, LiveFree
    <3> QED BY <3>1, <3>2, ClashAlike
  <2>2. CASE status \notin Live!ActiveStatuses
    BY <1>4, <2>2 DEF Clash
  <2> QED BY <2>1, <2>2
<1> QED BY <1>1, <1>3, <1>4, <1>5, <1>6, LiveGoes

LEMMA LiveAbortKeeps ==
  ASSUME LiveInv, NEW r \in Editors, Live!Abort(r)
  PROVE  LiveInv'
<1>1. /\ x1' = x1 /\ x3' = x3 /\ x5' = x5 /\ x7' = x7 /\ x8' = x8 /\ x9' = x9 /\ x10' = x10
      /\ x4' = x4
  BY DEF Live!Abort, Live!seatVars
<1>2. PICK new \in LiveTask : x6' = [x6 EXCEPT ![r] = new] /\ new.pc = "idle"
  BY LiveIdle DEF Live!Abort, Live!Finish
<1>3. x4' \in BOOLEAN
  BY <1>1 DEF LiveInv, LiveTyped
<1> QED BY <1>1, <1>2, <1>3, LiveMoves

LEMMA WriteSessionKeeps ==
  ASSUME LiveInv, NEW r \in Editors, Live!WriteSession(r)
  PROVE  LiveInv'
<1>0. LiveTyped
  BY DEF LiveInv
<1>1. /\ x3' = x3 /\ x4' = x4 /\ x5' = x5 /\ x7' = x7 /\ x8' = x8 /\ x9' = x9
      /\ x6' = [x6 EXCEPT ![r] = Live!Idle] /\ x6[r].pc # "idle"
  BY DEF Live!WriteSession, Live!Finish
<1>2. PICK s \in Sessions : s = x6[r].session
  BY <1>0, <1>1 DEF LiveTyped
<1>3. PICK row \in LiveRow : row = x6[r].row
  BY <1>0 DEF LiveTyped, LiveTask
<1>4. PICK new \in LiveRow :
        /\ x1' = [x1 EXCEPT ![s] = new] /\ new.sent = x1[s].sent
        /\ new.status = row.status /\ new.start = row.start /\ new.length = row.length
  <2> DEFINE n1 == [row EXCEPT !.sent = x1[s].sent]
  <2>1. x1' = [x1 EXCEPT ![s] = n1]
    BY <1>2, <1>3, Zenon DEF Live!WriteSession
  <2>2. x1[s].sent \in BOOLEAN
    BY <1>0, Zenon DEF LiveTyped, LiveRow
  <2>3. n1.sent = x1[s].sent
    BY <1>3, Zenon DEF LiveRow
  <2>4. /\ n1 \in LiveRow
        /\ n1.status = row.status /\ n1.start = row.start /\ n1.length = row.length
    BY <1>3, <2>2 DEF LiveRow
  <2> HIDE DEF n1
  <2> QED BY <2>1, <2>3, <2>4, Zenon
<1>5. x1' \in [Sessions -> LiveRow] /\ x1'[s] = new
      /\ \A o \in Sessions : o # s => x1'[o] = x1[o]
  BY <1>0, <1>4 DEF LiveTyped
<1>6. x10' = x10 \union {o \in Sessions : x1'[o].capacity < x1[o].capacity}
  BY DEF Live!WriteSession
<1>7. x6'[r].pc = "idle" /\ \A o \in Editors : o # r => x6'[o] = x6[o]
  BY <1>0, <1>1, LiveIdle DEF LiveTyped
<1>8. LiveTyped'
  <2>1. x6' \in [Editors -> LiveTask]
    BY <1>0, <1>1, LiveIdle DEF LiveTyped
  <2>2. \A o \in Editors : x6'[o].pc # "idle" => x6'[o].session \in Sessions
    BY <1>0, <1>7 DEF LiveTyped
  <2>3. x10' \subseteq Sessions
    BY <1>0, <1>6 DEF LiveTyped
  <2> QED BY <1>0, <1>1, <1>5, <2>1, <2>2, <2>3, Zenon DEF LiveTyped
<1>9. ASSUME x4' = FALSE PROVE LiveFree'
  <2>1. LiveFree
    BY <1>1, <1>9 DEF LiveInv
  <2>2. \A o \in Editors : x6'[o].pc = "idle"
    BY <1>1, <1>7, <2>1 DEF LiveFree
  <2>3. \A o \in Sessions : o # s => ~Clash(new, x1[o])
    <3> SUFFICES ASSUME NEW o \in Sessions, o # s PROVE ~Clash(new, x1[o])
      OBVIOUS
    <3>1. ~Clash(row, x1[o])
      BY <1>1, <1>2, <1>3, <2>1 DEF LiveFree
    <3> QED BY <1>4, <3>1, ClashAlike
  <2>4. \A p, o \in Sessions : p # o => ~Clash(x1'[p], x1'[o])
    <3> SUFFICES ASSUME NEW p \in Sessions, NEW o \in Sessions, p # o
                 PROVE  ~Clash(x1'[p], x1'[o])
      OBVIOUS
    <3>1. x1[p] \in LiveRow /\ x1[o] \in LiveRow
      BY <1>0 DEF LiveTyped
    <3>2. CASE p = s
      BY <1>5, <2>3, <3>2
    <3>3. CASE o = s
      <4>1. ~Clash(new, x1[p])
        BY <2>3, <3>3
      <4>2. ~Clash(x1[p], new)
        BY <3>1, <4>1, ClashSymmetric
      <4> QED BY <1>5, <3>3, <4>2
    <3>4. CASE p # s /\ o # s
      BY <1>5, <2>1, <3>4 DEF LiveFree
    <3> QED BY <3>2, <3>3, <3>4
  <2> QED BY <2>2, <2>4, Zenon DEF LiveFree, Clash
<1>10. ASSUME x5' = FALSE PROVE LiveReminded'
  <2>1. LiveReminded
    BY <1>1, <1>10 DEF LiveInv
  <2>2. \A o \in Sessions : x1'[o].sent = x1[o].sent
    BY <1>4, <1>5, Zenon
  <2>3. \A c \in Crons : x7[c].todo \subseteq Sessions
    BY <1>0 DEF LiveTyped, LiveTick
  <2>4. \A c \in Crons :
          /\ x7[c].pc # "idle" => \A o \in x7[c].todo : x1'[o].sent = FALSE
          /\ x7[c].pc = "mark" => x7[c].session \in x7[c].todo
    BY <2>1, <2>2, <2>3, Zenon DEF LiveReminded
  <2>5. \A o \in Sessions :
          x1'[o].sent = FALSE /\ (\A c \in Crons : x7[c].pc = "mark" => x7[c].session # o) =>
            x3[o] = 0
    BY <2>1, <2>2, Zenon DEF LiveReminded
  <2> QED BY <1>1, <2>1, <2>4, <2>5, Zenon DEF LiveReminded
<1>11. LiveSeated'
  <2>1. \A o : Live!Attendees(o)' = Live!Attendees(o)
    BY <1>1, Zenon DEF Live!Attendees
  <2>2. \A o \in Sessions \ x10' : x1[o].capacity <= x1'[o].capacity /\ o \notin x10
    <3>1. \A o \in Sessions : x1[o].capacity \in Nat /\ x1'[o].capacity \in Nat
      <4>1. \A o \in Sessions : x1[o] \in LiveRow /\ x1'[o] \in LiveRow
        BY <1>0, <1>5 DEF LiveTyped
      <4> QED BY <4>1, LiveNumbers
    <3> QED BY <1>6, <3>1
  <2>3. \A o \in Sessions : Cardinality(Live!Attendees(o)) \in Nat
    <3> TAKE o \in Sessions
    <3>1. Live!Attendees(o) \subseteq Students
      BY DEF Live!Attendees
    <3> QED BY <3>1, LiveBounds, FS_Subset, FS_CardinalityType
  <2>4. \A o \in Sessions : x1[o].capacity \in Nat /\ x1'[o].capacity \in Nat
    <3>1. \A o \in Sessions : x1[o] \in LiveRow /\ x1'[o] \in LiveRow
      BY <1>0, <1>5 DEF LiveTyped
    <3> QED BY <3>1, LiveNumbers
  <2>5. LiveSeated
    BY DEF LiveInv
  <2> SUFFICES ASSUME NEW o \in Sessions \ x10'
               PROVE  /\ Cardinality(Live!Attendees(o)') <= x1'[o].capacity
                      /\ \A u, v \in Students : o \in x9'[u] /\ o \in x9'[v] => u = v
                      /\ \A u \in Students :
                           o \in x9'[u] => Cardinality(Live!Attendees(o)') < x1'[o].capacity
    BY DEF LiveSeated
  <2>6. Cardinality(Live!Attendees(o)') = Cardinality(Live!Attendees(o))
    BY <2>1
  <2>7. o \in Sessions \ x10 /\ x1[o].capacity <= x1'[o].capacity
    BY <2>2
  <2> QED BY <1>1, <2>3, <2>4, <2>5, <2>6, <2>7 DEF LiveSeated
<1> QED BY <1>8, <1>9, <1>10, <1>11 DEF LiveInv

------------------------------------------------------------------------------
\* The ticks of the cron

\* A tick changes the sessions in their mark only: the times and the places stand.
LEMMA LiveMarked ==
  ASSUME LiveInv, x4' = x4, x6' = x6, x8' = x8, x9' = x9, x10' = x10,
         x1' \in [Sessions -> LiveRow],
         \A s \in Sessions :
           /\ x1'[s].status = x1[s].status /\ x1'[s].start = x1[s].start
           /\ x1'[s].length = x1[s].length /\ x1'[s].capacity = x1[s].capacity
  PROVE  (x4' = FALSE => LiveFree') /\ LiveSeated'
<1>1. ASSUME x4' = FALSE PROVE LiveFree'
  <2>1. LiveFree
    BY <1>1 DEF LiveInv
  <2>2. \A p, o \in Sessions : p # o => ~Clash(x1'[p], x1'[o])
    <3> SUFFICES ASSUME NEW p \in Sessions, NEW o \in Sessions, p # o
                 PROVE  ~Clash(x1'[p], x1'[o])
      OBVIOUS
    <3>1. ~Clash(x1[p], x1[o])
      BY <2>1 DEF LiveFree
    <3>2. ~Clash(x1'[p], x1[o])
      BY <3>1, ClashAlike
    <3> QED BY <3>2, ClashAlike
  <2>3. \A p \in Editors, o \in Sessions :
          x6[p].pc # "idle" /\ o # x6[p].session => ~Clash(x6[p].row, x1'[o])
    <3> SUFFICES ASSUME NEW p \in Editors, NEW o \in Sessions,
                        x6[p].pc # "idle", o # x6[p].session
                 PROVE  ~Clash(x6[p].row, x1'[o])
      OBVIOUS
    <3>1. ~Clash(x6[p].row, x1[o])
      BY <2>1 DEF LiveFree
    <3> QED BY <3>1, ClashAlike
  <2> QED BY <2>1, <2>2, <2>3, Zenon DEF LiveFree, Clash
<1>2. LiveSeated'
  <2>1. \A s : Live!Attendees(s)' = Live!Attendees(s)
    BY Zenon DEF Live!Attendees
  <2> QED BY <2>1, Zenon DEF LiveInv, LiveSeated
<1> QED BY <1>1, <1>2

LEMMA FindDueKeeps == ASSUME LiveInv, NEW c \in Crons, Live!FindDue(c) PROVE LiveInv'
<1>0. LiveTyped
  BY DEF LiveInv
<1>1. /\ x1' = x1 /\ x3' = x3 /\ x4' = x4 /\ x6' = x6 /\ x8' = x8 /\ x9' = x9 /\ x10' = x10
      /\ x7[c] = Live!Asleep
  BY DEF Live!FindDue, Live!seatVars
<1>2. PICK new \in LiveTick :
        x7' = [x7 EXCEPT ![c] = new] /\ new.pc = "notify" /\ new.todo = Live!Due
  <2> DEFINE n1 == [Live!Asleep EXCEPT !.pc = "notify"]
             n2 == [n1 EXCEPT !.todo = Live!Due]
  <2>1. x7' = [x7 EXCEPT ![c] = n2]
    BY DEF Live!FindDue
  <2>2. n1 \in LiveTick /\ n1.pc = "notify"
    BY LiveIdle DEF LiveTick
  <2> HIDE DEF n1
  <2>3. Live!Due \subseteq Sessions
    BY DEF Live!Due
  <2>4. n2 \in LiveTick /\ n2.pc = "notify" /\ n2.todo = Live!Due
    BY <2>2, <2>3 DEF LiveTick
  <2> HIDE DEF n2
  <2> QED BY <2>1, <2>4
<1>3. x5' \in BOOLEAN /\ (x5' = FALSE => x5 = FALSE /\ \A o \in Crons \ {c} : x7[o] = Live!Asleep)
  <2>1. x5 \in BOOLEAN
    BY <1>0 DEF LiveTyped
  <2> QED BY <2>1, Zenon DEF Live!FindDue
<1>4. \A s \in Live!Due : x1[s].sent = FALSE
  <2>1. \A s \in Sessions : x1[s].sent \in BOOLEAN
    BY <1>0, Zenon DEF LiveTyped, LiveRow
  <2>2. \A s \in Live!Due : s \in Sessions /\ ~x1[s].sent
    BY Zenon DEF Live!Due
  <2> QED BY <2>1, <2>2, Zenon
<1>5. x7'[c] = new /\ \A o \in Crons : o # c => x7'[o] = x7[o]
  BY <1>0, <1>2 DEF LiveTyped
<1>6. LiveTyped'
  <2>1. x7' \in [Crons -> LiveTick]
    BY <1>0, <1>2 DEF LiveTyped
  <2> QED BY <1>0, <1>1, <1>3, <2>1, Zenon DEF LiveTyped
<1>7. ASSUME x5' = FALSE PROVE LiveReminded'
  <2>1. LiveReminded
    BY <1>3, <1>7 DEF LiveInv
  <2>2. \A o \in Crons : o # c => x7'[o].pc = "idle"
    BY <1>3, <1>5, <1>7, LiveIdle
  <2>3. \A o, d \in Crons : o # d => x7'[o].pc = "idle" \/ x7'[d].pc = "idle"
    BY <2>2
  <2>4. \A o \in Crons :
          /\ x7'[o].pc # "idle" => \A s \in x7'[o].todo : x1'[s].sent = FALSE
          /\ x7'[o].pc = "mark" => x7'[o].session \in x7'[o].todo
    <3> TAKE o \in Crons
    <3>1. CASE o = c
      <4>1. x7'[o].pc = "notify" /\ x7'[o].todo = Live!Due
        BY <1>2, <1>5, <3>1
      <4>2. x7'[o].pc # "mark"
        BY <4>1
      <4> QED BY <1>1, <1>4, <4>1, <4>2, Zenon
    <3>2. CASE o # c
      <4>1. x7'[o].pc = "idle" /\ x7'[o].pc # "mark"
        BY <2>2, <3>2
      <4> QED BY <4>1
    <3> QED BY <3>1, <3>2
  <2>5. \A s \in Sessions : x3'[s] <= 1
    BY <1>1, <2>1 DEF LiveReminded
  <2>6. ASSUME NEW s \in Sessions, x1'[s].sent = FALSE PROVE x3'[s] = 0
    <3>1. \A o \in Crons : x7[o].pc # "mark"
      <4>1. x7[c].pc = "idle"
        BY <1>1, LiveIdle
      <4>2. \A o \in Crons : o # c => x7[o].pc = "idle"
        BY <1>5, <2>2
      <4> QED BY <4>1, <4>2
    <3>2. x3[s] = 0
      BY <1>1, <2>1, <2>6, <3>1, Zenon DEF LiveReminded
    <3> QED BY <1>1, <3>2
  <2> QED BY <2>3, <2>4, <2>5, <2>6, Zenon DEF LiveReminded
<1>8. (x4' = FALSE => LiveFree') /\ LiveSeated'
  <2>1. x1' \in [Sessions -> LiveRow]
    BY <1>0, <1>1 DEF LiveTyped
  <2> QED BY <1>1, <2>1, LiveMarked
<1> QED BY <1>6, <1>7, <1>8 DEF LiveInv

LEMMA NotifyStudentsKeeps ==
  ASSUME LiveInv, NEW c \in Crons, NEW s \in Sessions, Live!NotifyStudents(c, s)
  PROVE  LiveInv'
<1>0. LiveTyped
  BY DEF LiveInv
<1>1. /\ x1' = x1 /\ x4' = x4 /\ x5' = x5 /\ x6' = x6 /\ x8' = x8 /\ x9' = x9 /\ x10' = x10
      /\ x7[c].pc = "notify" /\ s \in x7[c].todo
      /\ x3' = [x3 EXCEPT ![s] = IF x3[s] < 2 THEN x3[s] + 1 ELSE x3[s]]
  BY <1>0 DEF Live!NotifyStudents, Live!seatVars, LiveTyped
<1>2. PICK new \in LiveTick :
        /\ x7' = [x7 EXCEPT ![c] = new] /\ new.pc = "mark" /\ new.session = s
        /\ new.todo = x7[c].todo
  <2> DEFINE n1 == [x7[c] EXCEPT !.pc = "mark"]
             n2 == [n1 EXCEPT !.session = s]
  <2>1. x7' = [x7 EXCEPT ![c] = n2]
    BY <1>0 DEF Live!NotifyStudents, LiveTyped
  <2>2. n1 \in LiveTick /\ n1.pc = "mark" /\ n1.todo = x7[c].todo
    BY <1>0 DEF LiveTyped, LiveTick
  <2> HIDE DEF n1
  <2>3. n2 \in LiveTick /\ n2.pc = "mark" /\ n2.session = s /\ n2.todo = x7[c].todo
    BY <2>2 DEF LiveTick
  <2> HIDE DEF n2
  <2> QED BY <2>1, <2>3
<1>3. x7'[c] = new /\ \A o \in Crons : o # c => x7'[o] = x7[o]
  BY <1>0, <1>2 DEF LiveTyped
<1>4. /\ x3' \in [Sessions -> 0 .. 2] /\ \A o \in Sessions : o # s => x3'[o] = x3[o]
      /\ x3[s] = 0 => x3'[s] = 1
  <2>1. x3[s] \in 0 .. 2
    BY <1>0 DEF LiveTyped
  <2> QED BY <1>0, <1>1, <2>1 DEF LiveTyped
<1>5. LiveTyped'
  <2>1. x7' \in [Crons -> LiveTick]
    BY <1>0, <1>2 DEF LiveTyped
  <2> QED BY <1>0, <1>1, <1>4, <2>1, Zenon DEF LiveTyped
<1>6. ASSUME x5' = FALSE PROVE LiveReminded'
  <2>1. LiveReminded
    BY <1>1, <1>6 DEF LiveInv
  <2>2. \A o \in Crons : o # c => x7'[o].pc = "idle" /\ x7[o].pc = "idle"
    BY <1>1, <1>3, <2>1 DEF LiveReminded
  <2>3. \A o, d \in Crons : o # d => x7'[o].pc = "idle" \/ x7'[d].pc = "idle"
    BY <2>2
  <2>4. \A o \in Crons :
          /\ x7'[o].pc # "idle" => \A q \in x7'[o].todo : x1'[q].sent = FALSE
          /\ x7'[o].pc = "mark" => x7'[o].session \in x7'[o].todo
    <3> TAKE o \in Crons
    <3>1. CASE o = c
      <4>1. x7'[o].session = s /\ x7'[o].todo = x7[c].todo /\ x7[c].pc # "idle"
        BY <1>1, <1>2, <1>3, <3>1
      <4> QED BY <1>1, <2>1, <4>1, Zenon DEF LiveReminded
    <3>2. CASE o # c
      <4>1. x7'[o].pc = "idle" /\ x7'[o].pc # "mark"
        BY <2>2, <3>2
      <4> QED BY <4>1
    <3> QED BY <3>1, <3>2
  <2>5. x3[s] = 0
    <3>1. x1[s].sent = FALSE
      <4>1. x7[c].pc # "idle"
        BY <1>1
      <4> QED BY <1>1, <2>1, <4>1, Zenon DEF LiveReminded
    <3>2. \A o \in Crons : x7[o].pc # "mark"
      <4>1. x7[c].pc # "mark"
        BY <1>1
      <4> QED BY <2>2, <4>1
    <3> QED BY <2>1, <3>1, <3>2, Zenon DEF LiveReminded
  <2>6. \A q \in Sessions : x3'[q] <= 1
    BY <1>4, <2>1, <2>5 DEF LiveReminded
  <2>7. ASSUME NEW q \in Sessions, x1'[q].sent = FALSE,
               \A o \in Crons : x7'[o].pc = "mark" => x7'[o].session # q
        PROVE  x3'[q] = 0
    <3>1. q # s
      BY <1>2, <1>3, <2>7
    <3>2. \A o \in Crons : x7[o].pc # "mark"
      <4>1. x7[c].pc # "mark"
        BY <1>1
      <4> QED BY <2>2, <4>1
    <3>3. x3[q] = 0
      BY <1>1, <2>1, <2>7, <3>2, Zenon DEF LiveReminded
    <3> QED BY <1>4, <3>1, <3>3
  <2> QED BY <2>3, <2>4, <2>6, <2>7, Zenon DEF LiveReminded
<1>7. (x4' = FALSE => LiveFree') /\ LiveSeated'
  <2>1. x1' \in [Sessions -> LiveRow]
    BY <1>0, <1>1 DEF LiveTyped
  <2> QED BY <1>1, <2>1, LiveMarked
<1> QED BY <1>5, <1>6, <1>7 DEF LiveInv

LEMMA MarkSentKeeps == ASSUME LiveInv, NEW c \in Crons, Live!MarkSent(c) PROVE LiveInv'
<1> DEFINE s == x7[c].session
           left == x7[c].todo \ {s}
<1>0. LiveTyped
  BY DEF LiveInv
<1>1. /\ x3' = x3 /\ x4' = x4 /\ x5' = x5 /\ x6' = x6 /\ x8' = x8 /\ x9' = x9 /\ x10' = x10
      /\ x7[c].pc = "mark" /\ x1' = [x1 EXCEPT ![s].sent = TRUE]
  BY DEF Live!MarkSent, Live!seatVars
<1>2. /\ x1' \in [Sessions -> LiveRow]
      /\ \A o \in Sessions :
           /\ x1'[o].status = x1[o].status /\ x1'[o].start = x1[o].start
           /\ x1'[o].length = x1[o].length /\ x1'[o].capacity = x1[o].capacity
           /\ o # s => x1'[o] = x1[o]
           /\ o = s => x1'[o].sent = TRUE
  <2>1. CASE s \in Sessions
    <3> DEFINE n1 == [x1[s] EXCEPT !.sent = TRUE]
    <3>1. x1' = [x1 EXCEPT ![s] = n1]
      BY <1>1
    <3>2. x1[s] \in LiveRow
      BY <1>0, <2>1 DEF LiveTyped
    <3>3. /\ n1 \in LiveRow /\ n1.status = x1[s].status /\ n1.start = x1[s].start
          /\ n1.length = x1[s].length /\ n1.capacity = x1[s].capacity
      BY <3>2 DEF LiveRow
    <3>4. n1.sent = TRUE
      BY <3>2, Zenon DEF LiveRow
    <3> HIDE DEF n1
    <3>5. x1'[s] = n1 /\ (\A o \in Sessions : o # s => x1'[o] = x1[o])
          /\ x1' \in [Sessions -> LiveRow]
      BY <1>0, <2>1, <3>1, <3>3 DEF LiveTyped
    <3> HIDE DEF s
    <3> QED BY <3>3, <3>4, <3>5, Zenon
  <2>2. CASE s \notin Sessions
    <3>1. x1' = x1
      BY <1>0, <1>1, <2>2 DEF LiveTyped
    <3> QED BY <1>0, <2>2, <3>1 DEF LiveTyped
  <2> QED BY <2>1, <2>2
<1>3. PICK new \in LiveTick :
        /\ x7' = [x7 EXCEPT ![c] = new] /\ new.pc # "mark"
        /\ new.todo \subseteq left
  <2>1. CASE left = {}
    <3>1. x7' = [x7 EXCEPT ![c] = Live!Asleep]
      BY <2>1 DEF Live!MarkSent
    <3> QED BY <3>1, LiveIdle
  <2>2. CASE left # {}
    <3> DEFINE n1 == [Live!Asleep EXCEPT !.pc = "notify"]
               n2 == [n1 EXCEPT !.todo = left]
    <3>1. x7' = [x7 EXCEPT ![c] = n2]
      BY <2>2 DEF Live!MarkSent
    <3>2. n1 \in LiveTick /\ n1.pc = "notify"
      BY LiveIdle DEF LiveTick
    <3> HIDE DEF n1
    <3>3. left \subseteq Sessions
      BY <1>0 DEF LiveTyped, LiveTick
    <3> HIDE DEF left
    <3>4. n2 \in LiveTick /\ n2.pc = "notify" /\ n2.todo = left
      BY <3>2, <3>3 DEF LiveTick
    <3> HIDE DEF n2
    <3> QED BY <3>1, <3>4
  <2> QED BY <2>1, <2>2
<1>4. x7'[c] = new /\ \A o \in Crons : o # c => x7'[o] = x7[o]
  BY <1>0, <1>3 DEF LiveTyped
<1>5. LiveTyped'
  <2>1. x7' \in [Crons -> LiveTick]
    BY <1>0, <1>3 DEF LiveTyped
  <2> QED BY <1>0, <1>1, <1>2, <2>1, Zenon DEF LiveTyped
<1>6. ASSUME x5' = FALSE PROVE LiveReminded'
  <2>1. LiveReminded
    BY <1>1, <1>6 DEF LiveInv
  <2>2. \A o \in Crons : o # c => x7'[o].pc = "idle" /\ x7[o].pc = "idle"
    BY <1>1, <1>4, <2>1 DEF LiveReminded
  <2>3. \A o, d \in Crons : o # d => x7'[o].pc = "idle" \/ x7'[d].pc = "idle"
    BY <2>2
  <2>4. \A o \in Crons :
          /\ x7'[o].pc # "idle" => \A q \in x7'[o].todo : x1'[q].sent = FALSE
          /\ x7'[o].pc = "mark" => x7'[o].session \in x7'[o].todo
    <3> TAKE o \in Crons
    <3>1. CASE o = c
      <4>1. x7'[o].pc # "mark" /\ x7'[o].todo \subseteq left
        BY <1>3, <1>4, <3>1
      <4>2. \A q \in left : q \in Sessions /\ q # s /\ q \in x7[c].todo
        BY <1>0 DEF LiveTyped, LiveTick
      <4>3. \A q \in left : x1'[q] = x1[q]
        BY <1>2, <4>2
      <4>4. \A q \in x7[c].todo : x1[q].sent = FALSE
        <5>1. x7[c].pc # "idle"
          BY <1>1
        <5> QED BY <2>1, <5>1, Zenon DEF LiveReminded
      <4>5. ASSUME NEW q \in left PROVE x1'[q].sent = FALSE
        <5>1. x1'[q] = x1[q] /\ q \in x7[c].todo
          BY <4>2, <4>3
        <5> HIDE DEF left, s
        <5> QED BY <4>4, <5>1, Zenon
      <4> HIDE DEF left, s
      <4> QED BY <4>1, <4>5, Zenon
    <3>2. CASE o # c
      <4>1. x7'[o].pc = "idle" /\ x7'[o].pc # "mark"
        BY <2>2, <3>2
      <4> QED BY <4>1
    <3> QED BY <3>1, <3>2
  <2>5. \A q \in Sessions : x3'[q] <= 1
    BY <1>1, <2>1 DEF LiveReminded
  <2>6. ASSUME NEW q \in Sessions, x1'[q].sent = FALSE PROVE x3'[q] = 0
    <3>1. q # s
      <4> HIDE DEF s
      <4> QED BY <1>2, <2>6, Zenon
    <3>2. \A o \in Crons : x7[o].pc = "mark" => x7[o].session # q
      BY <2>2, <3>1
    <3>3. x1[q].sent = FALSE
      <4> HIDE DEF s
      <4>1. x1'[q] = x1[q]
        BY <1>2, <3>1
      <4> QED BY <2>6, <4>1, Zenon
    <3>4. x3[q] = 0
      BY <2>1, <3>2, <3>3, Zenon DEF LiveReminded
    <3> QED BY <1>1, <3>4
  <2> QED BY <2>3, <2>4, <2>5, <2>6, Zenon DEF LiveReminded
<1>7. (x4' = FALSE => LiveFree') /\ LiveSeated'
  <2> HIDE DEF s
  <2> QED BY <1>1, <1>2, LiveMarked
<1> QED BY <1>5, <1>6, <1>7 DEF LiveInv

LEMMA LiveRests ==
  ASSUME LiveInv, (\E c \in Crons : Live!CrashCron(c)) \/ Live!Clock
  PROVE  LiveInv'
<1>0. LiveTyped
  BY DEF LiveInv
<1>1. /\ x1' = x1 /\ x3' = x3 /\ x4' = x4 /\ x6' = x6 /\ x8' = x8 /\ x9' = x9 /\ x10' = x10
  BY DEF Live!CrashCron, Live!Clock, Live!seatVars
<1>2. (x4' = FALSE => LiveFree') /\ LiveSeated'
  <2>1. x1' \in [Sessions -> LiveRow]
    BY <1>0, <1>1 DEF LiveTyped
  <2> QED BY <1>1, <2>1, LiveMarked
<1>3. ASSUME NEW c \in Crons, Live!CrashCron(c) PROVE LiveInv'
  <2>1. x5' = TRUE
    BY <1>3, Zenon DEF Live!CrashCron
  <2>2. x7' \in [Crons -> LiveTick]
    BY <1>0, <1>3, LiveIdle DEF LiveTyped, Live!CrashCron
  <2>3. x5' \in BOOLEAN /\ ~(x5' = FALSE)
    BY <2>1, Zenon
  <2>4. LiveTyped'
    BY <1>0, <1>1, <2>2, <2>3, Zenon DEF LiveTyped
  <2> QED BY <1>2, <2>3, <2>4, Zenon DEF LiveInv
<1>4. CASE Live!Clock
  <2>1. x5' = x5 /\ x7' = x7
    BY <1>4 DEF Live!Clock
  <2>2. LiveTyped'
    BY <1>0, <1>1, <2>1, Zenon DEF LiveTyped
  <2> QED BY <1>1, <1>2, <2>1, <2>2, LiveAside DEF LiveInv
<1> QED BY <1>3, <1>4

------------------------------------------------------------------------------
\* The places

LEMMA AttendeesCounted ==
  ASSUME NEW P
  PROVE  \A s \in Sessions :
           LET S == {u \in Students : <<s, u>> \in P}
           IN IsFiniteSet(S) /\ Cardinality(S) \in Nat
<1> TAKE s \in Sessions
<1> DEFINE S == {u \in Students : <<s, u>> \in P}
<1>1. S \subseteq Students
  OBVIOUS
<1> HIDE DEF S
<1>2. IsFiniteSet(S) /\ Cardinality(S) \in Nat
  BY <1>1, LiveBounds, FS_Subset, FS_CardinalityType
<1> QED BY <1>2 DEF S

LEMMA SeatsTyped ==
  ASSUME LiveInv, x1' = x1, x3' = x3, x4' = x4, x5' = x5, x6' = x6, x7' = x7,
         x8' \subseteq Sessions \X Students, x9' \in [Students -> SUBSET Sessions],
         x10' \subseteq Sessions, LiveSeated'
  PROVE  LiveInv'
<1>1. LiveTyped'
  BY Zenon DEF LiveInv, LiveTyped
<1>2. x4' = FALSE => LiveFree'
  BY Zenon DEF LiveInv, LiveFree, Clash
<1>3. x5' = FALSE => LiveReminded'
  BY Zenon DEF LiveInv, LiveReminded
<1> QED BY <1>1, <1>2, <1>3 DEF LiveInv

LEMMA SeatsKeep ==
  ASSUME LiveInv, NEW u \in Students, NEW s \in Sessions,
         Live!CheckRoom(u, s) \/ Live!TakePlace(u, s) \/ Live!CancelRsvp(u, s)
  PROVE  LiveInv'
<1>0. LiveTyped /\ LiveSeated
  BY DEF LiveInv
<1>1. x1' = x1 /\ x3' = x3 /\ x4' = x4 /\ x5' = x5 /\ x6' = x6 /\ x7' = x7
  BY DEF Live!CheckRoom, Live!TakePlace, Live!CancelRsvp
<1>2. \A o \in Sessions : x1[o].capacity \in Nat /\ x1'[o].capacity = x1[o].capacity
  <2>1. \A o \in Sessions : x1[o] \in LiveRow
    BY <1>0 DEF LiveTyped
  <2> QED BY <1>1, <2>1, LiveNumbers
<1>3. \A o \in Sessions : IsFiniteSet(Live!Attendees(o)) /\ Cardinality(Live!Attendees(o)) \in Nat
  BY AttendeesCounted DEF Live!Attendees
<1>4. x9 \in [Students -> SUBSET Sessions] /\ x8 \subseteq Sessions \X Students
      /\ x10 \subseteq Sessions
  BY <1>0 DEF LiveTyped
<1>5. CASE Live!CheckRoom(u, s)
  <2>1. /\ x9[u] = {} /\ x9' = [x9 EXCEPT ![u] = {s}] /\ x8' = x8
        /\ x10' = x10 \union (IF \E v \in Students : s \in x9[v] THEN {s} ELSE {})
        /\ Live!HasRoom(s)
    BY <1>5 DEF Live!CheckRoom
  <2>2. Cardinality(Live!Attendees(s)) < x1[s].capacity
    BY <2>1, LiveCardinality DEF Live!HasRoom
  <2>3. \A o : Live!Attendees(o)' = Live!Attendees(o)
    BY <2>1, Zenon DEF Live!Attendees
  <2>4. /\ x9' \in [Students -> SUBSET Sessions] /\ x9'[u] = {s}
        /\ \A v \in Students : v # u => x9'[v] = x9[v]
    BY <1>4, <2>1
  <2>5. /\ x10' \subseteq Sessions /\ x10 \subseteq x10'
        /\ s \notin x10' => \A v \in Students : s \notin x9[v]
    <3>1. CASE \E v \in Students : s \in x9[v]
      BY <1>4, <2>1, <3>1
    <3>2. CASE ~\E v \in Students : s \in x9[v]
      BY <1>4, <2>1, <3>2
    <3> QED BY <3>1, <3>2
  <2>6. LiveSeated'
    <3> SUFFICES ASSUME NEW o \in Sessions \ x10'
                 PROVE  /\ Cardinality(Live!Attendees(o)') <= x1'[o].capacity
                        /\ \A p, q \in Students : o \in x9'[p] /\ o \in x9'[q] => p = q
                        /\ \A p \in Students :
                             o \in x9'[p] => Cardinality(Live!Attendees(o)') < x1'[o].capacity
      BY DEF LiveSeated
    <3>1. Cardinality(Live!Attendees(o)') = Cardinality(Live!Attendees(o))
      BY <2>3
    <3>2. o \in Sessions \ x10
      BY <2>5
    <3>3. /\ Cardinality(Live!Attendees(o)) <= x1[o].capacity
          /\ \A p, q \in Students : o \in x9[p] /\ o \in x9[q] => p = q
          /\ \A p \in Students : o \in x9[p] => Cardinality(Live!Attendees(o)) < x1[o].capacity
      BY <1>0, <3>2 DEF LiveSeated
    <3>4. CASE o = s
      <4>1. \A p \in Students : o \in x9'[p] => p = u
        BY <2>4, <2>5, <3>4
      <4>2. Cardinality(Live!Attendees(o)) < x1[o].capacity
        BY <2>2, <3>4
      <4> QED BY <1>2, <3>1, <3>3, <4>1, <4>2
    <3>5. CASE o # s
      <4>1. \A p \in Students : o \in x9'[p] => o \in x9[p]
        BY <2>4, <3>5
      <4> QED BY <1>2, <3>1, <3>3, <4>1
    <3> QED BY <3>4, <3>5
  <2>7. x8' \subseteq Sessions \X Students
    BY <1>4, <2>1
  <2> QED BY <1>1, <2>4, <2>5, <2>6, <2>7, SeatsTyped
<1>6. CASE Live!TakePlace(u, s)
  <2>1. /\ s \in x9[u] /\ x8' = x8 \union {<<s, u>>} /\ x9' = [x9 EXCEPT ![u] = {}]
        /\ x10' = x10
    BY <1>6 DEF Live!TakePlace
  <2>2. /\ x9' \in [Students -> SUBSET Sessions] /\ x9'[u] = {}
        /\ \A v \in Students : v # u => x9'[v] = x9[v]
    BY <1>4, <2>1
  <2>3. /\ Live!Attendees(s)' = Live!Attendees(s) \union {u}
        /\ \A o \in Sessions : o # s => Live!Attendees(o)' = Live!Attendees(o)
    BY <2>1 DEF Live!Attendees
  <2>4. /\ Cardinality(Live!Attendees(s)') \in Nat
        /\ Cardinality(Live!Attendees(s)') <= Cardinality(Live!Attendees(s)) + 1
    <3>1. CASE u \in Live!Attendees(s)
      <4>1. Live!Attendees(s)' = Live!Attendees(s)
        BY <2>3, <3>1
      <4> QED BY <1>3, <4>1
    <3>2. CASE u \notin Live!Attendees(s)
      <4>1. IsFiniteSet(Live!Attendees(s)) /\ Cardinality(Live!Attendees(s)) \in Nat
        BY <1>3
      <4>2. Cardinality(Live!Attendees(s) \union {u}) = Cardinality(Live!Attendees(s)) + 1
        BY <3>2, <4>1, FS_AddElement
      <4> QED BY <2>3, <4>1, <4>2
    <3> QED BY <3>1, <3>2
  <2>6. LiveSeated'
    <3> SUFFICES ASSUME NEW o \in Sessions \ x10'
                 PROVE  /\ Cardinality(Live!Attendees(o)') <= x1'[o].capacity
                        /\ \A p, q \in Students : o \in x9'[p] /\ o \in x9'[q] => p = q
                        /\ \A p \in Students :
                             o \in x9'[p] => Cardinality(Live!Attendees(o)') < x1'[o].capacity
      BY DEF LiveSeated
    <3>1. o \in Sessions \ x10
      BY <2>1
    <3>2. /\ Cardinality(Live!Attendees(o)) <= x1[o].capacity
          /\ \A p, q \in Students : o \in x9[p] /\ o \in x9[q] => p = q
          /\ \A p \in Students : o \in x9[p] => Cardinality(Live!Attendees(o)) < x1[o].capacity
      BY <1>0, <3>1 DEF LiveSeated
    <3>3. CASE o = s
      <4>1. Cardinality(Live!Attendees(s)) < x1[s].capacity
        BY <2>1, <3>2, <3>3
      <4>2. \A p \in Students : o \notin x9'[p]
        BY <2>1, <2>2, <3>2, <3>3
      <4>3. Cardinality(Live!Attendees(s)') <= x1'[s].capacity
        BY <1>2, <1>3, <2>4, <4>1
      <4> QED BY <3>3, <4>2, <4>3
    <3>4. CASE o # s
      <4>1. Cardinality(Live!Attendees(o)') = Cardinality(Live!Attendees(o))
        BY <2>3, <3>4
      <4>2. \A p \in Students : o \in x9'[p] => o \in x9[p]
        BY <2>2
      <4> QED BY <1>2, <3>2, <4>1, <4>2
    <3> QED BY <3>3, <3>4
  <2>7. x8' \subseteq Sessions \X Students /\ x10' \subseteq Sessions
    BY <1>4, <2>1
  <2> QED BY <1>1, <2>2, <2>6, <2>7, SeatsTyped
<1>7. CASE Live!CancelRsvp(u, s)
  <2>1. x8' = x8 \ {<<s, u>>} /\ x9' = x9 /\ x10' = x10
    BY <1>7 DEF Live!CancelRsvp
  <2>2. \A o \in Sessions : Live!Attendees(o)' \subseteq Live!Attendees(o)
    BY <2>1 DEF Live!Attendees
  <2>3. \A o \in Sessions : /\ Cardinality(Live!Attendees(o)') \in Nat
                            /\ Cardinality(Live!Attendees(o)') <= Cardinality(Live!Attendees(o))
    <3> TAKE o \in Sessions
    <3>1. Live!Attendees(o)' \subseteq Live!Attendees(o) /\ IsFiniteSet(Live!Attendees(o))
      BY <1>3, <2>2
    <3> QED BY <3>1, FS_Subset, FS_CardinalityType
  <2>4. LiveSeated'
    <3> SUFFICES ASSUME NEW o \in Sessions \ x10'
                 PROVE  /\ Cardinality(Live!Attendees(o)') <= x1'[o].capacity
                        /\ \A p, q \in Students : o \in x9'[p] /\ o \in x9'[q] => p = q
                        /\ \A p \in Students :
                             o \in x9'[p] => Cardinality(Live!Attendees(o)') < x1'[o].capacity
      BY DEF LiveSeated
    <3>1. o \in Sessions \ x10
      BY <2>1
    <3>2. /\ Cardinality(Live!Attendees(o)) <= x1[o].capacity
          /\ \A p, q \in Students : o \in x9[p] /\ o \in x9[q] => p = q
          /\ \A p \in Students : o \in x9[p] => Cardinality(Live!Attendees(o)) < x1[o].capacity
      BY <1>0, <3>1 DEF LiveSeated
    <3> QED BY <1>2, <1>3, <2>1, <2>3, <3>2
  <2>5. x8' \subseteq Sessions \X Students /\ x10' \subseteq Sessions
        /\ x9' \in [Students -> SUBSET Sessions]
    BY <1>4, <2>1
  <2> QED BY <1>1, <2>4, <2>5, SeatsTyped
<1> QED BY <1>5, <1>6, <1>7

LEMMA LiveInductive == LiveInv /\ [Live!Next]_(Live!vars) => LiveInv'
<1> SUFFICES ASSUME LiveInv, [Live!Next]_(Live!vars) PROVE LiveInv'
  OBVIOUS
<1>1. CASE UNCHANGED Live!vars
  <2>1. /\ x1' = x1 /\ x3' = x3 /\ x4' = x4 /\ x5' = x5 /\ x6' = x6 /\ x7' = x7
        /\ x8' = x8 /\ x9' = x9 /\ x10' = x10
    BY <1>1 DEF Live!vars, Live!seatVars
  <2>2. LiveSeated'
    BY <2>1, LiveAside
  <2>3. x8' \subseteq Sessions \X Students /\ x9' \in [Students -> SUBSET Sessions]
        /\ x10' \subseteq Sessions
    BY <2>1 DEF LiveInv, LiveTyped
  <2> QED BY <2>1, <2>2, <2>3, SeatsTyped
<1>2. ASSUME NEW r \in Editors,
             \/ \E s \in Sessions :
                  Live!CheckSchedule(r, s) \/ Live!CheckMove(r, s) \/ Live!ReadForEdit(r, s)
             \/ Live!WriteSession(r) \/ Live!Abort(r)
      PROVE  LiveInv'
  BY <1>2, CheckScheduleKeeps, CheckMoveKeeps, ReadForEditKeeps, WriteSessionKeeps,
     LiveAbortKeeps
<1>3. ASSUME NEW c \in Crons,
             \/ Live!FindDue(c) \/ Live!MarkSent(c) \/ Live!CrashCron(c)
             \/ \E s \in Sessions : Live!NotifyStudents(c, s)
      PROVE  LiveInv'
  BY <1>3, FindDueKeeps, MarkSentKeeps, LiveRests, NotifyStudentsKeeps
<1>4. CASE Live!Clock
  BY <1>4, LiveRests
<1>5. CASE Live!SeatStep
  BY <1>5, SeatsKeep DEF Live!SeatStep
<1> QED BY <1>1, <1>2, <1>3, <1>4, <1>5 DEF Live!Next, Live!ScheduleStep

LEMMA LiveMeans == LiveInv => Live!TypeOK /\ Live!SessionsSound
<1> SUFFICES ASSUME LiveInv PROVE Live!TypeOK /\ Live!SessionsSound
  OBVIOUS
<1>0. LiveTyped
  BY DEF LiveInv
<1>1. Live!TypeOK
  <2>1. \A s \in Sessions :
          /\ x1[s].status \in {"none", "SCHEDULED", "RESCHEDULED", "CANCELLED"}
          /\ x1[s].start \in Starts \union {0}
          /\ x1[s].capacity \in Capacities \union {0} /\ x3[s] \in Nat
    BY <1>0 DEF LiveTyped, LiveRow
  <2>2. {x4, x5} \subseteq BOOLEAN
    BY <1>0, Zenon DEF LiveTyped
  <2>3. \A r \in Editors : x6[r].pc \in {"idle", "create", "update"}
    BY <1>0 DEF LiveTyped, LiveTask
  <2> QED BY <1>0, <2>1, <2>2, <2>3, Zenon DEF LiveTyped, Live!TypeOK
<1>2. ~x4 => Live!NoneOverlap
  <2> SUFFICES ASSUME ~x4 PROVE Live!NoneOverlap
    OBVIOUS
  <2>1. x4 = FALSE
    <3>1. x4 \in BOOLEAN
      BY <1>0 DEF LiveTyped
    <3> QED BY <3>1, Zenon
  <2>2. \A s, o \in Sessions : s # o => ~Clash(x1[s], x1[o])
    BY <2>1 DEF LiveInv, LiveFree
  <2> QED BY <2>2 DEF Live!NoneOverlap, Clash, Live!ActiveStatuses
<1>3. ~x5 => \A s \in Sessions : x3[s] <= 1
  <2>1. x5 \in BOOLEAN
    BY <1>0 DEF LiveTyped
  <2>2. x5 = FALSE => \A s \in Sessions : x3[s] <= 1
    BY Zenon DEF LiveInv, LiveReminded
  <2> QED BY <2>1, <2>2, Zenon
<1>4. \A s \in Sessions \ x10 : Live!Cardinality(Live!Attendees(s)) <= x1[s].capacity
  BY LiveCardinality DEF LiveInv, LiveSeated
<1>5. Live!SessionsSound
  BY <1>2, <1>3, <1>4, Zenon DEF Live!SessionsSound
<1> QED BY <1>1, <1>5

------------------------------------------------------------------------------
(***************************************************************************)
(* MediaUploads: x1 says whether scanning is on, x2 whether there is a     *)
(* client, x3 are the rows, x4 the requests, x5 the files on disk, x6 the  *)
(* jobs, x7 the clock, x8 the links, x9 what must not happen, x10 whether  *)
(* the limit is whole.  A request that is about to store has a row that    *)
(* says clean, which no other request writes, and it writes it no more;    *)
(* where some attempt is the last, a scan always has one left.             *)
(***************************************************************************)
MediaStates == {"idle", "open", "scan", "store", "queue", "answered", "refused"}
MediaRows ==
  [status : {"none", "pending", "scanning", "clean", "infected", "error"}, attempts : 0 .. MaxScans]
MediaTypes ==
  /\ x1 \in BOOLEAN /\ x2 \in BOOLEAN /\ x9 = FALSE /\ x10 \in BOOLEAN
  /\ x3 \in [Uploads -> MediaRows] /\ x4 \in [Uploads -> MediaStates]
  /\ x5 \subseteq Uploads /\ x6 \in [Uploads -> {"none", "waiting", "active", "done", "failed"}]
  /\ x7 \in 0 .. Seconds /\ x8 \in [Uploads -> SUBSET Int]
MediaLimited == x10 = TRUE /\ MaxScans > 0
MediaPassed(u, status) ==
  /\ status = "clean" \/ (status = "scanning" /\ ~MediaLimited)
  /\ x1 = TRUE /\ u \in Malware => status # "clean"
MediaScanned ==
  \A u \in Uploads : x4[u] = "store" \/ u \in x5 => MediaPassed(u, x3[u].status)
MediaTries ==
  \A u \in Uploads :
    /\ x4[u] = "open" => x3[u].attempts = 0
    /\ x4[u] = "scan" => x3[u].status = "scanning"
    /\ x4[u] = "scan" /\ MediaLimited => x3[u].attempts < MaxScans
MediaPlaced ==
  \A u \in Uploads :
    /\ u \in x5 => x4[u] \in {"queue", "answered", "refused"}
    /\ x4[u] = "queue" \/ x6[u] # "none" => u \in x5
MediaInv == MediaTypes /\ MediaScanned /\ MediaTries /\ MediaPlaced

LEMMA MediaBounds == MaxScans \in Nat /\ Seconds \in Nat /\ LinkTtl \in Nat
BY PlatformAssumption DEF Media!ConstantsAssumption

LEMMA MediaInitially == Media!Init => MediaInv
<1> SUFFICES ASSUME Media!Init PROVE MediaInv
  OBVIOUS
<1>1. x3 = [u \in Uploads |-> Media!NoRow] /\ Media!NoRow \in MediaRows
  BY MediaBounds DEF Media!Init, Media!NoRow, MediaRows
<1>2. x1 \in BOOLEAN /\ x2 \in BOOLEAN /\ x9 = FALSE /\ x10 \in BOOLEAN
  BY Zenon DEF Media!Init
<1>3. /\ x4 = [u \in Uploads |-> "idle"] /\ x5 = {} /\ x6 = [u \in Uploads |-> "none"]
      /\ x7 = 0 /\ x8 = [u \in Uploads |-> {}]
  BY Zenon DEF Media!Init
<1>4. MediaTypes
  <2>1. x3 \in [Uploads -> MediaRows] /\ x4 \in [Uploads -> MediaStates]
    BY <1>1, <1>3 DEF MediaStates
  <2>2. /\ x5 \subseteq Uploads /\ x8 \in [Uploads -> SUBSET Int]
        /\ x6 \in [Uploads -> {"none", "waiting", "active", "done", "failed"}]
    BY <1>3
  <2>3. x7 \in 0 .. Seconds
    BY <1>3, MediaBounds
  <2> QED BY <1>2, <2>1, <2>2, <2>3, Zenon DEF MediaTypes
<1>5. MediaScanned /\ MediaTries /\ MediaPlaced
  BY <1>3 DEF MediaScanned, MediaTries, MediaPlaced
<1> QED BY <1>4, <1>5 DEF MediaInv

\* A step of one request before it stores.
LEMMA ScanMoves ==
  ASSUME MediaInv, NEW u \in Uploads, x4[u] \in {"idle", "open", "scan"},
         x1' = x1, x2' \in BOOLEAN, x5' = x5, x6' = x6, x7' = x7, x8' = x8, x9' = x9,
         x10' = x10,
         NEW new \in MediaRows, x3' = [x3 EXCEPT ![u] = new],
         NEW pc \in MediaStates \ {"queue"}, x4' = [x4 EXCEPT ![u] = pc],
         pc = "store" => MediaPassed(u, new.status),
         pc = "open" => new.attempts = 0,
         pc = "scan" => new.status = "scanning" /\ (MediaLimited => new.attempts < MaxScans)
  PROVE  MediaInv'
<1>1. x3'[u] = new /\ x4'[u] = pc /\ \A v \in Uploads : v # u => x3'[v] = x3[v] /\ x4'[v] = x4[v]
  BY DEF MediaInv, MediaTypes
<1>2. MediaTypes'
  <2>1. x3' \in [Uploads -> MediaRows] /\ x4' \in [Uploads -> MediaStates]
    BY DEF MediaInv, MediaTypes
  <2> QED BY <2>1 DEF MediaInv, MediaTypes
<1>3. u \notin x5
  BY DEF MediaInv, MediaPlaced
<1>4. MediaScanned' /\ MediaPlaced'
  BY <1>1, <1>3 DEF MediaInv, MediaScanned, MediaPlaced, MediaPassed, MediaLimited
<1>5. MediaTries'
  BY <1>1 DEF MediaInv, MediaTries, MediaLimited
<1> QED BY <1>2, <1>4, <1>5 DEF MediaInv

LEMMA ScansKeep ==
  ASSUME MediaInv, NEW u \in Uploads,
         \/ Media!StartUpload(u) \/ Media!Bypass(u) \/ Media!OpenScanner(u)
         \/ Media!ScannerUnavailable(u) \/ Media!ScanFinds(u) \/ Media!ScanFails(u)
         \/ Media!ScanRunsOut(u)
  PROVE  MediaInv'
<1> USE MediaBounds
<1> USE DEF Media!SetRow, Media!Go, Media!scanner, Media!delivery
<1>0. /\ x3[u] \in MediaRows /\ x3 \in [Uploads -> MediaRows] /\ x4 \in [Uploads -> MediaStates]
      /\ x1 \in BOOLEAN /\ x2 \in BOOLEAN /\ x10 \in BOOLEAN
  BY DEF MediaInv, MediaTypes
<1>1. \A status \in {"none", "pending", "scanning", "clean", "infected", "error"} :
         /\ [x3[u] EXCEPT !.status = status] \in MediaRows
         /\ [x3[u] EXCEPT !.status = status].status = status
         /\ [x3[u] EXCEPT !.status = status].attempts = x3[u].attempts
  BY <1>0 DEF MediaRows
<1>2. CASE Media!StartUpload(u)
  <2>1. PICK new \in MediaRows : x3' = [x3 EXCEPT ![u] = new] /\ new.attempts = 0
    <3> DEFINE fresh == [status |-> "pending", attempts |-> 0]
    <3>1. fresh \in MediaRows /\ fresh.attempts = 0
      BY DEF MediaRows
    <3> QED BY <1>2, <3>1, Zenon DEF Media!StartUpload
  <2>2. /\ x4[u] = "idle" /\ x4' = [x4 EXCEPT ![u] = "open"]
        /\ x1' = x1 /\ x2' = x2 /\ x5' = x5 /\ x6' = x6 /\ x7' = x7 /\ x8' = x8 /\ x9' = x9
        /\ x10' = x10
    BY <1>2 DEF Media!StartUpload
  <2>3. "open" \in MediaStates \ {"queue"} /\ x2' \in BOOLEAN
    BY <1>0, <2>2 DEF MediaStates
  <2> QED BY <2>1, <2>2, <2>3, ScanMoves
<1>3. CASE Media!Bypass(u)
  <2>1. /\ x4[u] = "open" /\ x4' = [x4 EXCEPT ![u] = "store"] /\ x1 = FALSE
        /\ x1' = x1 /\ x2' = x2 /\ x5' = x5 /\ x6' = x6 /\ x7' = x7 /\ x8' = x8 /\ x9' = x9
        /\ x10' = x10
        /\ x3' = [x3 EXCEPT ![u] = [x3[u] EXCEPT !.status = "clean"]]
    BY <1>0, <1>3 DEF Media!Bypass
  <2>2. PICK new \in MediaRows : x3' = [x3 EXCEPT ![u] = new] /\ new.status = "clean"
    BY <1>1, <2>1
  <2>3. "store" \in MediaStates \ {"queue"} /\ x2' \in BOOLEAN
    BY <1>0, <2>1 DEF MediaStates
  <2>4. MediaPassed(u, new.status)
    BY <2>1, <2>2 DEF MediaPassed
  <2> QED BY <2>1, <2>2, <2>3, <2>4, ScanMoves
<1>4. CASE Media!OpenScanner(u)
  <2>1. /\ x4[u] = "open" /\ x4' = [x4 EXCEPT ![u] = "scan"] /\ x2' = TRUE
        /\ x1' = x1 /\ x5' = x5 /\ x6' = x6 /\ x7' = x7 /\ x8' = x8 /\ x9' = x9
        /\ x10' = x10
        /\ x3' = [x3 EXCEPT ![u] = [x3[u] EXCEPT !.status = "scanning"]]
    BY <1>0, <1>4 DEF Media!OpenScanner
  <2>2. PICK new \in MediaRows : /\ x3' = [x3 EXCEPT ![u] = new] /\ new.status = "scanning"
                                 /\ new.attempts = x3[u].attempts
    BY <1>1, <2>1
  <2>3. "scan" \in MediaStates \ {"queue"}
    BY DEF MediaStates
  <2>4. MediaLimited => new.attempts < MaxScans
    BY <2>1, <2>2 DEF MediaInv, MediaTries, MediaLimited
  <2> QED BY <2>1, <2>2, <2>3, <2>4, ScanMoves
<1>5. CASE Media!ScannerUnavailable(u)
  <2>1. /\ x4[u] = "open" /\ x4' = [x4 EXCEPT ![u] = "refused"]
        /\ x1' = x1 /\ x2' = x2 /\ x5' = x5 /\ x6' = x6 /\ x7' = x7 /\ x8' = x8 /\ x9' = x9
        /\ x10' = x10
        /\ x3' = [x3 EXCEPT ![u] = [x3[u] EXCEPT !.status = "error"]]
    BY <1>0, <1>5 DEF Media!ScannerUnavailable
  <2>2. PICK new \in MediaRows : x3' = [x3 EXCEPT ![u] = new]
    BY <1>1, <2>1
  <2>3. "refused" \in MediaStates \ {"queue"} /\ x2' \in BOOLEAN
    BY <1>0, <2>1 DEF MediaStates
  <2> QED BY <2>1, <2>2, <2>3, ScanMoves
<1>6. CASE Media!ScanFinds(u)
  <2>1. /\ x4[u] = "scan" /\ x3[u].attempts < MaxScans
        /\ x1' = x1 /\ x2' = x2 /\ x5' = x5 /\ x6' = x6 /\ x7' = x7 /\ x8' = x8 /\ x9' = x9
        /\ x10' = x10
    BY <1>6 DEF Media!ScanFinds
  <2>2. x3[u].attempts + 1 \in 0 .. MaxScans
    BY <1>0, <2>1 DEF MediaRows
  <2>3. CASE u \in Malware
    <3>1. /\ x3' = [x3 EXCEPT ![u] = [status |-> "infected", attempts |-> x3[u].attempts + 1]]
          /\ x4' = [x4 EXCEPT ![u] = "refused"]
      BY <1>0, <1>6, <2>3 DEF Media!ScanFinds
    <3>2. PICK new \in MediaRows : x3' = [x3 EXCEPT ![u] = new]
      BY <2>2, <3>1 DEF MediaRows
    <3>3. "refused" \in MediaStates \ {"queue"} /\ x2' \in BOOLEAN
      BY <1>0, <2>1 DEF MediaStates
    <3> QED BY <2>1, <3>1, <3>2, <3>3, ScanMoves
  <2>4. CASE u \notin Malware
    <3>1. /\ x3' = [x3 EXCEPT ![u] = [status |-> "clean", attempts |-> x3[u].attempts + 1]]
          /\ x4' = [x4 EXCEPT ![u] = "store"]
      BY <1>0, <1>6, <2>4 DEF Media!ScanFinds
    <3>2. PICK new \in MediaRows : x3' = [x3 EXCEPT ![u] = new] /\ new.status = "clean"
      <4> DEFINE clean == [status |-> "clean", attempts |-> x3[u].attempts + 1]
      <4>1. clean \in MediaRows /\ clean.status = "clean"
        BY <2>2 DEF MediaRows
      <4> QED BY <3>1, <4>1, Zenon
    <3>3. "store" \in MediaStates \ {"queue"} /\ x2' \in BOOLEAN
      BY <1>0, <2>1 DEF MediaStates
    <3>4. MediaPassed(u, new.status)
      BY <2>4, <3>2 DEF MediaPassed
    <3> QED BY <2>1, <3>1, <3>2, <3>3, <3>4, ScanMoves
  <2> QED BY <2>3, <2>4
<1>7. CASE Media!ScanFails(u)
  <2>1. /\ x4[u] = "scan" /\ x3[u].attempts < MaxScans
        /\ x1' = x1 /\ x5' = x5 /\ x6' = x6 /\ x7' = x7 /\ x8' = x8 /\ x9' = x9
        /\ x10' = x10
    BY <1>7 DEF Media!ScanFails
  <2>2. x3[u].attempts + 1 \in 0 .. MaxScans
    BY <1>0, <2>1 DEF MediaRows
  <2>3. CASE x10 /\ x3[u].attempts + 1 = MaxScans
    <3>1. /\ x3' = [x3 EXCEPT ![u] = [status |-> "error", attempts |-> MaxScans]]
          /\ x4' = [x4 EXCEPT ![u] = "refused"] /\ x2' = FALSE
      BY <1>7, <2>3 DEF Media!ScanFails, Media!AfterLastAttempt
    <3>2. PICK new \in MediaRows : x3' = [x3 EXCEPT ![u] = new]
      <4>1. [status |-> "error", attempts |-> MaxScans] \in MediaRows
        BY DEF MediaRows
      <4> QED BY <3>1, <4>1, Zenon
    <3>3. "refused" \in MediaStates \ {"queue"}
      BY DEF MediaStates
    <3> QED BY <2>1, <3>1, <3>2, <3>3, ScanMoves
  <2>4. CASE ~(x10 /\ x3[u].attempts + 1 = MaxScans)
    <3>1. /\ x3' = [x3 EXCEPT ![u] = [x3[u] EXCEPT !.attempts = x3[u].attempts + 1]]
          /\ x4' = x4 /\ x2' = x2
      BY <1>0, <1>7, <2>4 DEF Media!ScanFails
    <3>2. PICK new \in MediaRows : /\ x3' = [x3 EXCEPT ![u] = new] /\ new.status = x3[u].status
                                   /\ new.attempts = x3[u].attempts + 1
      <4> DEFINE again == [x3[u] EXCEPT !.attempts = x3[u].attempts + 1]
      <4>1. /\ again \in MediaRows /\ again.status = x3[u].status
            /\ again.attempts = x3[u].attempts + 1
        BY <1>0, <2>2 DEF MediaRows
      <4> QED BY <3>1, <4>1, Zenon
    <3>3. "scan" \in MediaStates \ {"queue"} /\ x2' \in BOOLEAN /\ x4' = [x4 EXCEPT ![u] = "scan"]
      BY <1>0, <2>1, <3>1 DEF MediaStates
    <3>4. x3[u].status = "scanning"
      BY <2>1 DEF MediaInv, MediaTries
    <3>5. MediaLimited => x3[u].attempts + 1 # MaxScans
      BY <2>4, Zenon DEF MediaLimited
    <3>6. MediaLimited => new.attempts < MaxScans
      BY <2>2, <3>2, <3>5
    <3> QED BY <2>1, <3>2, <3>3, <3>4, <3>6, ScanMoves
  <2> QED BY <2>3, <2>4
<1>8. CASE Media!ScanRunsOut(u)
  <2>1. /\ x4[u] = "scan" /\ x3[u].attempts = MaxScans /\ x4' = [x4 EXCEPT ![u] = "store"]
        /\ x1' = x1 /\ x2' = x2 /\ x5' = x5 /\ x6' = x6 /\ x7' = x7 /\ x8' = x8 /\ x9' = x9
        /\ x10' = x10 /\ x3' = [x3 EXCEPT ![u] = x3[u]]
    BY <1>0, <1>8 DEF Media!ScanRunsOut
  <2>2. x3[u].status = "scanning" /\ ~MediaLimited
    BY <2>1 DEF MediaInv, MediaTries
  <2>3. MediaPassed(u, x3[u].status)
    BY <2>2 DEF MediaPassed
  <2>4. "store" \in MediaStates \ {"queue"} /\ x2' \in BOOLEAN
    BY <1>0, <2>1 DEF MediaStates
  <2> QED BY <1>0, <2>1, <2>3, <2>4, ScanMoves
<1> QED BY <1>2, <1>3, <1>4, <1>5, <1>6, <1>7, <1>8

LEMMA StoreFileKeeps == ASSUME MediaInv, NEW u \in Uploads, Media!StoreFile(u) PROVE MediaInv'
<1>1. /\ x4[u] = "store" /\ x5' = x5 \union {u}
      /\ x1' = x1 /\ x2' = x2 /\ x3' = x3 /\ x6' = x6 /\ x7' = x7 /\ x9' = x9
      /\ x10' = x10
  BY DEF Media!StoreFile, Media!scanner
<1>2. PICK pc \in {"queue", "answered"} : x4' = [x4 EXCEPT ![u] = pc]
  BY DEF Media!StoreFile, Media!Go
<1>3. x4'[u] = pc /\ \A v \in Uploads : v # u => x4'[v] = x4[v]
  BY <1>2 DEF MediaInv, MediaTypes
<1>4. MediaTypes'
  <2>1. x4' \in [Uploads -> MediaStates] /\ x5' \subseteq Uploads
    BY <1>1, <1>2 DEF MediaInv, MediaTypes, MediaStates
  <2>2. x8' \in [Uploads -> SUBSET Int]
    <3>1. x7 + LinkTtl \in Int /\ x8 \in [Uploads -> SUBSET Int]
      BY MediaBounds DEF MediaInv, MediaTypes
    <3> QED BY <3>1 DEF Media!StoreFile
  <2> QED BY <1>1, <2>1, <2>2 DEF MediaInv, MediaTypes
<1>5. MediaScanned' /\ MediaTries' /\ MediaPlaced'
  BY <1>1, <1>3 DEF MediaInv, MediaScanned, MediaTries, MediaPlaced, MediaPassed, MediaLimited
<1> QED BY <1>4, <1>5 DEF MediaInv

LEMMA JobsKeep ==
  ASSUME MediaInv, NEW u \in Uploads,
         Media!QueueTranscode(u) \/ Media!TakeJob(u) \/ Media!FinishJob(u)
  PROVE  MediaInv'
<1>1. x1' = x1 /\ x2' = x2 /\ x3' = x3 /\ x5' = x5 /\ x7' = x7 /\ x8' = x8 /\ x9' = x9
        /\ x10' = x10
  BY DEF Media!QueueTranscode, Media!TakeJob, Media!FinishJob, Media!scanner, Media!delivery
<1>2. PICK new \in {"waiting", "active", "done", "failed"} : x6' = [x6 EXCEPT ![u] = new]
  BY DEF Media!QueueTranscode, Media!TakeJob, Media!FinishJob
<1>3. u \in x5
  BY DEF MediaInv, MediaPlaced, Media!QueueTranscode, Media!TakeJob, Media!FinishJob
<1>4. x4' = x4 \/ x4' = [x4 EXCEPT ![u] = "answered"]
  BY DEF Media!QueueTranscode, Media!TakeJob, Media!FinishJob, Media!Go
<1>5. /\ \A v \in Uploads : v # u => x4'[v] = x4[v] /\ x6'[v] = x6[v]
      /\ x4'[u] = x4[u] \/ x4'[u] = "answered"
  BY <1>2, <1>4 DEF MediaInv, MediaTypes
<1>6. MediaTypes'
  <2>1. /\ x4' \in [Uploads -> MediaStates]
        /\ x6' \in [Uploads -> {"none", "waiting", "active", "done", "failed"}]
    BY <1>2, <1>4 DEF MediaInv, MediaTypes, MediaStates
  <2> QED BY <1>1, <2>1 DEF MediaInv, MediaTypes
<1>7. MediaScanned' /\ MediaTries' /\ MediaPlaced'
  BY <1>1, <1>3, <1>5 DEF MediaInv, MediaScanned, MediaTries, MediaPlaced, MediaPassed, MediaLimited
<1> QED BY <1>6, <1>7 DEF MediaInv

LEMMA CutsKeep ==
  ASSUME MediaInv, Media!Restart \/ \E u \in Uploads : Media!CutShort(u)
  PROVE  MediaInv'
<1>0. x4 \in [Uploads -> MediaStates] /\ x2 \in BOOLEAN
  BY DEF MediaInv, MediaTypes
<1>1. /\ x1' = x1 /\ x3' = x3 /\ x5' = x5 /\ x6' = x6 /\ x7' = x7 /\ x8' = x8 /\ x9' = x9
        /\ x10' = x10
      /\ x2' \in BOOLEAN
  <2>1. CASE Media!Restart
    BY <2>1 DEF Media!Restart, Media!delivery
  <2>2. CASE \E u \in Uploads : Media!CutShort(u)
    BY <1>0, <2>2 DEF Media!CutShort, Media!delivery, Media!scanner
  <2> QED BY <2>1, <2>2
<1>2. /\ x4' \in [Uploads -> MediaStates]
      /\ \A u \in Uploads : x4'[u] = x4[u] \/ x4'[u] = "refused"
  BY <1>0 DEF Media!Restart, Media!CutShort, Media!Go, MediaStates
<1>3. MediaTypes'
  BY <1>1, <1>2 DEF MediaInv, MediaTypes
<1>4. MediaScanned' /\ MediaTries' /\ MediaPlaced'
  BY <1>1, <1>2 DEF MediaInv, MediaScanned, MediaTries, MediaPlaced, MediaPassed, MediaLimited
<1> QED BY <1>3, <1>4 DEF MediaInv

LEMMA LinksKeep ==
  ASSUME MediaInv, Media!Clock \/ \E u \in Uploads : Media!IssueLink(u)
  PROVE  MediaInv'
<1>1. x1' = x1 /\ x2' = x2 /\ x3' = x3 /\ x4' = x4 /\ x5' = x5 /\ x6' = x6 /\ x9' = x9
      /\ x10' = x10
  BY DEF Media!Clock, Media!IssueLink, Media!scanner
<1>2. x7 \in 0 .. Seconds /\ x8 \in [Uploads -> SUBSET Int]
  BY DEF MediaInv, MediaTypes
<1>3. x7' \in 0 .. Seconds
  BY <1>2, MediaBounds DEF Media!Clock, Media!IssueLink
<1>4. x8' \in [Uploads -> SUBSET Int]
  <2>1. x7 + LinkTtl \in Int
    BY <1>2, MediaBounds
  <2> QED BY <1>2, <2>1 DEF Media!Clock, Media!IssueLink
<1>5. MediaTypes'
  BY <1>1, <1>3, <1>4 DEF MediaInv, MediaTypes
<1>6. MediaScanned' /\ MediaTries' /\ MediaPlaced'
  BY <1>1 DEF MediaInv, MediaScanned, MediaTries, MediaPlaced, MediaPassed, MediaLimited
<1> QED BY <1>5, <1>6 DEF MediaInv

LEMMA ServeKeeps ==
  ASSUME MediaInv, NEW u \in Uploads, NEW path \in Uploads, NEW expires \in x8[path] \union {0},
         Media!Serve(u, path, expires)
  PROVE  MediaInv'
<1>1. /\ x1' = x1 /\ x2' = x2 /\ x3' = x3 /\ x4' = x4 /\ x5' = x5 /\ x6' = x6 /\ x7' = x7
      /\ x8' = x8 /\ x10' = x10
  BY DEF Media!Serve, Media!scanner
<1>2. u \in Private => \E e \in x8[u] : ~(x7 > e)
  <2> SUFFICES ASSUME u \in Private PROVE \E e \in x8[u] : ~(x7 > e)
    OBVIOUS
  <2>1. x7 <= expires /\ expires \in x8[u]
    BY DEF Media!Serve, Media!Verified
  <2>2. x7 \in Int /\ expires \in Int
    BY <2>1, MediaBounds DEF MediaInv, MediaTypes
  <2> QED BY <2>1, <2>2
<1>3. x9' = FALSE
  <2>1. ~(u \in Private /\ \A e \in x8[u] : x7 > e)
    BY <1>2, Zenon
  <2>2. x9 = FALSE
    BY DEF MediaInv, MediaTypes
  <2> QED BY <2>1, <2>2, Zenon DEF Media!Serve
<1>4. MediaTypes'
  BY <1>1, <1>3 DEF MediaInv, MediaTypes
<1>5. MediaScanned' /\ MediaTries' /\ MediaPlaced'
  BY <1>1 DEF MediaInv, MediaScanned, MediaTries, MediaPlaced, MediaPassed, MediaLimited
<1> QED BY <1>4, <1>5 DEF MediaInv

LEMMA MediaInductive == MediaInv /\ [Media!Next]_(Media!vars) => MediaInv'
<1> SUFFICES ASSUME MediaInv, [Media!Next]_(Media!vars) PROVE MediaInv'
  OBVIOUS
<1>1. CASE UNCHANGED Media!vars
  BY <1>1 DEF Media!vars, MediaInv, MediaTypes, MediaScanned, MediaTries, MediaPlaced,
            MediaPassed, MediaLimited
<1>2. ASSUME NEW u \in Uploads,
             \/ Media!StartUpload(u) \/ Media!Bypass(u) \/ Media!OpenScanner(u)
             \/ Media!ScannerUnavailable(u) \/ Media!ScanFinds(u) \/ Media!ScanFails(u)
             \/ Media!ScanRunsOut(u)
      PROVE  MediaInv'
  BY <1>2, ScansKeep
<1>3. ASSUME NEW u \in Uploads,
             \/ Media!StoreFile(u) \/ Media!QueueTranscode(u) \/ Media!CutShort(u)
             \/ Media!TakeJob(u) \/ Media!FinishJob(u) \/ Media!IssueLink(u)
      PROVE  MediaInv'
  BY <1>3, StoreFileKeeps, JobsKeep, CutsKeep, LinksKeep
<1>4. ASSUME NEW u \in Uploads, NEW path \in Uploads, NEW expires \in x8[path] \union {0},
             Media!Serve(u, path, expires)
      PROVE  MediaInv'
  BY <1>4, ServeKeeps
<1>5. CASE Media!Clock \/ Media!Restart
  BY <1>5, LinksKeep, CutsKeep
<1> QED BY <1>1, <1>2, <1>3, <1>4, <1>5 DEF Media!Next

LEMMA MediaMeans == MediaInv => Media!TypeOK /\ Media!MediaSound
<1> SUFFICES ASSUME MediaInv PROVE Media!TypeOK /\ Media!MediaSound
  OBVIOUS
<1>1. x1 \in BOOLEAN /\ x2 \in BOOLEAN /\ x9 = FALSE /\ x10 \in BOOLEAN
      /\ x5 \subseteq Uploads /\ x7 \in 0 .. Seconds
  BY DEF MediaInv, MediaTypes
<1>2. \A u \in Uploads :
        /\ x3[u].status \in {"none", "pending", "scanning", "clean", "infected", "error"}
        /\ x3[u].attempts \in 0 .. MaxScans
        /\ x4[u] \in {"idle", "open", "scan", "store", "queue", "answered", "refused"}
        /\ x6[u] \in {"none", "waiting", "active", "done", "failed"}
  BY DEF MediaInv, MediaTypes, MediaRows, MediaStates
<1>3. Media!TypeOK
  <2>1. {x1, x10, x2, x9} \subseteq BOOLEAN
    BY <1>1, Zenon
  <2> QED BY <1>1, <1>2, <2>1, Zenon DEF Media!TypeOK
<1>4. Media!MediaSound
  <2>1. MediaLimited <=> Media!Limited
    BY <1>1, Zenon DEF MediaLimited, Media!Limited
  <2>2. \A u \in x5 : x3[u].status = "clean" \/ (x3[u].status = "scanning" /\ ~Media!Limited)
    BY <1>1, <2>1 DEF MediaInv, MediaScanned, MediaPassed
  <2>3. x1 = TRUE => \A u \in x5 \intersect Malware : x3[u].status # "clean"
    BY <1>1 DEF MediaInv, MediaScanned, MediaPassed
  <2>4. \A u \in Uploads : x6[u] # "none" => u \in x5
    BY DEF MediaInv, MediaPlaced
  <2> QED BY <1>1, <2>2, <2>3, <2>4, Zenon DEF Media!MediaSound
<1> QED BY <1>3, <1>4

------------------------------------------------------------------------------
(***************************************************************************)
(* Notifications: x1 is the day, x2 the rows, x3 the mails, x4 the         *)
(* channels, x5 the preference for digests, x6 the tokens, x7 the live     *)
(* devices, x8 the requests, x9 the digest run, x10 what was in a digest,  *)
(* x11 what slipped through, x12 the devices whose token was rejected and  *)
(* is good; x13 to x18 are the text messages.  While a digest     *)
(* runs, what is unread was found or was in an earlier one; a token that   *)
(* is to be deactivated is of one of these or of no live device; and a text that arrived and  *)
(* has no callback to come had its id stored first.                        *)
(***************************************************************************)
NotifyRow == [at : -1 .. Days, read : BOOLEAN, emailSent : BOOLEAN]
NotifyDigest == [there : BOOLEAN, on : BOOLEAN, last : -1 .. Days]
NotifyTask ==
  [pc : {"idle", "create", "digest", "enqueue", "list", "push"}, channels : SUBSET Channels,
   note : Notes \union {Notify!Idle.note}, tokens : SUBSET Devices, rejected : SUBSET Devices]
NotifyRun == [pc : {"idle", "found", "mailed"}, since : Int, found : SUBSET Notes]
NotifyTyped ==
  /\ x1 \in 0 .. Days /\ x2 \in [Notes -> NotifyRow] /\ x3 \in [Notes -> 0 .. MailTries]
  /\ x4 \subseteq Channels /\ x5 \in NotifyDigest
  /\ x6 \in [Devices -> {"none", "mine", "other", "inactive"}] /\ x7 \subseteq Devices
  /\ x8 \in [Notifiers -> NotifyTask] /\ x9 \in NotifyRun
  /\ x10 \subseteq Notes /\ x11 \subseteq Notes /\ x12 \subseteq Devices
InboxSound ==
  /\ \A n \in Notes : x2[n].at <= x1 /\ (x2[n].at = -1 => x2[n] = Notify!NoRow)
  /\ \A n \in Notes : x3[n] > 0 => x2[n].at # -1
  /\ \A r \in Notifiers :
       x8[r].pc \in {"digest", "enqueue"} => x8[r].note \in Notes /\ x2[x8[r].note].at # -1
Unread(n) == x2[n].at # -1 /\ x2[n].read = FALSE
DigestSound ==
  /\ x5.last <= x1
  /\ \A n \in Notes \ x11 : Unread(n) /\ x2[n].at < x5.last => n \in x10
  /\ x9.pc # "idle" => \A n \in Notes \ x11 : Unread(n) => n \in x9.found \union x10
  /\ x9.pc = "mailed" => x9.found \subseteq x10
PushSound ==
  /\ \A d \in x7 \ x12 : x6[d] # "inactive"
  /\ \A r \in Notifiers, d \in x7 \ x12 : d \notin x8[r].rejected
TextTyped ==
  /\ x13 \in [Texts -> {"none", "PENDING", "SENT", "DELIVERED", "FAILED"}]
  /\ x14 \subseteq Texts /\ x15 \subseteq Texts /\ x18 \subseteq Texts
  /\ x16 \in [Texts -> {"none", "taken", "delivered", "lost"}]
  /\ x17 \in [Texts -> SUBSET {"delivered", "failed"}]
TextSound ==
  \A m \in Texts :
    /\ m \in x14 => m \notin x15
    /\ x13[m] = "none" => m \notin x14 /\ m \notin x15 /\ x16[m] = "none"
    /\ x16[m] = "delivered" /\ m \notin x18 =>
         /\ x17[m] \subseteq {"delivered"}
         /\ x17[m] = {} => m \in x14 /\ x13[m] = "DELIVERED"
NotifyInv ==
  NotifyTyped /\ InboxSound /\ DigestSound /\ PushSound /\ TextTyped /\ TextSound

LEMMA NotifyBounds ==
  /\ MailTries \in Nat \ {0} /\ Days \in Nat
  /\ 0 \in 0 .. Days /\ -1 \in -1 .. Days /\ 0 \in 0 .. MailTries /\ MailTries \in 0 .. MailTries
<1>1. MailTries \in Nat \ {0} /\ Days \in Nat
  BY PlatformAssumption DEF Notify!ConstantsAssumption
<1> QED BY <1>1

LEMMA NotifyNoRow ==
  Notify!NoRow \in NotifyRow /\ Notify!NoRow.at = -1
BY NotifyBounds DEF Notify!NoRow, NotifyRow

LEMMA NotifyIdle ==
  /\ Notify!Idle \in NotifyTask /\ Notify!Idle.pc = "idle" /\ Notify!Idle.rejected = {}
  /\ Notify!NoRun \in NotifyRun /\ Notify!NoRun.pc = "idle"
<1>1. Notify!Idle = [pc |-> "idle", channels |-> {}, note |-> Notify!Idle.note, tokens |-> {},
                     rejected |-> {}]
  BY DEF Notify!Idle
<1>2. Notify!NoRun \in NotifyRun /\ Notify!NoRun.pc = "idle"
  BY DEF Notify!NoRun, NotifyRun
<1> QED BY <1>1, <1>2 DEF NotifyTask

LEMMA NotifyInitially == Notify!Init => NotifyInv
<1> SUFFICES ASSUME Notify!Init PROVE NotifyInv
  OBVIOUS
<1>1. /\ x1 = 0 /\ x2 = [n \in Notes |-> Notify!NoRow] /\ x3 = [n \in Notes |-> 0]
      /\ x4 = Channels /\ x5 = [there |-> FALSE, on |-> FALSE, last |-> -1]
      /\ x6 = [d \in Devices |-> "none"] /\ x7 = {} /\ x12 = {}
      /\ x8 = [r \in Notifiers |-> Notify!Idle]
      /\ x9 = Notify!NoRun /\ x10 = {} /\ x11 = {}
  BY Zenon DEF Notify!Init
<1>2. /\ x13 = [m \in Texts |-> "none"] /\ x16 = [m \in Texts |-> "none"]
      /\ x17 = [m \in Texts |-> {}] /\ x14 = {} /\ x15 = {} /\ x18 = {}
  BY Zenon DEF Notify!Init
<1>3. x5 \in NotifyDigest /\ x5.last = -1
  BY <1>1, NotifyBounds DEF NotifyDigest
<1>4. x2 \in [Notes -> NotifyRow] /\ \A n \in Notes : x2[n] = Notify!NoRow /\ x2[n].at = -1
  BY <1>1, NotifyNoRow
<1>5. x8 \in [Notifiers -> NotifyTask]
      /\ \A r \in Notifiers : x8[r].pc = "idle" /\ x8[r].rejected = {}
  BY <1>1, NotifyIdle
<1>6. NotifyTyped
  <2>1. x12 \subseteq Devices
    BY <1>1, Zenon
  <2>2. x1 \in 0 .. Days /\ x3 \in [Notes -> 0 .. MailTries]
    BY <1>1, NotifyBounds
  <2>3. /\ x4 \subseteq Channels /\ x7 \subseteq Devices /\ x10 \subseteq Notes /\ x11 \subseteq Notes
        /\ x6 \in [Devices -> {"none", "mine", "other", "inactive"}] /\ x9 \in NotifyRun
    BY <1>1, NotifyIdle
  <2> QED BY <1>3, <1>4, <1>5, <2>1, <2>2, <2>3 DEF NotifyTyped
<1>7. InboxSound
  <2>1. \A n \in Notes : x3[n] = 0
    BY <1>1
  <2>2. \A n \in Notes : x2[n].at <= x1 /\ (x2[n].at = -1 => x2[n] = Notify!NoRow)
    BY <1>1, <1>4
  <2>3. \A n \in Notes : ~(x3[n] > 0)
    BY <2>1
  <2> QED BY <1>5, <2>2, <2>3 DEF InboxSound
<1>8. DigestSound
  <2>1. x9.pc = "idle"
    BY <1>1, NotifyIdle
  <2> QED BY <1>1, <1>3, <1>4, <2>1 DEF DigestSound, Unread
<1>9. PushSound
  BY <1>1 DEF PushSound
<1>10. TextTyped /\ TextSound
  BY <1>2 DEF TextTyped, TextSound
<1> QED BY <1>6, <1>7, <1>8, <1>9, <1>10 DEF NotifyInv

------------------------------------------------------------------------------
\* The text messages are a matter of their own.
LEMMA TextsAside ==
  ASSUME TextTyped, TextSound,
         x13' = x13, x14' = x14, x15' = x15, x16' = x16, x17' = x17, x18' = x18
  PROVE  TextTyped' /\ TextSound'
BY Zenon DEF TextTyped, TextSound

\* The rows change, if at all, in what was read and mailed: the digests stand.
LEMMA DigestStands ==
  ASSUME NotifyTyped, DigestSound, x1' = x1, x9' = x9, x10' = x10, x11' = x11,
         \A n \in Notes : x2'[n].at = x2[n].at /\ (x2'[n].read = FALSE => x2[n].read = FALSE),
         x5' \in NotifyDigest, x5'.last = x5.last \/ x5'.last = -1
  PROVE  DigestSound'
<1>1. \A n \in Notes : Unread(n)' => Unread(n)
  BY Zenon DEF Unread
<1>2. /\ x1 \in Int /\ x1 >= 0 /\ x5.last \in Int /\ x5.last <= x1
      /\ \A n \in Notes : x2[n].at \in Int /\ x2[n].at >= -1
  <2>1. \A n \in Notes : x2[n] \in NotifyRow
    BY DEF NotifyTyped
  <2>2. x5 \in NotifyDigest
    BY DEF NotifyTyped
  <2>3. \A n \in Notes : x2[n].at \in -1 .. Days
    BY <2>1 DEF NotifyRow
  <2>4. x5.last \in -1 .. Days
    BY <2>2 DEF NotifyDigest
  <2> QED BY <2>3, <2>4, NotifyBounds DEF NotifyTyped, DigestSound
<1>3. x5'.last <= x1'
  BY <1>2
<1>4. \A n \in Notes \ x11' : Unread(n)' /\ x2'[n].at < x5'.last => n \in x10'
  BY <1>1, <1>2 DEF DigestSound
<1>5. x9'.pc # "idle" => \A n \in Notes \ x11' : Unread(n)' => n \in x9'.found \union x10'
  BY <1>1 DEF DigestSound
<1>6. x9'.pc = "mailed" => x9'.found \subseteq x10'
  BY DEF DigestSound
<1> QED BY <1>3, <1>4, <1>5, <1>6 DEF DigestSound

\* A step of one request that writes no row and no token.
LEMMA NotifyMoves ==
  ASSUME NotifyTyped, InboxSound, DigestSound, PushSound,
         NEW r \in Notifiers, NEW new \in NotifyTask, x8' = [x8 EXCEPT ![r] = new],
         new.pc \in {"digest", "enqueue"} => new.note \in Notes /\ x2[new.note].at # -1,
         \A d \in x7 \ x12' : d \notin new.rejected, x12 \subseteq x12',
         x12 \subseteq Devices => x12' \subseteq Devices, x1' = x1, x2' = x2, x4' = x4, x6' = x6, x7' = x7, x9' = x9, x10' = x10,
         x11' = x11, x3' \in [Notes -> 0 .. MailTries],
         \A n \in Notes : x3'[n] > 0 => x2[n].at # -1,
         x5' \in NotifyDigest, x5'.last = x5.last \/ x5'.last = -1
  PROVE  NotifyTyped' /\ InboxSound' /\ DigestSound' /\ PushSound'
<1>1. x8'[r] = new /\ (\A o \in Notifiers : o # r => x8'[o] = x8[o])
      /\ x8' \in [Notifiers -> NotifyTask]
  BY DEF NotifyTyped
<1>2. NotifyTyped'
  <2>1. x12' \subseteq Devices
    BY DEF NotifyTyped
  <2> QED BY <1>1, <2>1, Zenon DEF NotifyTyped
<1>3. InboxSound'
  <2>1. \A o \in Notifiers :
          x8'[o].pc \in {"digest", "enqueue"} => x8'[o].note \in Notes /\ x2[x8'[o].note].at # -1
    BY <1>1 DEF InboxSound
  <2> QED BY <2>1, Zenon DEF InboxSound
<1>4. DigestSound'
  <2>1. \A n \in Notes : x2'[n].at = x2[n].at /\ (x2'[n].read = FALSE => x2[n].read = FALSE)
    BY Zenon
  <2> QED BY <2>1, DigestStands
<1>5. PushSound'
  <2>1. ASSUME NEW o \in Notifiers, NEW d \in x7 \ x12' PROVE d \notin x8'[o].rejected
    BY <1>1, <2>1 DEF PushSound
  <2>2. \A d \in x7 \ x12' : x6[d] # "inactive"
    BY DEF PushSound
  <2> QED BY <2>1, <2>2, Zenon DEF PushSound
<1> QED BY <1>2, <1>3, <1>4, <1>5

LEMMA NotifyAsks ==
  ASSUME NotifyTyped, InboxSound, DigestSound, PushSound, NEW r \in Notifiers,
         Notify!ReadPreference(r) \/ Notify!ListTokens(r) \/ Notify!CutShort(r)
         \/ \E d \in Devices : Notify!Push(r, d)
  PROVE  NotifyTyped' /\ InboxSound' /\ DigestSound' /\ PushSound'
<1>0. x8[r] \in NotifyTask /\ x8 \in [Notifiers -> NotifyTask]
  BY DEF NotifyTyped
<1>1. /\ x1' = x1 /\ x2' = x2 /\ x3' = x3 /\ x4' = x4 /\ x5' = x5 /\ x6' = x6 /\ x7' = x7
      /\ x9' = x9 /\ x10' = x10 /\ x11' = x11 /\ x12' = x12
  BY DEF Notify!ReadPreference, Notify!ListTokens, Notify!CutShort, Notify!Push,
         Notify!inbox, Notify!phones, Notify!digesting
<1>2. PICK new \in NotifyTask :
        /\ x8' = [x8 EXCEPT ![r] = new] /\ new.pc \notin {"digest", "enqueue"}
        /\ \A d \in x7 \ x12 : d \notin new.rejected
  <2>0. \A d \in x7 \ x12 : d \notin x8[r].rejected
    BY DEF PushSound
  <2>1. CASE Notify!Finish(r)
    BY <2>1, NotifyIdle DEF Notify!Finish
  <2>2. CASE Notify!ReadPreference(r)
    <3> DEFINE n1 == [x8[r] EXCEPT !.pc = "create"]
               n2 == [n1 EXCEPT !.channels = x4]
    <3>1. x8' = [x8 EXCEPT ![r] = n2]
      BY <1>0, <2>2 DEF Notify!ReadPreference
    <3>2. n1 \in NotifyTask /\ n1.pc = "create" /\ n1.rejected = x8[r].rejected
      BY <1>0 DEF NotifyTask
    <3> HIDE DEF n1
    <3>3. x4 \in SUBSET Channels
      BY DEF NotifyTyped
    <3>4. n2 \in NotifyTask /\ n2.pc = "create" /\ n2.rejected = x8[r].rejected
      BY <3>2, <3>3 DEF NotifyTask
    <3> HIDE DEF n2
    <3> QED BY <2>0, <3>1, <3>4
  <2>3. CASE Notify!ListTokens(r) /\ ~Notify!Finish(r)
    <3> DEFINE tokens == {d \in Devices : x6[d] = "mine"}
               n1 == [x8[r] EXCEPT !.pc = "push"]
               n2 == [n1 EXCEPT !.tokens = tokens]
    <3>1. x8' = [x8 EXCEPT ![r].pc = "push", ![r].tokens = tokens]
      BY <2>3, Zenon DEF Notify!ListTokens
    <3> HIDE DEF tokens
    <3>2. x8' = [x8 EXCEPT ![r] = n2]
      BY <1>0, <3>1
    <3>3. n1 \in NotifyTask /\ n1.pc = "push" /\ n1.rejected = x8[r].rejected
      BY <1>0 DEF NotifyTask
    <3> HIDE DEF n1
    <3>4. tokens \in SUBSET Devices
      BY DEF tokens
    <3>5. n2 \in NotifyTask /\ n2.pc = "push" /\ n2.rejected = x8[r].rejected
      BY <3>3, <3>4 DEF NotifyTask
    <3> HIDE DEF n2
    <3> QED BY <2>0, <3>2, <3>5
  <2>4. ASSUME NEW d \in Devices, Notify!Push(r, d), ~Notify!Finish(r)
        PROVE  \E new \in NotifyTask :
                 /\ x8' = [x8 EXCEPT ![r] = new] /\ new.pc \notin {"digest", "enqueue"}
                 /\ \A e \in x7 \ x12 : e \notin new.rejected
    <3> DEFINE left == x8[r].tokens \ {d}
               n1 == [x8[r] EXCEPT !.tokens = left]
    <3>0. left \in SUBSET Devices
      BY <1>0 DEF NotifyTask
    <3>1. x8' = [x8 EXCEPT ![r].tokens = left] /\ x8[r].pc = "push"
      BY <2>4, Zenon DEF Notify!Push
    <3> HIDE DEF left
    <3>2. x8' = [x8 EXCEPT ![r] = n1]
      BY <1>0, <3>1
    <3>3. n1 \in NotifyTask /\ n1.pc = "push" /\ n1.rejected = x8[r].rejected
      BY <1>0, <3>0, <3>1 DEF NotifyTask
    <3> HIDE DEF n1
    <3> QED BY <2>0, <3>2, <3>3
  <2>5. Notify!CutShort(r) => Notify!Finish(r)
    BY DEF Notify!CutShort
  <2> QED BY <2>1, <2>2, <2>3, <2>4, <2>5
<1>3. x3' \in [Notes -> 0 .. MailTries] /\ x5' \in NotifyDigest
  BY <1>1 DEF NotifyTyped
<1>4. \A n \in Notes : x3'[n] > 0 => x2[n].at # -1
  BY <1>1 DEF InboxSound
<1>5. new.pc \in {"digest", "enqueue"} => new.note \in Notes /\ x2[new.note].at # -1
  BY <1>2
<1>6. x5'.last = x5.last \/ x5'.last = -1
  BY <1>1
<1> QED BY <1>1, <1>2, <1>3, <1>4, <1>5, <1>6, NotifyMoves

\* Whatever was rejected, the device is no live one or goes astray.
LEMMA PushRejectedKeeps ==
  ASSUME NotifyTyped, InboxSound, DigestSound, PushSound, NEW r \in Notifiers,
         NEW d \in Devices, Notify!PushRejected(r, d)
  PROVE  NotifyTyped' /\ InboxSound' /\ DigestSound' /\ PushSound'
<1>0. x8[r] \in NotifyTask /\ x8 \in [Notifiers -> NotifyTask]
  BY DEF NotifyTyped
<1>1. /\ x1' = x1 /\ x2' = x2 /\ x3' = x3 /\ x4' = x4 /\ x5' = x5 /\ x6' = x6 /\ x7' = x7
      /\ x9' = x9 /\ x10' = x10 /\ x11' = x11 /\ x8[r].pc = "push"
      /\ x12' = IF d \in x7 THEN x12 \union {d} ELSE x12
  BY DEF Notify!PushRejected, Notify!inbox, Notify!digesting
<1>2. PICK new \in NotifyTask :
        x8' = [x8 EXCEPT ![r] = new] /\ new.pc = "push" /\ new.rejected = {d}
  <2> DEFINE left == x8[r].tokens \ {d}
             n1 == [x8[r] EXCEPT !.tokens = left]
             n2 == [n1 EXCEPT !.rejected = {d}]
  <2>1. left \in SUBSET Devices
    BY <1>0 DEF NotifyTask
  <2>2. x8' = [x8 EXCEPT ![r] = n2]
    BY <1>0 DEF Notify!PushRejected
  <2> HIDE DEF left
  <2>3. n1 \in NotifyTask /\ n1.pc = "push"
    BY <1>0, <1>1, <2>1 DEF NotifyTask
  <2> HIDE DEF n1
  <2>4. n2 \in NotifyTask /\ n2.pc = "push" /\ n2.rejected = {d}
    BY <2>3 DEF NotifyTask
  <2> HIDE DEF n2
  <2> QED BY <2>2, <2>4
<1>3. x3' \in [Notes -> 0 .. MailTries] /\ x5' \in NotifyDigest
  BY <1>1 DEF NotifyTyped
<1>4. \A n \in Notes : x3'[n] > 0 => x2[n].at # -1
  BY <1>1 DEF InboxSound
<1>5. new.pc \notin {"digest", "enqueue"}
  BY <1>2
<1>6. /\ \A e \in x7 \ x12' : e \notin new.rejected
      /\ x12 \subseteq x12' /\ (x12 \subseteq Devices => x12' \subseteq Devices)
  BY <1>1, <1>2
<1> QED BY <1>1, <1>2, <1>3, <1>4, <1>5, <1>6, NotifyMoves

LEMMA EnsureDigestKeeps ==
  ASSUME NotifyTyped, InboxSound, DigestSound, PushSound, NEW r \in Notifiers,
         Notify!EnsureDigest(r)
  PROVE  NotifyTyped' /\ InboxSound' /\ DigestSound' /\ PushSound'
<1>0. x8[r] \in NotifyTask /\ x8 \in [Notifiers -> NotifyTask] /\ x5 \in NotifyDigest
  BY DEF NotifyTyped
<1>1. /\ x1' = x1 /\ x2' = x2 /\ x3' = x3 /\ x4' = x4 /\ x6' = x6 /\ x7' = x7
      /\ x9' = x9 /\ x10' = x10 /\ x11' = x11 /\ x12' = x12 /\ x8[r].pc = "digest"
  BY DEF Notify!EnsureDigest, Notify!phones, Notify!digesting
<1>2. x5' \in NotifyDigest /\ (x5'.last = x5.last \/ x5'.last = -1)
  <2> DEFINE new == [there |-> TRUE, on |-> TRUE, last |-> -1]
  <2>1. new \in NotifyDigest /\ new.last = -1
    BY NotifyBounds DEF NotifyDigest
  <2>2. x5' = x5 \/ x5' = new
    BY Zenon DEF Notify!EnsureDigest
  <2> HIDE DEF new
  <2> QED BY <1>0, <2>1, <2>2
<1>3. PICK pc \in {"enqueue", "list"} : x8' = [x8 EXCEPT ![r].pc = pc]
  BY Zenon DEF Notify!EnsureDigest
<1>4. PICK new \in NotifyTask :
        /\ x8' = [x8 EXCEPT ![r] = new] /\ new.note = x8[r].note
        /\ new.rejected = x8[r].rejected
  <2> DEFINE n1 == [x8[r] EXCEPT !.pc = pc]
  <2>1. x8' = [x8 EXCEPT ![r] = n1]
    BY <1>3
  <2>2. n1 \in NotifyTask /\ n1.note = x8[r].note /\ n1.rejected = x8[r].rejected
    BY <1>0, <1>3 DEF NotifyTask
  <2> HIDE DEF n1
  <2> QED BY <2>1, <2>2
<1>5. new.pc \in {"digest", "enqueue"} => new.note \in Notes /\ x2[new.note].at # -1
  BY <1>1, <1>4 DEF InboxSound
<1>6. \A d \in x7 \ x12 : d \notin new.rejected
  BY <1>4 DEF PushSound
<1>7. x3' \in [Notes -> 0 .. MailTries]
  BY <1>1 DEF NotifyTyped
<1>8. \A n \in Notes : x3'[n] > 0 => x2[n].at # -1
  BY <1>1 DEF InboxSound
<1> QED BY <1>1, <1>2, <1>4, <1>5, <1>6, <1>7, <1>8, NotifyMoves

LEMMA EnqueueEmailKeeps ==
  ASSUME NotifyTyped, InboxSound, DigestSound, PushSound, NEW r \in Notifiers,
         Notify!EnqueueEmail(r)
  PROVE  NotifyTyped' /\ InboxSound' /\ DigestSound' /\ PushSound'
<1>0. /\ x8[r] \in NotifyTask /\ x8 \in [Notifiers -> NotifyTask] /\ x5 \in NotifyDigest
      /\ x3 \in [Notes -> 0 .. MailTries]
  BY DEF NotifyTyped
<1>1. /\ x1' = x1 /\ x2' = x2 /\ x4' = x4 /\ x5' = x5 /\ x6' = x6 /\ x7' = x7
      /\ x9' = x9 /\ x10' = x10 /\ x11' = x11 /\ x12' = x12 /\ x8[r].pc = "enqueue"
      /\ x3' = x3 \/ x3' = [x3 EXCEPT ![x8[r].note] = MailTries]
      /\ x8' = [x8 EXCEPT ![r].pc = "list"]
  BY DEF Notify!EnqueueEmail, Notify!phones, Notify!digesting
<1>2. PICK new \in NotifyTask :
        /\ x8' = [x8 EXCEPT ![r] = new] /\ new.pc = "list" /\ new.rejected = x8[r].rejected
  <2> DEFINE n1 == [x8[r] EXCEPT !.pc = "list"]
  <2>1. x8' = [x8 EXCEPT ![r] = n1]
    BY <1>1
  <2>2. n1 \in NotifyTask /\ n1.pc = "list" /\ n1.rejected = x8[r].rejected
    BY <1>0 DEF NotifyTask
  <2> HIDE DEF n1
  <2> QED BY <2>1, <2>2
<1>3. x8[r].note \in Notes /\ x2[x8[r].note].at # -1
  BY <1>1 DEF InboxSound
<1>4. x3' \in [Notes -> 0 .. MailTries]
  BY <1>0, <1>1, <1>3, NotifyBounds
<1>5. \A n \in Notes : x3'[n] > 0 => x2[n].at # -1
  <2> SUFFICES ASSUME NEW n \in Notes, x3'[n] > 0 PROVE x2[n].at # -1
    OBVIOUS
  <2>1. CASE n = x8[r].note
    BY <1>3, <2>1
  <2>2. CASE n # x8[r].note
    <3>1. x3'[n] = x3[n]
      BY <1>0, <1>1, <2>2
    <3> QED BY <3>1 DEF InboxSound
  <2> QED BY <2>1, <2>2
<1>6. \A d \in x7 \ x12 : d \notin new.rejected
  BY <1>2 DEF PushSound
<1>7. new.pc \in {"digest", "enqueue"} => new.note \in Notes /\ x2[new.note].at # -1
  BY <1>2
<1>8. x5' \in NotifyDigest /\ (x5'.last = x5.last \/ x5'.last = -1)
  BY <1>0, <1>1
<1> QED BY <1>1, <1>2, <1>4, <1>5, <1>6, <1>7, <1>8, NotifyMoves

LEMMA CreateNotificationKeeps ==
  ASSUME NotifyTyped, InboxSound, DigestSound, PushSound, NEW r \in Notifiers,
         NEW n \in Notes, Notify!CreateNotification(r, n)
  PROVE  NotifyTyped' /\ InboxSound' /\ DigestSound' /\ PushSound'
<1>0. /\ x8[r] \in NotifyTask /\ x8 \in [Notifiers -> NotifyTask] /\ x5 \in NotifyDigest
      /\ x2 \in [Notes -> NotifyRow] /\ x1 \in 0 .. Days /\ x9 \in NotifyRun
      /\ x11 \subseteq Notes
  BY DEF NotifyTyped
<1>1. /\ x1' = x1 /\ x3' = x3 /\ x4' = x4 /\ x5' = x5 /\ x6' = x6 /\ x7' = x7
      /\ x9' = x9 /\ x10' = x10 /\ x12' = x12
      /\ x2[n] = Notify!NoRow /\ x2' = [x2 EXCEPT ![n].at = x1]
      /\ x11' = IF x9.pc = "mailed" \/ x9.pc = "found" THEN x11 \union {n} ELSE x11
      /\ x8' = [x8 EXCEPT ![r].pc = "digest", ![r].note = n]
  BY DEF Notify!CreateNotification, Notify!phones
<1>2. PICK new \in NotifyTask :
        /\ x8' = [x8 EXCEPT ![r] = new] /\ new.note = n /\ new.rejected = x8[r].rejected
  <2> DEFINE n1 == [x8[r] EXCEPT !.pc = "digest"]
             n2 == [n1 EXCEPT !.note = n]
  <2>1. x8' = [x8 EXCEPT ![r] = n2]
    BY <1>0, <1>1
  <2>2. n1 \in NotifyTask /\ n1.rejected = x8[r].rejected
    BY <1>0 DEF NotifyTask
  <2> HIDE DEF n1
  <2>3. n2 \in NotifyTask /\ n2.note = n /\ n2.rejected = x8[r].rejected
    BY <2>2 DEF NotifyTask
  <2> HIDE DEF n2
  <2> QED BY <2>1, <2>3
<1>3. PICK row \in NotifyRow : x2' = [x2 EXCEPT ![n] = row] /\ row.at = x1
  <2> DEFINE n1 == [x2[n] EXCEPT !.at = x1]
  <2>1. x2' = [x2 EXCEPT ![n] = n1]
    BY <1>1
  <2>2. x2[n] \in NotifyRow /\ x1 \in -1 .. Days
    BY <1>0, NotifyBounds
  <2>3. n1 \in NotifyRow /\ n1.at = x1
    BY <2>2 DEF NotifyRow
  <2> HIDE DEF n1
  <2> QED BY <2>1, <2>3
<1>4. /\ x2'[n] = row /\ x2'[n].at = x1 /\ x2' \in [Notes -> NotifyRow]
      /\ \A o \in Notes : o # n => x2'[o] = x2[o]
  BY <1>0, <1>3
<1>5. x8'[r] = new /\ (\A o \in Notifiers : o # r => x8'[o] = x8[o])
      /\ x8' \in [Notifiers -> NotifyTask]
  BY <1>0, <1>2
<1>6. x1 \in Nat /\ x1 # -1
  BY <1>0, NotifyBounds
<1>7. x11 \subseteq x11' /\ x11' \subseteq Notes /\ (x9.pc # "idle" => n \in x11')
  <2>1. x9.pc \in {"idle", "found", "mailed"}
    BY <1>0 DEF NotifyRun
  <2> QED BY <1>0, <1>1, <2>1
<1>8. NotifyTyped'
  BY <1>1, <1>4, <1>5, <1>7, Zenon DEF NotifyTyped
<1>9. InboxSound'
  <2>1. \A o \in Notes : x2'[o].at <= x1 /\ (x2'[o].at = -1 => x2'[o] = Notify!NoRow)
    BY <1>4, <1>6 DEF InboxSound
  <2>2. \A o \in Notes : x3[o] > 0 => x2'[o].at # -1
    BY <1>4, <1>6 DEF InboxSound
  <2>3. \A o \in Notifiers :
          x8'[o].pc \in {"digest", "enqueue"} =>
            x8'[o].note \in Notes /\ x2'[x8'[o].note].at # -1
    BY <1>2, <1>4, <1>5, <1>6 DEF InboxSound
  <2> QED BY <1>1, <2>1, <2>2, <2>3 DEF InboxSound
<1>10. DigestSound'
  <2>1. \A o \in Notes : o # n => (Unread(o)' <=> Unread(o)) /\ x2'[o].at = x2[o].at
    BY <1>4, Zenon DEF Unread
  <2>2. ~(x2'[n].at < x5.last) /\ x5'.last <= x1'
    <3>1. x5.last \in -1 .. Days
      BY <1>0 DEF NotifyDigest
    <3> QED BY <1>1, <1>4, <1>6, <3>1, NotifyBounds DEF DigestSound
  <2>3. \A o \in Notes \ x11' : Unread(o)' /\ x2'[o].at < x5'.last => o \in x10'
    BY <1>1, <1>7, <2>1, <2>2 DEF DigestSound
  <2>4. x9'.pc # "idle" => \A o \in Notes \ x11' : Unread(o)' => o \in x9'.found \union x10'
    BY <1>1, <1>7, <2>1 DEF DigestSound
  <2> QED BY <1>1, <2>2, <2>3, <2>4 DEF DigestSound
<1>11. PushSound'
  <2>1. ASSUME NEW o \in Notifiers, NEW d \in x7 \ x12 PROVE d \notin x8'[o].rejected
    BY <1>2, <1>5, <2>1 DEF PushSound
  <2> QED BY <1>1, <2>1, Zenon DEF PushSound
<1> QED BY <1>8, <1>9, <1>10, <1>11

LEMMA DeactivateTokenKeeps ==
  ASSUME NotifyTyped, InboxSound, DigestSound, PushSound, NEW r \in Notifiers,
         Notify!DeactivateToken(r)
  PROVE  NotifyTyped' /\ InboxSound' /\ DigestSound' /\ PushSound'
<1>0. /\ x8[r] \in NotifyTask /\ x8 \in [Notifiers -> NotifyTask]
      /\ x6 \in [Devices -> {"none", "mine", "other", "inactive"}] /\ x7 \subseteq Devices
  BY DEF NotifyTyped
<1>1. /\ x1' = x1 /\ x2' = x2 /\ x3' = x3 /\ x4' = x4 /\ x5' = x5 /\ x7' = x7
      /\ x9' = x9 /\ x10' = x10 /\ x11' = x11 /\ x12' = x12 /\ x8[r].pc = "push"
      /\ x6' = [d \in Devices |->
                  IF d \in x8[r].rejected /\ x6[d] # "none" THEN "inactive" ELSE x6[d]]
  BY DEF Notify!DeactivateToken, Notify!inbox, Notify!digesting
<1>2. PICK new \in NotifyTask :
        /\ x8' = [x8 EXCEPT ![r] = new] /\ new.pc \notin {"digest", "enqueue"}
        /\ new.rejected = {}
  <2>1. CASE Notify!Finish(r)
    BY <2>1, NotifyIdle DEF Notify!Finish
  <2>2. CASE x8' = [x8 EXCEPT ![r].rejected = {}]
    <3> DEFINE n1 == [x8[r] EXCEPT !.rejected = {}]
    <3>1. x8' = [x8 EXCEPT ![r] = n1]
      BY <2>2
    <3>2. n1 \in NotifyTask /\ n1.pc = "push" /\ n1.rejected = {}
      BY <1>0, <1>1 DEF NotifyTask
    <3> HIDE DEF n1
    <3> QED BY <3>1, <3>2
  <2> QED BY <2>1, <2>2 DEF Notify!DeactivateToken
<1>3. x8'[r] = new /\ (\A o \in Notifiers : o # r => x8'[o] = x8[o])
      /\ x8' \in [Notifiers -> NotifyTask]
  BY <1>0, <1>2
<1>4. x6' \in [Devices -> {"none", "mine", "other", "inactive"}]
  BY <1>0, <1>1
<1>5. NotifyTyped'
  BY <1>1, <1>3, <1>4, Zenon DEF NotifyTyped
<1>6. InboxSound'
  <2>1. \A o \in Notifiers :
          x8'[o].pc \in {"digest", "enqueue"} => x8'[o].note \in Notes /\ x2[x8'[o].note].at # -1
    BY <1>2, <1>3 DEF InboxSound
  <2> QED BY <1>1, <2>1, Zenon DEF InboxSound
<1>7. DigestSound'
  BY <1>1, Zenon DEF DigestSound, Unread
<1>8. PushSound'
  <2>1. ASSUME NEW o \in Notifiers, NEW d \in x7 \ x12 PROVE d \notin x8'[o].rejected
    BY <1>2, <1>3, <2>1 DEF PushSound
  <2>2. ASSUME NEW d \in x7 \ x12 PROVE x6'[d] # "inactive"
    <3>1. d \notin x8[r].rejected /\ x6[d] # "inactive" /\ d \in Devices
      BY <1>0, <2>2 DEF PushSound
    <3> QED BY <1>1, <3>1
  <2> QED BY <1>1, <2>1, <2>2, Zenon DEF PushSound
<1> QED BY <1>5, <1>6, <1>7, <1>8

------------------------------------------------------------------------------
\* The mails, and what the user reads.
LEMMA RowsKeep ==
  ASSUME NotifyTyped, InboxSound, DigestSound, PushSound,
         \E n \in Notes : Notify!EmailSent(n) \/ Notify!EmailFails(n)
  PROVE  NotifyTyped' /\ InboxSound' /\ DigestSound' /\ PushSound'
<1>0. /\ x2 \in [Notes -> NotifyRow] /\ x3 \in [Notes -> 0 .. MailTries] /\ x5 \in NotifyDigest
  BY DEF NotifyTyped
<1>1. /\ x1' = x1 /\ x4' = x4 /\ x5' = x5 /\ x6' = x6 /\ x7' = x7 /\ x8' = x8
      /\ x9' = x9 /\ x10' = x10 /\ x11' = x11 /\ x12' = x12
  BY DEF Notify!EmailSent, Notify!EmailFails, Notify!phones, Notify!digesting
<1>2. PICK n \in Notes : Notify!EmailSent(n) \/ Notify!EmailFails(n)
  OBVIOUS
<1>3. x3[n] > 0 /\ x2[n].at # -1
  BY <1>2 DEF Notify!EmailSent, Notify!EmailFails, InboxSound
<1>4. /\ x3' \in [Notes -> 0 .. MailTries]
      /\ \A o \in Notes : x3'[o] > 0 => x3[o] > 0
  <2>1. x3[n] \in 0 .. MailTries
    BY <1>0
  <2>2. x3[n] - 1 \in 0 .. MailTries
    BY <1>3, <2>1, NotifyBounds
  <2>3. PICK k \in 0 .. MailTries : x3' = [x3 EXCEPT ![n] = k]
    BY <1>2, <2>2, NotifyBounds DEF Notify!EmailSent, Notify!EmailFails
  <2> QED BY <1>0, <1>3, <2>3
<1>5. /\ x2' \in [Notes -> NotifyRow]
      /\ \A o \in Notes : x2'[o].at = x2[o].at /\ (x2'[o].read = FALSE => x2[o].read = FALSE)
      /\ \A o \in Notes : x2'[o].at = -1 => x2'[o] = x2[o]
  <2>1. CASE x2' = x2
    BY <1>0, <2>1, Zenon
  <2>2. CASE x2' # x2
    <3> DEFINE n1 == [x2[n] EXCEPT !.emailSent = TRUE]
    <3>1. x2' = [x2 EXCEPT ![n] = n1]
      BY <1>2, <2>2 DEF Notify!EmailSent, Notify!EmailFails
    <3>2. x2[n] \in NotifyRow
      BY <1>0
    <3>3. n1 \in NotifyRow /\ n1.at = x2[n].at
      BY <3>2 DEF NotifyRow
    <3>4. n1.read = x2[n].read
      BY <3>2, Zenon DEF NotifyRow
    <3> HIDE DEF n1
    <3>5. x2'[n] = n1 /\ (\A o \in Notes : o # n => x2'[o] = x2[o])
          /\ x2' \in [Notes -> NotifyRow]
      BY <1>0, <3>1, <3>3
    <3> QED BY <1>3, <3>3, <3>4, <3>5, Zenon
  <2> QED BY <2>1, <2>2
<1>6. NotifyTyped'
  BY <1>1, <1>4, <1>5, Zenon DEF NotifyTyped
<1>7. InboxSound'
  <2>1. \A o \in Notes : x2'[o].at <= x1 /\ (x2'[o].at = -1 => x2'[o] = Notify!NoRow)
    BY <1>5 DEF InboxSound
  <2>2. \A o \in Notes : x3'[o] > 0 => x2'[o].at # -1
    BY <1>4, <1>5 DEF InboxSound
  <2>3. \A o \in Notifiers :
          x8[o].pc \in {"digest", "enqueue"} => x8[o].note \in Notes /\ x2'[x8[o].note].at # -1
    BY <1>5 DEF InboxSound
  <2> QED BY <1>1, <2>1, <2>2, <2>3 DEF InboxSound
<1>8. DigestSound'
  <2>1. x5' \in NotifyDigest /\ (x5'.last = x5.last \/ x5'.last = -1)
    BY <1>0, <1>1
  <2> QED BY <1>1, <1>5, <2>1, DigestStands
<1>9. PushSound'
  BY <1>1, Zenon DEF PushSound
<1> QED BY <1>6, <1>7, <1>8, <1>9

LEMMA MarkReadKeeps ==
  ASSUME NotifyTyped, InboxSound, DigestSound, PushSound,
         NEW read \in SUBSET Notes, Notify!MarkRead(read)
  PROVE  NotifyTyped' /\ InboxSound' /\ DigestSound' /\ PushSound'
<1>0. /\ x2 \in [Notes -> NotifyRow] /\ x5 \in NotifyDigest
  BY DEF NotifyTyped
<1>1. /\ x1' = x1 /\ x3' = x3 /\ x4' = x4 /\ x5' = x5 /\ x6' = x6 /\ x7' = x7 /\ x8' = x8
      /\ x9' = x9 /\ x10' = x10 /\ x11' = x11 /\ x12' = x12
  BY DEF Notify!MarkRead, Notify!phones, Notify!digesting
<1>2. /\ \A n \in read : x2[n] # Notify!NoRow
      /\ x2' = [n \in Notes |-> IF n \in read THEN [x2[n] EXCEPT !.read = TRUE] ELSE x2[n]]
  BY Zenon DEF Notify!MarkRead
<1>3. \A n \in read : x2[n].at # -1
  BY <1>2 DEF InboxSound
<1>5. /\ x2' \in [Notes -> NotifyRow]
      /\ \A o \in Notes : x2'[o].at = x2[o].at /\ (x2'[o].read = FALSE => x2[o].read = FALSE)
      /\ \A o \in Notes : x2'[o].at = -1 => x2'[o] = x2[o]
  <2>1. ASSUME NEW o \in Notes
        PROVE  /\ x2'[o] \in NotifyRow /\ x2'[o].at = x2[o].at
               /\ x2'[o].read = FALSE => x2[o].read = FALSE
               /\ x2'[o].at = -1 => x2'[o] = x2[o]
    <3> DEFINE n1 == [x2[o] EXCEPT !.read = TRUE]
    <3>1. x2[o] \in NotifyRow
      BY <1>0
    <3>2. n1 \in NotifyRow /\ n1.at = x2[o].at
      BY <3>1 DEF NotifyRow
    <3>3. n1.read = TRUE
      BY <3>1, Zenon DEF NotifyRow
    <3>4. (o \in read => x2'[o] = n1) /\ (o \notin read => x2'[o] = x2[o])
      BY <1>2, Zenon
    <3> HIDE DEF n1
    <3>5. CASE o \in read
      <4>1. x2[o].at # -1
        BY <1>3, <3>5
      <4> QED BY <3>2, <3>3, <3>4, <3>5, <4>1, Zenon
    <3>6. CASE o \notin read
      BY <3>1, <3>4, <3>6, Zenon
    <3> QED BY <3>5, <3>6
  <2>2. x2' = [o \in Notes |-> x2'[o]]
    BY <1>2, Zenon
  <2>3. x2' \in [Notes -> NotifyRow]
    BY <2>1, <2>2
  <2> QED BY <2>1, <2>3
<1>6. NotifyTyped'
  BY <1>1, <1>5, Zenon DEF NotifyTyped
<1>7. InboxSound'
  <2>1. \A o \in Notes : x2'[o].at <= x1 /\ (x2'[o].at = -1 => x2'[o] = Notify!NoRow)
    BY <1>5 DEF InboxSound
  <2>2. \A o \in Notes : x3[o] > 0 => x2'[o].at # -1
    BY <1>5 DEF InboxSound
  <2>3. \A o \in Notifiers :
          x8[o].pc \in {"digest", "enqueue"} => x8[o].note \in Notes /\ x2'[x8[o].note].at # -1
    BY <1>5 DEF InboxSound
  <2> QED BY <1>1, <2>1, <2>2, <2>3 DEF InboxSound
<1>8. DigestSound'
  <2>1. x5' \in NotifyDigest /\ (x5'.last = x5.last \/ x5'.last = -1)
    BY <1>0, <1>1
  <2> QED BY <1>1, <1>5, <2>1, DigestStands
<1>9. PushSound'
  BY <1>1, Zenon DEF PushSound
<1> QED BY <1>6, <1>7, <1>8, <1>9

\* The channels and the devices.
LEMMA PhonesKeep ==
  ASSUME NotifyTyped, InboxSound, DigestSound, PushSound, Notify!PhoneStep
  PROVE  NotifyTyped' /\ InboxSound' /\ DigestSound' /\ PushSound'
<1>0. /\ x6 \in [Devices -> {"none", "mine", "other", "inactive"}] /\ x7 \subseteq Devices
      /\ x12 \subseteq Devices /\ x4 \subseteq Channels
  BY DEF NotifyTyped
<1>1. /\ x1' = x1 /\ x2' = x2 /\ x3' = x3 /\ x5' = x5 /\ x8' = x8
      /\ x9' = x9 /\ x10' = x10 /\ x11' = x11
  BY DEF Notify!PhoneStep, Notify!UpdatePreference, Notify!Uninstall, Notify!RegisterDevice,
         Notify!inbox, Notify!digesting
<1>2. InboxSound' /\ DigestSound'
  BY <1>1, Zenon DEF InboxSound, DigestSound, Unread
<1>3. ASSUME NEW c \in Channels, Notify!UpdatePreference(c) PROVE NotifyTyped' /\ PushSound'
  <2>1. x6' = x6 /\ x7' = x7 /\ x12' = x12
    BY <1>3 DEF Notify!UpdatePreference, Notify!phones
  <2>2. x4' \subseteq Channels
    BY <1>0, <1>3 DEF Notify!UpdatePreference
  <2>3. NotifyTyped'
    BY <1>1, <2>1, <2>2, Zenon DEF NotifyTyped
  <2>4. PushSound'
    BY <1>1, <2>1, Zenon DEF PushSound
  <2> QED BY <2>3, <2>4
<1>4. ASSUME NEW d \in Devices, Notify!Uninstall(d) PROVE NotifyTyped' /\ PushSound'
  <2>1. x4' = x4 /\ x6' = x6 /\ x7' = x7 \ {d} /\ x12' = x12
    BY <1>4 DEF Notify!Uninstall
  <2>2. x7' \subseteq Devices /\ x7' \subseteq x7
    BY <1>0, <2>1
  <2>3. NotifyTyped'
    BY <1>1, <2>1, <2>2, Zenon DEF NotifyTyped
  <2>4. PushSound'
    BY <1>1, <2>1, <2>2, Zenon DEF PushSound
  <2> QED BY <2>3, <2>4
<1>5. ASSUME NEW d \in Devices, NEW who \in {"mine", "other"}, Notify!RegisterDevice(d, who)
      PROVE  NotifyTyped' /\ PushSound'
  <2>1. x4' = x4 /\ x6' = [x6 EXCEPT ![d] = who] /\ x7' = x7 \union {d}
    BY <1>5 DEF Notify!RegisterDevice, Notify!Registered
  <2>2. /\ x12' \subseteq Devices /\ (\A e \in Devices \ {d} : e \in x12' <=> e \in x12)
        /\ d \notin x12' => ~\E r \in Notifiers : d \in x8[r].rejected
    <3>1. \/ x12' = x12 \union {d}
          \/ x12' = x12 \ {d} /\ ~\E r \in Notifiers : d \in x8[r].rejected
      BY <1>5, Zenon DEF Notify!RegisterDevice
    <3> QED BY <1>0, <3>1
  <2>3. x7' \subseteq Devices /\ x6' \in [Devices -> {"none", "mine", "other", "inactive"}]
    BY <1>0, <2>1
  <2>4. NotifyTyped'
    BY <1>1, <2>1, <2>2, <2>3, Zenon DEF NotifyTyped
  <2>5. PushSound'
    <3> SUFFICES ASSUME NEW e \in x7' \ x12'
                 PROVE  /\ x6'[e] # "inactive"
                        /\ \A r \in Notifiers : e \notin x8'[r].rejected
      BY Zenon DEF PushSound
    <3>1. CASE e = d
      <4>1. x6'[e] = who
        BY <1>0, <2>1, <3>1
      <4> QED BY <1>1, <2>2, <3>1, <4>1
    <3>2. CASE e # d
      <4>1. e \in x7 /\ x6'[e] = x6[e]
        BY <1>0, <2>1, <3>2
      <4>2. e \notin x12
        BY <1>0, <2>2, <3>2, <4>1
      <4> QED BY <1>1, <4>1, <4>2, Zenon DEF PushSound
    <3> QED BY <3>1, <3>2
  <2> QED BY <2>4, <2>5
<1> QED BY <1>2, <1>3, <1>4, <1>5 DEF Notify!PhoneStep

------------------------------------------------------------------------------
\* The digest

\* The digests change, and neither the rows nor the phones do.
LEMMA DigestsOnly ==
  ASSUME NotifyTyped, InboxSound, PushSound, x1' = x1, x2' = x2, x3' = x3, x4' = x4,
         x6' = x6, x7' = x7, x8' = x8, x12' = x12, x5' \in NotifyDigest, x9' \in NotifyRun,
         x10' \subseteq Notes, x11' \subseteq Notes
  PROVE  NotifyTyped' /\ InboxSound' /\ PushSound'
<1>1. NotifyTyped'
  BY Zenon DEF NotifyTyped
<1>2. InboxSound' /\ PushSound'
  BY Zenon DEF InboxSound, PushSound
<1> QED BY <1>1, <1>2

LEMMA DigestBounds ==
  ASSUME NotifyTyped
  PROVE  /\ x1 \in Nat /\ x1 \in -1 .. Days /\ x5 \in NotifyDigest /\ x5.last \in -1 .. Days
         /\ x5.last \in Int /\ x9 \in NotifyRun
         /\ \A n \in Notes : x2[n].at \in Int /\ x2[n].read \in BOOLEAN
<1>1. x5.last \in -1 .. Days
  BY DEF NotifyTyped, NotifyDigest
<1>2. \A n \in Notes : x2[n] \in NotifyRow
  BY DEF NotifyTyped
<1>3. \A n \in Notes : x2[n].at \in -1 .. Days
  BY <1>2 DEF NotifyRow
<1>4. \A n \in Notes : x2[n].read \in BOOLEAN
  BY <1>2, Zenon DEF NotifyRow
<1> QED BY <1>1, <1>3, <1>4, NotifyBounds DEF NotifyTyped

LEMMA FindUnreadKeeps ==
  ASSUME NotifyTyped, InboxSound, DigestSound, PushSound, Notify!FindUnread
  PROVE  NotifyTyped' /\ InboxSound' /\ DigestSound' /\ PushSound'
<1> DEFINE since == IF x5.last = -1 THEN x1 - 1 ELSE x5.last
           found == {n \in Notes : x2[n] # Notify!NoRow /\ ~x2[n].read /\ x2[n].at >= since}
           late == {n \in Notes : x2[n] # Notify!NoRow /\ x2[n].at < since}
<1>0. x11 \subseteq Notes /\ x10 \subseteq Notes
  BY DEF NotifyTyped
<1>1. /\ x1' = x1 /\ x2' = x2 /\ x3' = x3 /\ x4' = x4 /\ x5' = x5 /\ x6' = x6 /\ x7' = x7
      /\ x8' = x8 /\ x10' = x10 /\ x12' = x12
  BY DEF Notify!FindUnread, Notify!inbox, Notify!phones
<1>2. x9' = [pc |-> "found", since |-> since, found |-> found]
  BY Zenon DEF Notify!FindUnread
<1>3. x11' = IF x5.last # -1 THEN x11 ELSE x11 \union late
  BY Zenon DEF Notify!FindUnread
<1>4. since \in Int /\ (x5.last # -1 => since = x5.last)
  BY DigestBounds
<1>5. \A n \in Notes : Unread(n) =>
        n \in found \/ (n \in late /\ x2[n].at < since)
  <2> SUFFICES ASSUME NEW n \in Notes, Unread(n)
               PROVE  n \in found \/ (n \in late /\ x2[n].at < since)
    OBVIOUS
  <2>1. x2[n] # Notify!NoRow
    BY NotifyNoRow DEF Unread
  <2>2. ~x2[n].read
    BY Zenon DEF Unread
  <2>3. x2[n].at >= since \/ x2[n].at < since
    BY <1>4, DigestBounds
  <2> HIDE DEF since
  <2> QED BY <2>1, <2>2, <2>3
<1>6. found \subseteq Notes /\ late \subseteq Notes
  OBVIOUS
<1> HIDE DEF since, found, late
<1>7. x9' \in NotifyRun /\ x9'.pc = "found" /\ x9'.found = found
  BY <1>2, <1>4, <1>6 DEF NotifyRun
<1>8. x11 \subseteq x11' /\ x11' \subseteq Notes /\ (x5.last = -1 => late \subseteq x11')
  BY <1>0, <1>3, <1>6
<1>9. x5' \in NotifyDigest
  BY <1>1, DigestBounds
<1>10. DigestSound'
  <2>0. \A n : Unread(n)' = Unread(n)
    BY <1>1, Zenon DEF Unread
  <2>1. x5'.last <= x1'
    BY <1>1 DEF DigestSound
  <2>2. \A n \in Notes \ x11' : Unread(n)' /\ x2'[n].at < x5'.last => n \in x10'
    BY <1>1, <1>8, <2>0 DEF DigestSound
  <2>3. \A n \in Notes \ x11' : Unread(n)' => n \in x9'.found \union x10'
    <3> SUFFICES ASSUME NEW n \in Notes, n \notin x11', Unread(n)
                 PROVE  n \in found \union x10
      BY <1>1, <1>7, <2>0
    <3>1. CASE n \in found
      BY <3>1
    <3>2. CASE n \in late /\ x2[n].at < since
      <4>1. x5.last # -1
        BY <1>8, <3>2
      <4>2. n \notin x11 /\ x2[n].at < x5.last
        BY <1>4, <1>8, <3>2, <4>1
      <4> QED BY <4>2 DEF DigestSound
    <3> QED BY <1>5, <3>1, <3>2
  <2>4. x9'.pc # "mailed"
    BY <1>7
  <2> QED BY <2>1, <2>2, <2>3, <2>4 DEF DigestSound
<1> QED BY <1>0, <1>1, <1>7, <1>8, <1>9, <1>10, DigestsOnly

LEMMA DigestRuns ==
  ASSUME NotifyTyped, InboxSound, DigestSound, PushSound,
         Notify!SendDigest \/ Notify!DigestFails \/ Notify!NoteDigest \/ Notify!CrashDigest
  PROVE  NotifyTyped' /\ InboxSound' /\ DigestSound' /\ PushSound'
<1>0. x11 \subseteq Notes /\ x10 \subseteq Notes
  BY DEF NotifyTyped
<1>1. /\ x1' = x1 /\ x2' = x2 /\ x3' = x3 /\ x4' = x4 /\ x6' = x6 /\ x7' = x7
      /\ x8' = x8 /\ x11' = x11 /\ x12' = x12
  BY DEF Notify!SendDigest, Notify!DigestFails, Notify!NoteDigest, Notify!CrashDigest,
         Notify!inbox, Notify!phones
<1>2. \A n : Unread(n)' = Unread(n)
  BY <1>1, Zenon DEF Unread
<1>3. CASE Notify!SendDigest
  <2>1. x5' = x5 /\ x9.pc = "found" /\ x10' = x10 \union x9.found
        /\ x9' = [x9 EXCEPT !.pc = "mailed"]
    BY <1>3 DEF Notify!SendDigest, Notify!inbox
  <2>2. x9' \in NotifyRun /\ x9'.pc = "mailed" /\ x9'.found = x9.found /\ x9.found \subseteq Notes
    BY <2>1, DigestBounds DEF NotifyRun
  <2>3. x10' \subseteq Notes /\ x5' \in NotifyDigest /\ x11' \subseteq Notes
    BY <1>0, <1>1, <2>1, <2>2, DigestBounds
  <2>4. DigestSound'
    <3>1. x5'.last <= x1'
      BY <1>1, <2>1 DEF DigestSound
    <3>2. \A n \in Notes \ x11' : Unread(n)' /\ x2'[n].at < x5'.last => n \in x10'
      BY <1>1, <1>2, <2>1 DEF DigestSound
    <3>3. \A n \in Notes \ x11' : Unread(n)' => n \in x9'.found \union x10'
      BY <1>1, <1>2, <2>1, <2>2 DEF DigestSound
    <3> QED BY <2>1, <2>2, <3>1, <3>2, <3>3 DEF DigestSound
  <2> QED BY <1>1, <2>2, <2>3, <2>4, DigestsOnly
<1>4. CASE Notify!DigestFails \/ Notify!CrashDigest
  <2>1. x5' = x5 /\ x10' = x10 /\ x9' = Notify!NoRun
    BY <1>4 DEF Notify!DigestFails, Notify!CrashDigest, Notify!AfterFailure, Notify!inbox
  <2>2. x9' \in NotifyRun /\ x9'.pc = "idle"
    BY <2>1, NotifyIdle
  <2>3. x10' \subseteq Notes /\ x5' \in NotifyDigest /\ x11' \subseteq Notes
    BY <1>0, <1>1, <2>1, DigestBounds
  <2>4. DigestSound'
    <3>1. x5'.last <= x1'
      BY <1>1, <2>1 DEF DigestSound
    <3>2. \A n \in Notes \ x11' : Unread(n)' /\ x2'[n].at < x5'.last => n \in x10'
      BY <1>1, <1>2, <2>1 DEF DigestSound
    <3>3. x9'.pc # "mailed"
      BY <2>2
    <3> QED BY <2>2, <3>1, <3>2, <3>3 DEF DigestSound
  <2> QED BY <1>1, <2>2, <2>3, <2>4, DigestsOnly
<1>5. CASE Notify!NoteDigest
  <2>1. x5' = [x5 EXCEPT !.last = x1] /\ x10' = x10 /\ x9' = Notify!NoRun /\ x9.pc = "mailed"
    BY <1>5 DEF Notify!NoteDigest
  <2>2. x9' \in NotifyRun /\ x9'.pc = "idle"
    BY <2>1, NotifyIdle
  <2>3. x5' \in NotifyDigest /\ x5'.last = x1
    BY <2>1, DigestBounds DEF NotifyDigest
  <2>4. x10' \subseteq Notes /\ x11' \subseteq Notes
    BY <1>0, <1>1, <2>1
  <2>5. DigestSound'
    <3>1. x5'.last <= x1'
      BY <1>1, <2>3, DigestBounds
    <3>2. \A n \in Notes \ x11' : Unread(n)' => n \in x10'
      BY <1>1, <1>2, <2>1 DEF DigestSound
    <3>3. x9'.pc # "mailed"
      BY <2>2
    <3> QED BY <2>2, <3>1, <3>2, <3>3 DEF DigestSound
  <2> QED BY <1>1, <2>2, <2>3, <2>4, <2>5, DigestsOnly
<1> QED BY <1>3, <1>4, <1>5

LEMMA DigestSettings ==
  ASSUME NotifyTyped, InboxSound, DigestSound, PushSound,
         Notify!UpdateDigestPreference \/ Notify!Clock
  PROVE  NotifyTyped' /\ InboxSound' /\ DigestSound' /\ PushSound'
<1>0. x11 \subseteq Notes /\ x10 \subseteq Notes
  BY DEF NotifyTyped
<1>1. /\ x2' = x2 /\ x3' = x3 /\ x4' = x4 /\ x6' = x6 /\ x7' = x7
      /\ x8' = x8 /\ x9' = x9 /\ x10' = x10 /\ x11' = x11 /\ x12' = x12
  BY DEF Notify!UpdateDigestPreference, Notify!Clock, Notify!inbox, Notify!phones,
         Notify!digesting
<1>2. CASE Notify!UpdateDigestPreference
  <2>1. x1' = x1
    BY <1>2 DEF Notify!UpdateDigestPreference
  <2>2. x5' \in NotifyDigest /\ x5'.last = x5.last
    <3> DEFINE n1 == [x5 EXCEPT !.there = TRUE]
               n2 == [n1 EXCEPT !.on = ~x5.on]
    <3>0. x5 \in NotifyDigest
      BY DigestBounds
    <3>1. x5' = [x5 EXCEPT !.there = TRUE, !.on = ~x5.on]
      BY <1>2, Zenon DEF Notify!UpdateDigestPreference
    <3>2. x5' = n2
      BY <3>1, Zenon
    <3>3. n1 \in NotifyDigest /\ n1.last = x5.last
      BY <3>0 DEF NotifyDigest
    <3> HIDE DEF n1
    <3>4. (~x5.on) \in BOOLEAN
      BY Zenon
    <3>5. n2 \in NotifyDigest /\ n2.last = x5.last
      BY <3>3, <3>4 DEF NotifyDigest
    <3> HIDE DEF n2
    <3> QED BY <3>2, <3>5
  <2>3. DigestSound'
    <3>1. \A n \in Notes : x2'[n].at = x2[n].at /\ (x2'[n].read = FALSE => x2[n].read = FALSE)
      BY <1>1, Zenon
    <3> QED BY <1>1, <2>1, <2>2, <3>1, DigestStands
  <2>4. x9' \in NotifyRun /\ x10' \subseteq Notes /\ x11' \subseteq Notes
    BY <1>0, <1>1, DigestBounds
  <2> QED BY <1>1, <2>1, <2>2, <2>3, <2>4, DigestsOnly
<1>3. CASE Notify!Clock
  <2>1. x1 < Days /\ x1' = x1 + 1 /\ x5' = x5
    BY <1>3 DEF Notify!Clock, Notify!inbox
  <2>2. x1' \in 0 .. Days /\ x1 <= x1' /\ x1 \in Nat
    BY <2>1, DigestBounds, NotifyBounds
  <2>3. NotifyTyped'
    BY <1>1, <2>1, <2>2, Zenon DEF NotifyTyped
  <2>4. InboxSound'
    <3>1. \A n \in Notes : x2[n].at <= x1'
      BY <2>1, <2>2, DigestBounds DEF InboxSound
    <3> QED BY <1>1, <3>1, Zenon DEF InboxSound
  <2>5. DigestSound'
    <3>1. x5.last <= x1'
      BY <2>1, <2>2, DigestBounds DEF DigestSound
    <3> QED BY <1>1, <2>1, <3>1, Zenon DEF DigestSound, Unread
  <2>6. PushSound'
    BY <1>1, Zenon DEF PushSound
  <2> QED BY <2>3, <2>4, <2>5, <2>6
<1> QED BY <1>2, <1>3

------------------------------------------------------------------------------
\* The text messages

LEMMA TextsKeep ==
  ASSUME TextTyped, TextSound, NEW m \in Texts,
         \/ Notify!SendSms(m) \/ Notify!GatewayTakes(m) \/ Notify!GatewayAnswers(m)
         \/ Notify!CallFails(m) \/ Notify!CarrierReports(m) \/ Notify!DeliveryCallback(m)
  PROVE  TextTyped' /\ TextSound'
<1>0. /\ x13 \in [Texts -> {"none", "PENDING", "SENT", "DELIVERED", "FAILED"}]
      /\ x14 \subseteq Texts /\ x15 \subseteq Texts /\ x18 \subseteq Texts
      /\ x16 \in [Texts -> {"none", "taken", "delivered", "lost"}]
      /\ x17 \in [Texts -> SUBSET {"delivered", "failed"}]
  BY DEF TextTyped
<1>1. /\ m \in x14 => m \notin x15
      /\ x13[m] = "none" => m \notin x14 /\ m \notin x15 /\ x16[m] = "none"
      /\ x16[m] = "delivered" /\ m \notin x18 =>
           /\ x17[m] \subseteq {"delivered"}
           /\ x17[m] = {} => m \in x14 /\ x13[m] = "DELIVERED"
  BY DEF TextSound
<1>2. ASSUME NEW s \in {"none", "PENDING", "SENT", "DELIVERED", "FAILED"},
             NEW c \in {"none", "taken", "delivered", "lost"},
             NEW R \in SUBSET {"delivered", "failed"},
             x13' = [x13 EXCEPT ![m] = s], x16' = [x16 EXCEPT ![m] = c],
             x17' = [x17 EXCEPT ![m] = R],
             x14' \subseteq Texts, x15' \subseteq Texts, x18' \subseteq Texts,
             \A o \in Texts \ {m} : /\ o \in x14' <=> o \in x14
                                    /\ o \in x15' <=> o \in x15
                                    /\ o \in x18' <=> o \in x18,
             m \in x14' => m \notin x15',
             s = "none" => m \notin x14' /\ m \notin x15' /\ c = "none",
             c = "delivered" /\ m \notin x18' =>
               R \subseteq {"delivered"} /\ (R = {} => m \in x14' /\ s = "DELIVERED")
      PROVE  TextTyped' /\ TextSound'
  <2>1. TextTyped'
    BY <1>0, <1>2 DEF TextTyped
  <2>2. ASSUME NEW o \in Texts
        PROVE  /\ o \in x14' => o \notin x15'
               /\ x13'[o] = "none" => o \notin x14' /\ o \notin x15' /\ x16'[o] = "none"
               /\ x16'[o] = "delivered" /\ o \notin x18' =>
                    /\ x17'[o] \subseteq {"delivered"}
                    /\ x17'[o] = {} => o \in x14' /\ x13'[o] = "DELIVERED"
    <3>1. CASE o = m
      <4>1. x13'[o] = s /\ x16'[o] = c /\ x17'[o] = R
        BY <1>0, <1>2, <3>1
      <4> QED BY <1>2, <3>1, <4>1
    <3>2. CASE o # m
      <4>1. x13'[o] = x13[o] /\ x16'[o] = x16[o] /\ x17'[o] = x17[o]
        BY <1>0, <1>2, <3>2
      <4> QED BY <1>2, <3>2, <4>1 DEF TextSound
    <3> QED BY <3>1, <3>2
  <2> QED BY <2>1, <2>2 DEF TextSound
<1>3. /\ x13[m] \in {"none", "PENDING", "SENT", "DELIVERED", "FAILED"}
      /\ x16[m] \in {"none", "taken", "delivered", "lost"}
      /\ x17[m] \in SUBSET {"delivered", "failed"}
      /\ x13 = [x13 EXCEPT ![m] = x13[m]] /\ x16 = [x16 EXCEPT ![m] = x16[m]]
      /\ x17 = [x17 EXCEPT ![m] = x17[m]]
  BY <1>0
<1>4. CASE Notify!SendSms(m)
  <2>1. PICK s \in {"PENDING", "FAILED"} : x13' = [x13 EXCEPT ![m] = s]
    BY <1>4 DEF Notify!SendSms
  <2>2. /\ x14' = x14 /\ x16' = x16 /\ x17' = x17 /\ x18' = x18 /\ x13[m] = "none"
        /\ x15' = x15 \/ x15' = x15 \union {m}
    BY <1>4 DEF Notify!SendSms
  <2>3. m \notin x14 /\ x16[m] # "delivered"
    BY <1>1, <2>2
  <2>4. s \in {"none", "PENDING", "SENT", "DELIVERED", "FAILED"} /\ s # "none"
    BY <2>1
  <2>5. x15' \subseteq Texts /\ \A o \in Texts \ {m} : o \in x15' <=> o \in x15
    BY <1>0, <2>2
  <2>6. x14' \subseteq Texts /\ x18' \subseteq Texts /\ m \notin x14'
    BY <1>0, <2>2, <2>3
  <2> QED BY <1>2, <1>3, <2>1, <2>2, <2>3, <2>4, <2>5, <2>6
<1>5. CASE Notify!GatewayTakes(m)
  <2>1. /\ x13' = x13 /\ x14' = x14 /\ x15' = x15 /\ x17' = x17 /\ x18' = x18
        /\ x16' = [x16 EXCEPT ![m] = "taken"] /\ m \in x15
    BY <1>5 DEF Notify!GatewayTakes
  <2>2. x13[m] # "none"
    BY <1>1, <2>1
  <2> QED BY <1>0, <1>1, <1>2, <1>3, <2>1, <2>2
<1>6. CASE Notify!GatewayAnswers(m)
  <2>1. /\ x16' = x16 /\ x17' = x17 /\ x18' = x18 /\ m \in x15 /\ x15' = x15 \ {m}
    BY <1>6 DEF Notify!GatewayAnswers
  <2>2. PICK s \in {"SENT", "FAILED"} : x13' = [x13 EXCEPT ![m] = s]
    BY <1>6 DEF Notify!GatewayAnswers
  <2>3. x14' = x14 \/ x14' = x14 \union {m}
    BY <1>6 DEF Notify!GatewayAnswers
  <2>4. m \notin x15' /\ x15' \subseteq Texts /\ x14' \subseteq Texts
    BY <1>0, <2>1, <2>3
  <2>5. x16[m] = "delivered" /\ m \notin x18 => x17[m] \subseteq {"delivered"} /\ x17[m] # {}
    BY <1>1, <2>1
  <2> QED BY <1>0, <1>2, <1>3, <2>1, <2>2, <2>3, <2>4, <2>5
<1>7. CASE Notify!CallFails(m)
  <2>1. /\ x14' = x14 /\ x16' = x16 /\ x17' = x17 /\ x18' = x18
        /\ m \in x15 /\ x15' = x15 \ {m}
    BY <1>7 DEF Notify!CallFails
  <2>2. PICK s \in {"FAILED", "PENDING"} : x13' = [x13 EXCEPT ![m] = s]
    BY <1>7 DEF Notify!CallFails
  <2>3. m \notin x15' /\ x15' \subseteq Texts
    BY <1>0, <2>1
  <2>5. x16[m] = "delivered" /\ m \notin x18 => x17[m] \subseteq {"delivered"} /\ x17[m] # {}
    BY <1>1, <2>1
  <2> QED BY <1>0, <1>2, <1>3, <2>1, <2>2, <2>3, <2>5
<1>8. CASE Notify!CarrierReports(m)
  <2>1. x13' = x13 /\ x14' = x14 /\ x15' = x15 /\ x16[m] = "taken"
    BY <1>8 DEF Notify!CarrierReports
  <2>2. PICK to \in {"delivered", "lost"}, early \in {{}, {"failed"}} :
          /\ x16' = [x16 EXCEPT ![m] = to]
          /\ x17' = [x17 EXCEPT ![m] = early \union {IF to = "lost" THEN "failed" ELSE to}]
          /\ x18' = IF to = "delivered" /\ early # {} THEN x18 \union {m} ELSE x18
    BY <1>8, Zenon DEF Notify!CarrierReports
  <2>3. PICK R \in SUBSET {"delivered", "failed"} :
          R = early \union {IF to = "lost" THEN "failed" ELSE to}
    BY <2>2
  <2>4. x17' = [x17 EXCEPT ![m] = R]
    BY <2>2, <2>3
  <2>5. /\ x18' \subseteq Texts /\ \A o \in Texts \ {m} : o \in x18' <=> o \in x18
        /\ to = "delivered" /\ m \notin x18' => early = {}
    BY <1>0, <2>2
  <2>6. to = "delivered" /\ m \notin x18' => R \subseteq {"delivered"} /\ R # {}
    BY <2>3, <2>5
  <2>7. x13[m] # "none"
    BY <1>1, <2>1
  <2>8. to \in {"none", "taken", "delivered", "lost"} /\ x16' = [x16 EXCEPT ![m] = to]
    BY <2>2
  <2> QED BY <1>0, <1>1, <1>2, <1>3, <2>1, <2>4, <2>5, <2>6, <2>7, <2>8
<1>9. CASE Notify!DeliveryCallback(m)
  <2>1. /\ x14' = x14 /\ x15' = x15 /\ x16' = x16
        /\ x18' = IF m \in x14 THEN x18 ELSE x18 \union {m}
    BY <1>9 DEF Notify!DeliveryCallback
  <2>2. PICK report \in x17[m], R \in SUBSET x17[m] :
          /\ x13' = IF m \in x14 THEN [x13 EXCEPT ![m] = Notify!Reported(report)] ELSE x13
          /\ x17' = [x17 EXCEPT ![m] = R]
    BY <1>9, Zenon DEF Notify!DeliveryCallback
  <2>3. R \in SUBSET {"delivered", "failed"} /\ R \subseteq x17[m]
    BY <1>3, <2>2
  <2>4. x18' \subseteq Texts /\ \A o \in Texts \ {m} : o \in x18' <=> o \in x18
    BY <1>0, <2>1
  <2>5. CASE m \in x14
    <3>1. PICK s \in {"DELIVERED", "FAILED"} :
            x13' = [x13 EXCEPT ![m] = s] /\ (report = "delivered" => s = "DELIVERED")
      BY <2>2, <2>5 DEF Notify!Reported
    <3>2. x16[m] = "delivered" /\ m \notin x18 => R \subseteq {"delivered"} /\ s = "DELIVERED"
      <4> SUFFICES ASSUME x16[m] = "delivered", m \notin x18
                   PROVE  R \subseteq {"delivered"} /\ s = "DELIVERED"
        OBVIOUS
      <4>1. x17[m] \subseteq {"delivered"}
        BY <1>1
      <4> QED BY <2>2, <2>3, <3>1, <4>1
    <3>3. x18' = x18
      BY <2>1, <2>5
    <3> QED BY <1>0, <1>1, <1>2, <1>3, <2>1, <2>2, <2>3, <2>5, <3>1, <3>2, <3>3
  <2>6. CASE m \notin x14
    <3>1. x13' = x13 /\ m \in x18'
      BY <2>1, <2>2, <2>6
    <3> QED BY <1>0, <1>1, <1>2, <1>3, <2>1, <2>2, <2>3, <2>4, <3>1
  <2> QED BY <2>5, <2>6
<1> QED BY <1>4, <1>5, <1>6, <1>7, <1>8, <1>9

------------------------------------------------------------------------------
LEMMA NotifyInductive == NotifyInv /\ [Notify!Next]_(Notify!vars) => NotifyInv'
<1> SUFFICES ASSUME NotifyInv, [Notify!Next]_(Notify!vars) PROVE NotifyInv'
  OBVIOUS
<1>0. NotifyTyped /\ InboxSound /\ DigestSound /\ PushSound /\ TextTyped /\ TextSound
  BY DEF NotifyInv
<1>1. CASE UNCHANGED Notify!vars
  <2>1. /\ x1' = x1 /\ x2' = x2 /\ x3' = x3 /\ x4' = x4 /\ x5' = x5 /\ x6' = x6 /\ x7' = x7
        /\ x8' = x8 /\ x9' = x9 /\ x10' = x10 /\ x11' = x11 /\ x12' = x12
        /\ x13' = x13 /\ x14' = x14 /\ x15' = x15 /\ x16' = x16 /\ x17' = x17 /\ x18' = x18
    BY <1>1 DEF Notify!vars, Notify!texts
  <2>2. NotifyTyped' /\ InboxSound' /\ PushSound'
    BY <1>0, <2>1, Zenon DEF NotifyTyped, InboxSound, PushSound
  <2>3. DigestSound'
    BY <1>0, <2>1, Zenon DEF DigestSound, Unread
  <2> QED BY <1>0, <2>1, <2>2, <2>3, TextsAside DEF NotifyInv
<1>2. CASE Notify!NotifyStep
  <2>1. /\ x13' = x13 /\ x14' = x14 /\ x15' = x15 /\ x16' = x16 /\ x17' = x17 /\ x18' = x18
    BY <1>2 DEF Notify!NotifyStep, Notify!texts
  <2>2. CASE Notify!InboxStep
    <3>1. ASSUME NEW r \in Notifiers,
                 \/ Notify!ReadPreference(r) \/ Notify!EnsureDigest(r)
                 \/ Notify!EnqueueEmail(r) \/ Notify!ListTokens(r)
                 \/ Notify!DeactivateToken(r) \/ Notify!CutShort(r)
                 \/ \E n \in Notes : Notify!CreateNotification(r, n)
                 \/ \E d \in Devices : Notify!Push(r, d) \/ Notify!PushRejected(r, d)
          PROVE  NotifyTyped' /\ InboxSound' /\ DigestSound' /\ PushSound'
      BY <1>0, <3>1, NotifyAsks, PushRejectedKeeps, EnsureDigestKeeps, EnqueueEmailKeeps, DeactivateTokenKeeps,
         CreateNotificationKeeps
    <3>2. ASSUME NEW n \in Notes,
                 Notify!EmailSent(n) \/ Notify!EmailFails(n) \/ Notify!MarkRead({n})
          PROVE  NotifyTyped' /\ InboxSound' /\ DigestSound' /\ PushSound'
      <4>1. {n} \in SUBSET Notes
        OBVIOUS
      <4> QED BY <1>0, <3>2, <4>1, RowsKeep, MarkReadKeeps
    <3>3. ASSUME Notify!MarkRead({n \in Notes : x2[n] # Notify!NoRow /\ ~x2[n].read})
          PROVE  NotifyTyped' /\ InboxSound' /\ DigestSound' /\ PushSound'
      <4> DEFINE all == {n \in Notes : x2[n] # Notify!NoRow /\ ~x2[n].read}
      <4>1. all \in SUBSET Notes
        OBVIOUS
      <4>2. Notify!MarkRead(all)
        BY <3>3
      <4> HIDE DEF all
      <4>3. PICK read \in SUBSET Notes : Notify!MarkRead(read)
        BY <4>1, <4>2, Zenon
      <4> QED BY <1>0, <4>3, MarkReadKeeps
    <3>4. NotifyTyped' /\ InboxSound' /\ DigestSound' /\ PushSound'
      BY <2>2, <3>1, <3>2, <3>3, Zenon DEF Notify!InboxStep
    <3> QED BY <1>0, <2>1, <3>4, TextsAside DEF NotifyInv
  <2>3. CASE Notify!PhoneStep
    BY <1>0, <2>1, <2>3, PhonesKeep, TextsAside DEF NotifyInv
  <2>4. CASE Notify!DigestStep
    <3>1. NotifyTyped' /\ InboxSound' /\ DigestSound' /\ PushSound'
      BY <1>0, <2>4, FindUnreadKeeps, DigestRuns, DigestSettings DEF Notify!DigestStep
    <3> QED BY <1>0, <2>1, <3>1, TextsAside DEF NotifyInv
  <2> QED BY <1>2, <2>2, <2>3, <2>4 DEF Notify!NotifyStep
<1>3. CASE Notify!TextStep
  <2>1. /\ x1' = x1 /\ x2' = x2 /\ x3' = x3 /\ x4' = x4 /\ x5' = x5 /\ x6' = x6 /\ x7' = x7
        /\ x8' = x8 /\ x9' = x9 /\ x10' = x10 /\ x11' = x11 /\ x12' = x12
    BY <1>3 DEF Notify!TextStep, Notify!inbox, Notify!phones, Notify!digesting
  <2>2. NotifyTyped' /\ InboxSound' /\ PushSound'
    BY <1>0, <2>1, Zenon DEF NotifyTyped, InboxSound, PushSound
  <2>3. DigestSound'
    BY <1>0, <2>1, Zenon DEF DigestSound, Unread
  <2>4. TextTyped' /\ TextSound'
    BY <1>0, <1>3, TextsKeep DEF Notify!TextStep
  <2> QED BY <2>2, <2>3, <2>4 DEF NotifyInv
<1> QED BY <1>1, <1>2, <1>3 DEF Notify!Next

LEMMA NotifyMeans == NotifyInv => Notify!TypeOK /\ Notify!NotificationsReach
<1> SUFFICES ASSUME NotifyInv PROVE Notify!TypeOK /\ Notify!NotificationsReach
  OBVIOUS
<1>0. NotifyTyped /\ InboxSound /\ DigestSound /\ PushSound /\ TextTyped /\ TextSound
  BY DEF NotifyInv
<1>1. Notify!TypeOK
  <2>1. \A n \in Notes : x2[n].at \in -1 .. Days /\ x3[n] \in 0 .. MailTries
    BY <1>0 DEF NotifyTyped, NotifyRow
  <2>2. x5.last \in -1 .. Days
    BY <1>0, DigestBounds
  <2>3. \A r \in Notifiers :
          x8[r].pc \in {"idle", "create", "digest", "enqueue", "list", "push"}
    BY <1>0 DEF NotifyTyped, NotifyTask
  <2>4. x9.found \union x10 \union x11 \subseteq Notes
    BY <1>0 DEF NotifyTyped, NotifyRun
  <2>5. x14 \union x15 \union x18 \subseteq Texts
    BY <1>0 DEF TextTyped
  <2> QED BY <1>0, <2>1, <2>2, <2>3, <2>4, <2>5, Zenon DEF NotifyTyped, TextTyped, Notify!TypeOK
<1>2. \A n \in Notes \ x11 :
        x2[n] # Notify!NoRow /\ ~x2[n].read /\ x2[n].at < x5.last => n \in x10
  <2> SUFFICES ASSUME NEW n \in Notes \ x11, x2[n] # Notify!NoRow, ~x2[n].read,
                      x2[n].at < x5.last
               PROVE  n \in x10
    OBVIOUS
  <2>1. x2[n].at # -1
    BY <1>0 DEF InboxSound
  <2>2. x2[n].read = FALSE
    <3>1. x2[n].read \in BOOLEAN
      BY <1>0, DigestBounds
    <3> QED BY <3>1, Zenon
  <2>3. Unread(n)
    BY <2>1, <2>2, Zenon DEF Unread
  <2> QED BY <1>0, <2>3 DEF DigestSound
<1>3. \A d \in x7 \ x12 : x6[d] # "inactive"
  BY <1>0, Zenon DEF PushSound
<1>4. \A m \in Texts \ (x18 \union x15) :
        x16[m] = "delivered" /\ x17[m] = {} => x13[m] = "DELIVERED"
  BY <1>0 DEF TextSound
<1> QED BY <1>1, <1>2, <1>3, <1>4, Zenon DEF Notify!NotificationsReach

==============================================================================
