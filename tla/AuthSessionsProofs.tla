-------------------------- MODULE AuthSessionsProofs --------------------------
(***************************************************************************)
(* Types and safety of sessions for every number of pairs, users and       *)
(* concurrent requests, every length of a second and every life of a       *)
(* token.                                                                  *)
(***************************************************************************)
EXTENDS AuthSessions, FiniteSetTheorems, TLAPS

(* Pairs are numbered in the order of their issue, and a request works on   *)
(* pairs that were issued.                                                  *)
Sequential == \E k \in Nat : DOMAIN pairs = 1..k

Holding ==
  \A p \in AuthProcs :
    /\ act[p].pc = "issue" => act[p].user \in Members /\ act[p].from \subseteq DOMAIN pairs
    /\ act[p].pc \in {"checkUser", "revoke", "revokeOne", "revokeAll"}
         => act[p].pair \in DOMAIN pairs
    /\ act[p].pc \in {"revokeOne", "revokeAll", "block", "blocklist"}
         => act[p].access \in DOMAIN pairs

AuthInv == AuthTypeOK /\ Sequential /\ Holding

(* A key of the blocklist ends with its token.                              *)
KeysEndWithTokens ==
  /\ \A a \in DOMAIN blocked : blocked[a] = pairs[a].exp * SecondLength
  /\ \A a \in loggedOut : a \in DOMAIN blocked \/ pairs[a].exp * SecondLength <= clock

(* The refresh tokens a request is about to exchange are revoked already,   *)
(* and no request works for a user who is logged out everywhere.            *)
DeadBeforeUse ==
  /\ \A p \in AuthProcs : act[p].pc = "issue" => \A n \in act[p].from : ~Live(n)
  /\ \A u \in out : \A p \in AuthProcs : ~WorkingFor(p, u)

(* What issuing a pair does to the numbering.                               *)
LEMMA NextPair ==
  ASSUME AuthInv, NEW p \in AuthProcs, IssuePair(p)
  PROVE  \E k \in Nat :
           /\ DOMAIN pairs = 1..k /\ k + 1 <= MaxPairs
           /\ pairs' = [x \in 1..(k + 1) |->
                          IF x # k + 1 THEN pairs[x]
                          ELSE [user |-> act[p].user, row |-> "live",
                                exp |-> clock \div SecondLength + AccessTtl,
                                expires |-> clock + RefreshTtl]]
<1>1. PICK k \in Nat : DOMAIN pairs = 1..k
  BY DEF AuthInv, Sequential
<1>2. Cardinality(1..k) = k
  BY FS_Interval
<1>3. Cardinality(DOMAIN pairs) + 1 = k + 1
  BY <1>1, <1>2
<1> QED BY <1>1, <1>3 DEF IssuePair

(* A whole number of seconds that has passed has been reached by the clock. *)
LEMMA SecondsPass ==
  ASSUME NEW c \in Nat, NEW e \in Nat, NEW s \in Nat \ {0}
  PROVE  e * s <= c <=> c \div s >= e
<1> DEFINE q == c \div s
           r == c % s
<1>1. q \in Nat /\ r \in Nat /\ c = q * s + r /\ r < s
  OBVIOUS
<1>2. CASE q >= e
  <2>1. PICK d \in Nat : q = e + d
    BY <1>1, <1>2
  <2>2. q * s = e * s + d * s
    BY <2>1
  <2> QED BY <1>1, <1>2, <2>2
<1>3. CASE q < e
  <2> DEFINE d == e - (q + 1)
  <2>1. d \in Nat /\ e = q + 1 + d
    BY <1>1, <1>3
  <2>2. e * s = q * s + s + d * s
    BY <2>1
  <2>3. d * s \in Nat
    BY <2>1
  <2>4. q * s \in Nat /\ e * s \in Nat
    BY <1>1
  <2>5. ~(e * s <= c)
    BY <1>1, <2>2, <2>3, <2>4
  <2> QED BY <1>3, <2>5
<1> QED BY <1>1, <1>2, <1>3
(* Issuing a pair keeps the table and the requests well-formed.             *)
LEMMA TypeIssue ==
  ASSUME AuthInv, NEW p \in AuthProcs, IssuePair(p)
  PROVE  AuthInv'
<1>1. PICK k \in Nat :
        /\ DOMAIN pairs = 1..k /\ k + 1 <= MaxPairs
        /\ pairs' = [x \in 1..(k + 1) |->
                       IF x # k + 1 THEN pairs[x]
                       ELSE [user |-> act[p].user, row |-> "live",
                             exp |-> clock \div SecondLength + AccessTtl,
                             expires |-> clock + RefreshTtl]]
  BY NextPair
<1>2. DOMAIN pairs' = 1..(k + 1)
  BY <1>1
<1>3. DOMAIN pairs' \subseteq PairIds /\ DOMAIN pairs \subseteq DOMAIN pairs'
  BY <1>1, <1>2, AuthAssumption DEF PairIds
<1>4. pairs' \in [DOMAIN pairs' -> Pair]
  <2>1. act[p].user \in Members
    BY DEF AuthInv, Holding, IssuePair
  <2>2. clock \div SecondLength + AccessTtl \in Nat /\ clock + RefreshTtl \in Nat
    BY AuthAssumption DEF AuthInv, AuthTypeOK
  <2>3. [user |-> act[p].user, row |-> "live",
         exp |-> clock \div SecondLength + AccessTtl,
         expires |-> clock + RefreshTtl] \in Pair
    BY <2>1, <2>2 DEF Pair
  <2>4. \A x \in 1..k : pairs[x] \in Pair
    BY <1>1 DEF AuthInv, AuthTypeOK
  <2>5. \A x \in 1..(k + 1) : x # k + 1 => x \in 1..k
    OBVIOUS
  <2> QED BY <1>1, <1>2, <2>3, <2>4, <2>5
<1>5. Sequential'
  BY <1>2 DEF Sequential
<1>6. act' = [act EXCEPT ![p] = Resting] /\ act' \in [AuthProcs -> Act]
  BY DEF IssuePair, Rest, Proceed, Resting, AuthInv, AuthTypeOK, Act
<1>7. Holding'
  BY <1>3, <1>6 DEF AuthInv, AuthTypeOK, Holding, Resting
<1>8. AuthTypeOK'
  <2>1. used' \subseteq DOMAIN pairs'
    BY <1>3 DEF AuthInv, AuthTypeOK, Holding, IssuePair
  <2> QED BY <1>3, <1>4, <1>6, <2>1 DEF AuthInv, AuthTypeOK, IssuePair
<1> QED BY <1>5, <1>7, <1>8 DEF AuthInv

(* Steps that write rows change nothing but their state.                    *)
LEMMA TypeRows ==
  ASSUME AuthInv, NEW p \in AuthProcs,
         RefreshRevoke(p) \/ RevokeOne(p) \/ RevokeAll(p) \/ Purge
  PROVE  /\ DOMAIN pairs' = DOMAIN pairs
         /\ pairs' \in [DOMAIN pairs -> Pair]
<1>1. CASE RefreshRevoke(p)
  <2>1. act[p].pair \in DOMAIN pairs
    BY <1>1 DEF AuthInv, Holding, RefreshRevoke
  <2> QED BY <1>1, <2>1 DEF RefreshRevoke, AuthInv, AuthTypeOK, Pair
<1>2. CASE RevokeOne(p)
  BY <1>2 DEF RevokeOne, RevokeRows, AuthInv, AuthTypeOK, Pair
<1>3. CASE RevokeAll(p)
  BY <1>3 DEF RevokeAll, RevokeRows, AuthInv, AuthTypeOK, Pair
<1>4. CASE Purge
  BY <1>4 DEF Purge, AuthInv, AuthTypeOK, Pair
<1> QED BY <1>1, <1>2, <1>3, <1>4

(* Whatever a request does next, it does with issued pairs.                 *)
LEMMA TypeAct ==
  ASSUME AuthInv, NEW p \in AuthProcs,
         \/ SignIn(p) \/ RefreshFind(p) \/ RefreshUser(p) \/ RefreshRevoke(p)
         \/ GuardVerify(p) \/ GuardPass(p) \/ GuardRefuse(p)
         \/ RevokeOne(p) \/ RevokeAll(p) \/ BlockAccess(p) \/ StopAct(p),
         DOMAIN pairs' = DOMAIN pairs
  PROVE  act' \in [AuthProcs -> Act] /\ Holding'
<1> SUFFICES \E r \in Act :
      /\ act' = [act EXCEPT ![p] = r]
      /\ r.pc = "issue" => r.user \in Members /\ r.from \subseteq DOMAIN pairs
      /\ r.pc \in {"checkUser", "revoke", "revokeOne", "revokeAll"}
           => r.pair \in DOMAIN pairs
      /\ r.pc \in {"revokeOne", "revokeAll", "block", "blocklist"}
           => r.access \in DOMAIN pairs
  BY DEF AuthInv, AuthTypeOK, Holding
<1>1. DOMAIN pairs \subseteq PairIds /\ \A n \in DOMAIN pairs : pairs[n].user \in Members
  BY DEF AuthInv, AuthTypeOK, Pair
<1>2. Resting \in Act /\ Resting.pc = "idle"
  BY DEF Resting, Act
<1>3. CASE SignIn(p)
  <2>1. PICK u \in Members : act' = [act EXCEPT ![p] = [pc |-> "issue", user |-> u, from |-> {}]]
    BY <1>3 DEF SignIn, Proceed
  <2>2. [pc |-> "issue", user |-> u, from |-> {}] \in Act
    BY DEF Act
  <2> QED BY <2>1, <2>2
<1>4. CASE RefreshFind(p)
  <2>1. PICK n \in DOMAIN pairs : act' = [act EXCEPT ![p] = [pc |-> "checkUser", pair |-> n]]
    BY <1>4 DEF RefreshFind, Proceed
  <2>2. [pc |-> "checkUser", pair |-> n] \in Act
    BY <1>1 DEF Act
  <2> QED BY <2>1, <2>2
<1>5. CASE RefreshUser(p)
  BY <1>1, <1>2, <1>5 DEF RefreshUser, Rest, Proceed, Act, AuthInv, Holding
<1>6. CASE RefreshRevoke(p)
  <2>1. act[p].pair \in DOMAIN pairs
    BY <1>6 DEF AuthInv, Holding, RefreshRevoke
  <2> DEFINE r == [pc |-> "issue", user |-> pairs[act[p].pair].user, from |-> {act[p].pair}]
  <2>2. r \in Act
    BY <1>1, <2>1 DEF Act
  <2>3. act' = [act EXCEPT ![p] = r]
    BY <1>6 DEF RefreshRevoke, Proceed
  <2> QED BY <1>1, <2>1, <2>2, <2>3
<1>7. CASE GuardVerify(p)
  <2>1. PICK a \in DOMAIN pairs : act' = [act EXCEPT ![p] = [pc |-> "blocklist", access |-> a]]
    BY <1>7 DEF GuardVerify, Proceed
  <2>2. [pc |-> "blocklist", access |-> a] \in Act
    BY <1>1 DEF Act
  <2> QED BY <2>1, <2>2
<1>8. CASE GuardPass(p)
  <2>1. act[p].access \in DOMAIN pairs
    BY <1>8 DEF AuthInv, Holding, GuardPass
  <2> QED BY <1>1, <1>2, <1>8, <2>1 DEF GuardPass, Rest, Proceed, Act
<1>9. CASE GuardRefuse(p) \/ BlockAccess(p) \/ StopAct(p)
  BY <1>2, <1>9 DEF GuardRefuse, BlockAccess, StopAct, Rest, Proceed
<1>10. CASE RevokeOne(p) \/ RevokeAll(p)
  <2>1. act[p].access \in DOMAIN pairs
    BY <1>10 DEF AuthInv, Holding, RevokeOne, RevokeAll
  <2> QED BY <1>1, <1>10, <2>1 DEF RevokeOne, RevokeAll, Proceed, Act
<1> QED BY <1>3, <1>4, <1>5, <1>6, <1>7, <1>8, <1>9, <1>10

(* Blocking a token keeps the blocklist well-formed.                        *)
LEMMA TypeBlock ==
  ASSUME AuthInv, NEW p \in AuthProcs, BlockAccess(p)
  PROVE  /\ DOMAIN blocked' \subseteq DOMAIN pairs /\ blocked' \in [DOMAIN blocked' -> Nat]
         /\ loggedOut' \subseteq DOMAIN pairs
<1>1. act[p].access \in DOMAIN pairs
  BY DEF AuthInv, Holding, BlockAccess
<1>2. pairs[act[p].access].exp * SecondLength \in Nat
  BY <1>1, AuthAssumption DEF AuthInv, AuthTypeOK, Pair
<1> QED BY <1>1, <1>2 DEF BlockAccess, AuthInv, AuthTypeOK

(* Every step keeps the tables and the requests well-formed.                *)
LEMMA TypeStep ==
  ASSUME AuthInv, [AuthNext]_authVars
  PROVE  AuthInv'
<1>1. ASSUME NEW p \in AuthProcs, IssuePair(p)
      PROVE  AuthInv'
  BY <1>1, TypeIssue
<1>2. ASSUME NEW p \in AuthProcs, RefreshRevoke(p) \/ RevokeOne(p) \/ RevokeAll(p)
      PROVE  AuthInv'
  <2>1. DOMAIN pairs' = DOMAIN pairs /\ pairs' \in [DOMAIN pairs -> Pair]
    BY <1>2, TypeRows
  <2>2. act' \in [AuthProcs -> Act] /\ Holding'
    BY <1>2, <2>1, TypeAct
  <2>3. out' \subseteq Members
    <3>1. CASE RevokeAll(p)
      <4>1. pairs[act[p].access].user \in Members
        BY <3>1 DEF RevokeAll, AuthInv, AuthTypeOK, Holding, Pair
      <4> QED BY <3>1, <4>1 DEF RevokeAll, AuthInv, AuthTypeOK
    <3> QED BY <1>2, <3>1 DEF RefreshRevoke, RevokeOne, AuthInv, AuthTypeOK
  <2> QED
    BY <1>2, <2>1, <2>2, <2>3
    DEF AuthInv, AuthTypeOK, Sequential, RefreshRevoke, RevokeOne, RevokeAll
<1>3. ASSUME NEW p \in AuthProcs,
             \/ SignIn(p) \/ RefreshFind(p) \/ RefreshUser(p) \/ GuardVerify(p)
             \/ GuardPass(p) \/ GuardRefuse(p) \/ StopAct(p)
      PROVE  AuthInv'
  <2>1. UNCHANGED <<clock, pairs, blocked, used, loggedOut, inactive>> /\ out' \subseteq out
    BY <1>3 DEF SignIn, RefreshFind, RefreshUser, GuardVerify, GuardPass,
                GuardRefuse, StopAct
  <2>2. act' \in [AuthProcs -> Act] /\ Holding'
    BY <1>3, <2>1, TypeAct
  <2> QED BY <2>1, <2>2 DEF AuthInv, AuthTypeOK, Sequential
<1>4. ASSUME NEW p \in AuthProcs, BlockAccess(p)
      PROVE  AuthInv'
  <2>1. UNCHANGED <<clock, pairs, used, out, inactive>>
    BY <1>4 DEF BlockAccess
  <2>2. act' \in [AuthProcs -> Act] /\ Holding'
    BY <1>4, <2>1, TypeAct
  <2> QED BY <1>4, <2>1, <2>2, TypeBlock DEF AuthInv, AuthTypeOK, Sequential
<1>5. CASE Purge
  <2>1. DOMAIN pairs' = DOMAIN pairs /\ pairs' \in [DOMAIN pairs -> Pair]
    BY <1>5 DEF Purge, AuthInv, AuthTypeOK, Pair
  <2> QED BY <1>5, <2>1 DEF Purge, AuthInv, AuthTypeOK, Sequential, Holding
<1>6. CASE ClockTick
  <2>1. clock' \in 0..MaxClock
    BY <1>6, AuthAssumption DEF ClockTick, AuthInv, AuthTypeOK
  <2> QED BY <1>6, <2>1 DEF ClockTick, AuthInv, AuthTypeOK, Sequential, Holding
<1>8. CASE \E u \in Members : DeactivateMember(u)
  BY <1>8 DEF DeactivateMember, AuthInv, AuthTypeOK, Sequential, Holding
<1>7. CASE UNCHANGED authVars
  BY <1>7 DEF authVars, AuthInv, AuthTypeOK, Sequential, Holding
<1> QED BY <1>1, <1>2, <1>3, <1>4, <1>5, <1>6, <1>7, <1>8 DEF AuthNext

(* The tables of sessions and tokens keep their types, pair ids are given   *)
(* out in order, and requests only hold pairs that were issued.             *)
THEOREM AuthTypeCorrect == AuthSpec => []AuthInv
<1>1. AuthInit => AuthInv
  <2>1. AuthInit => DOMAIN pairs = 1..0
    BY DEF AuthInit
  <2> QED
    BY SMTT(60), <2>1, AuthAssumption
    DEF AuthInit, AuthInv, AuthTypeOK, Sequential, Holding, Resting, Act
<1> QED BY <1>1, TypeStep, PTL DEF AuthSpec

(* An access token whose logout was answered stays blocked as long as       *)
(* jwt.verify takes it, at any moment of a second and for any length of     *)
(* token lives.                                                             *)
THEOREM LoggedOutStaysBlocked == AuthSpec => []LoggedOutIsBlocked
<1>1. AuthInit => KeysEndWithTokens
  BY DEF AuthInit, KeysEndWithTokens
<1>2. ASSUME AuthInv, KeysEndWithTokens, [AuthNext]_authVars
      PROVE  KeysEndWithTokens'
  <2> USE DEF KeysEndWithTokens
  <2>1. \A a \in DOMAIN pairs : a \in DOMAIN pairs' /\ pairs'[a].exp = pairs[a].exp
    <3>1. ASSUME NEW p \in AuthProcs, IssuePair(p)
          PROVE  \A a \in DOMAIN pairs : a \in DOMAIN pairs' /\ pairs'[a] = pairs[a]
      BY <1>2, <3>1, NextPair
    <3>2. ASSUME NEW p \in AuthProcs, RefreshRevoke(p)
          PROVE  \A a \in DOMAIN pairs : a \in DOMAIN pairs' /\ pairs'[a].exp = pairs[a].exp
      BY <1>2, <3>2 DEF RefreshRevoke, AuthInv, AuthTypeOK, Pair
    <3>3. ASSUME NEW p \in AuthProcs, RevokeOne(p) \/ RevokeAll(p)
          PROVE  \A a \in DOMAIN pairs : a \in DOMAIN pairs' /\ pairs'[a].exp = pairs[a].exp
      BY <1>2, <3>3 DEF RevokeOne, RevokeAll, RevokeRows, AuthInv, AuthTypeOK, Pair
    <3>4. CASE Purge
      BY <1>2, <3>4 DEF Purge, AuthInv, AuthTypeOK, Pair
    <3>5. CASE UNCHANGED pairs
      BY <3>5
    <3> QED
      BY <1>2, <3>1, <3>2, <3>3, <3>4, <3>5
      DEF AuthNext, authVars, SignIn, RefreshFind, RefreshUser, GuardVerify, GuardPass,
          GuardRefuse, BlockAccess, StopAct, DeactivateMember, ClockTick
  <2>2. clock \in Nat /\ clock' \in Nat /\ clock <= clock'
    <3>1. clock' = clock \/ clock' = clock + 1
      BY <1>2
      DEF AuthNext, authVars, SignIn, IssuePair, RefreshFind, RefreshUser, RefreshRevoke,
          GuardVerify, GuardPass, GuardRefuse, RevokeOne, RevokeAll, BlockAccess,
          StopAct, Purge, DeactivateMember, ClockTick
    <3> QED BY SMTT(60), <1>2, <3>1 DEF AuthInv, AuthTypeOK
  <2>3. DOMAIN blocked \subseteq DOMAIN pairs /\ loggedOut \subseteq DOMAIN pairs
    BY <1>2 DEF AuthInv, AuthTypeOK
  <2>4. \A a \in DOMAIN pairs : pairs[a].exp * SecondLength \in Nat
    BY <1>2, AuthAssumption DEF AuthInv, AuthTypeOK, Pair
  <2>5. ASSUME NEW p \in AuthProcs, BlockAccess(p)
        PROVE  KeysEndWithTokens'
    <3>1. act[p].access \in DOMAIN pairs /\ pairs' = pairs /\ clock' = clock
      BY <1>2, <2>5 DEF BlockAccess, AuthInv, Holding
    <3> QED BY <1>2, <2>3, <2>4, <2>5, <3>1 DEF BlockAccess
  <2>6. CASE UNCHANGED <<blocked, loggedOut>>
    BY <1>2, <2>1, <2>2, <2>3, <2>4, <2>6
  <2> QED
    BY <1>2, <2>5, <2>6
    DEF AuthNext, authVars, SignIn, IssuePair, RefreshFind, RefreshUser, RefreshRevoke,
        GuardVerify, GuardPass, GuardRefuse, RevokeOne, RevokeAll, StopAct, Purge,
        DeactivateMember, ClockTick
<1>3. AuthInv /\ KeysEndWithTokens => LoggedOutIsBlocked
  <2> SUFFICES ASSUME AuthInv, KeysEndWithTokens, NEW a \in loggedOut
               PROVE  Expired(a) \/ Blocked(a)
    BY DEF LoggedOutIsBlocked
  <2>1. clock \in Nat /\ pairs[a].exp \in Nat /\ SecondLength \in Nat \ {0}
    BY AuthAssumption DEF AuthInv, AuthTypeOK, Pair
  <2>2. pairs[a].exp * SecondLength <= clock <=> clock \div SecondLength >= pairs[a].exp
    BY <2>1, SecondsPass
  <2>3. pairs[a].exp * SecondLength \in Nat
    BY <2>1
  <2> QED BY <2>1, <2>2, <2>3 DEF KeysEndWithTokens, Expired, Blocked
<1> QED BY <1>1, <1>2, <1>3, AuthTypeCorrect, PTL DEF AuthSpec

(* A row that is not live never becomes live again, and a pair that is      *)
(* issued is new.                                                           *)
LEMMA DeadStaysDead ==
  ASSUME AuthInv, [AuthNext]_authVars, NEW n \in DOMAIN pairs
  PROVE  /\ n \in DOMAIN pairs' /\ pairs'[n].user = pairs[n].user
         /\ ~Live(n) => pairs'[n].row # "live"
<1> USE DEF Live
<1>1. ASSUME NEW p \in AuthProcs, IssuePair(p)
      PROVE  n \in DOMAIN pairs' /\ pairs'[n] = pairs[n]
  BY <1>1, NextPair
<1>2. ASSUME NEW p \in AuthProcs, RefreshRevoke(p)
      PROVE  /\ n \in DOMAIN pairs' /\ pairs'[n].user = pairs[n].user
             /\ ~Live(n) => pairs'[n].row # "live"
  BY <1>2 DEF RefreshRevoke, AuthInv, AuthTypeOK, Pair
<1>3. ASSUME NEW p \in AuthProcs, RevokeOne(p) \/ RevokeAll(p)
      PROVE  /\ n \in DOMAIN pairs' /\ pairs'[n].user = pairs[n].user
             /\ ~Live(n) => pairs'[n].row # "live"
  BY <1>3 DEF RevokeOne, RevokeAll, RevokeRows, AuthInv, AuthTypeOK, Pair
<1>4. CASE Purge
  BY <1>4 DEF Purge, AuthInv, AuthTypeOK, Pair
<1>5. CASE UNCHANGED pairs
  BY <1>5
<1> QED
  BY <1>1, <1>2, <1>3, <1>4, <1>5
  DEF AuthNext, authVars, SignIn, RefreshFind, RefreshUser, GuardVerify, GuardPass,
      GuardRefuse, BlockAccess, StopAct, DeactivateMember, ClockTick

(* The inductive invariant of token exchanges.                              *)
DieInv == RefreshTokensDie /\ DeadBeforeUse

(* An exchange issues its pair once the row it was given is dead, and only  *)
(* for a user who is not logged out everywhere.                             *)
LEMMA DieIssue ==
  ASSUME AuthInv, DieInv, NEW p \in AuthProcs, IssuePair(p)
  PROVE  DieInv'
<1> USE DEF DieInv, RefreshTokensDie, DeadBeforeUse, Live
<1>1. PICK k \in Nat :
        /\ DOMAIN pairs = 1..k /\ k + 1 <= MaxPairs
        /\ pairs' = [x \in 1..(k + 1) |->
                       IF x # k + 1 THEN pairs[x]
                       ELSE [user |-> act[p].user, row |-> "live",
                             exp |-> clock \div SecondLength + AccessTtl,
                             expires |-> clock + RefreshTtl]]
  BY NextPair
<1>2. \A n \in DOMAIN pairs : n \in DOMAIN pairs' /\ pairs'[n] = pairs[n]
  BY <1>1
<1>3. \A n \in DOMAIN pairs' :
        \/ n \in DOMAIN pairs
        \/ n \notin DOMAIN pairs /\ pairs'[n].user = act[p].user
  BY <1>1
<1>4. used \subseteq DOMAIN pairs /\ act[p].from \subseteq DOMAIN pairs
  BY DEF AuthInv, AuthTypeOK, Holding, IssuePair
<1>5. act[p].pc = "issue" /\ used' = used \cup act[p].from /\ out' = out
  BY DEF IssuePair
<1>6. \A n \in used' : pairs'[n].row # "live"
  BY <1>2, <1>4, <1>5
<1>7. act[p].user \notin out
  BY <1>5 DEF WorkingFor
<1>8. \A u \in out' : \A n \in DOMAIN pairs' : pairs'[n].user = u => pairs'[n].row # "live"
  BY <1>2, <1>3, <1>5, <1>7
<1>9. /\ act' = [act EXCEPT ![p] = Resting]
      /\ \A q \in AuthProcs : act'[q] = IF q = p THEN Resting ELSE act[q]
  BY DEF IssuePair, Rest, Proceed, AuthInv, AuthTypeOK
<1>10. \A q \in AuthProcs :
         act'[q].pc = "issue" => \A n \in act'[q].from : pairs'[n].row # "live"
  BY <1>2, <1>9 DEF Resting, AuthInv, Holding
<1>11. \A u \in out' : \A q \in AuthProcs : ~WorkingFor(q, u)'
  BY <1>2, <1>5, <1>9 DEF WorkingFor, Resting, AuthInv, Holding
<1> QED BY <1>6, <1>8, <1>10, <1>11

(* Used refresh tokens are dead, and a logout everywhere that met no        *)
(* request half way leaves nothing that can be refreshed, for any number of *)
(* users, pairs and requests.                                               *)
THEOREM UsedTokensDie == AuthSpec => []RefreshTokensDie
<1>1. AuthInit => DieInv
  BY DEF AuthInit, DieInv, RefreshTokensDie, DeadBeforeUse, Resting
<1>2. ASSUME AuthInv, DieInv, [AuthNext]_authVars
      PROVE  DieInv'
  <2> USE DEF DieInv, RefreshTokensDie, DeadBeforeUse
  <2>1. \A n \in DOMAIN pairs :
          /\ n \in DOMAIN pairs' /\ pairs'[n].user = pairs[n].user
          /\ ~Live(n) => pairs'[n].row # "live"
    BY <1>2, DeadStaysDead
  <2>2. ASSUME NEW p \in AuthProcs, IssuePair(p)
        PROVE  DieInv'
    BY <1>2, <2>2, DieIssue
  <2>3. ASSUME DOMAIN pairs' = DOMAIN pairs, used' = used, out' \subseteq out,
               \A q \in AuthProcs :
                 \/ act'[q] = act[q]
                 \/ /\ act'[q].pc = "issue" => \A n \in act'[q].from : pairs'[n].row # "live"
                    /\ \A u \in out' : ~WorkingFor(q, u)'
        PROVE  DieInv'
    <3>1. \A n \in used' : ~Live(n)'
      BY <1>2, <2>1, <2>3 DEF Live, AuthInv, AuthTypeOK
    <3>2. \A u \in out' : \A n \in DOMAIN pairs' : pairs'[n].user = u => ~Live(n)'
      BY <1>2, <2>1, <2>3 DEF Live
    <3>3. \A p \in AuthProcs : act'[p].pc = "issue" => \A n \in act'[p].from : ~Live(n)'
      BY <1>2, <2>1, <2>3 DEF Live, AuthInv, Holding
    <3>4. \A u \in out' : \A p \in AuthProcs : ~WorkingFor(p, u)'
      BY <1>2, <2>1, <2>3 DEF WorkingFor, AuthInv, Holding
    <3> QED BY <3>1, <3>2, <3>3, <3>4
  <2>4. ASSUME NEW p \in AuthProcs, SignIn(p)
        PROVE  DieInv'
    BY <1>2, <2>3, <2>4 DEF SignIn, Proceed, WorkingFor, AuthInv, AuthTypeOK
  <2>5. ASSUME NEW p \in AuthProcs, RefreshFind(p)
        PROVE  DieInv'
    <3>1. PICK n \in DOMAIN pairs :
            Live(n) /\ act' = [act EXCEPT ![p] = [pc |-> "checkUser", pair |-> n]]
      BY <2>5 DEF RefreshFind, Proceed
    <3>2. pairs[n].user \notin out
      BY <1>2, <3>1
    <3> QED
      BY <1>2, <2>3, <2>5, <3>1, <3>2 DEF RefreshFind, WorkingFor, AuthInv, AuthTypeOK
  <2>6. ASSUME NEW p \in AuthProcs, RefreshUser(p)
        PROVE  DieInv'
    BY <1>2, <2>3, <2>6
    DEF RefreshUser, Rest, Proceed, Resting, WorkingFor, AuthInv, AuthTypeOK
  <2>7. ASSUME NEW p \in AuthProcs, RefreshRevoke(p)
        PROVE  DieInv'
    <3> DEFINE n == act[p].pair
    <3>1. n \in DOMAIN pairs /\ pairs[n].user \notin out
      BY <1>2, <2>7 DEF RefreshRevoke, AuthInv, Holding, WorkingFor
    <3>2. DOMAIN pairs' = DOMAIN pairs /\ pairs'[n].row # "live"
      BY <1>2, <2>7, <3>1 DEF RefreshRevoke, AuthInv, AuthTypeOK, Pair
    <3>3. act' = [act EXCEPT ![p] = [pc |-> "issue", user |-> pairs[n].user, from |-> {n}]]
      BY <2>7 DEF RefreshRevoke, Proceed
    <3>4. out' = out /\ used' = used
      BY <2>7 DEF RefreshRevoke
    <3> QED BY <1>2, <2>3, <3>1, <3>2, <3>3, <3>4 DEF WorkingFor, AuthInv, AuthTypeOK
  <2>8. ASSUME NEW p \in AuthProcs,
               \/ GuardVerify(p) \/ GuardPass(p) \/ GuardRefuse(p)
               \/ RevokeOne(p) \/ BlockAccess(p) \/ StopAct(p)
        PROVE  DieInv'
    <3>1. /\ DOMAIN pairs' = DOMAIN pairs /\ out' = out /\ used' = used
          /\ \E r : act' = [act EXCEPT ![p] = r] /\ r.pc \notin {"issue", "checkUser", "revoke"}
      BY <2>8
      DEF GuardVerify, GuardPass, GuardRefuse, RevokeOne, RevokeRows, BlockAccess,
          StopAct, Rest, Proceed, Resting
    <3> QED BY <1>2, <2>3, <3>1 DEF WorkingFor, AuthInv, AuthTypeOK
  <2>9. ASSUME NEW p \in AuthProcs, RevokeAll(p)
        PROVE  DieInv'
    <3> DEFINE u == pairs[act[p].access].user
    <3>1. /\ DOMAIN pairs' = DOMAIN pairs /\ used' = used
          /\ act' = [act EXCEPT ![p] = [pc |-> "block", access |-> act[p].access]]
          /\ \A n \in DOMAIN pairs : pairs[n].user = u => pairs'[n].row # "live"
      BY <1>2, <2>9 DEF RevokeAll, RevokeRows, Live, Proceed, AuthInv, AuthTypeOK, Pair
    <3>2. \/ out' = out
          \/ /\ out' = out \cup {u}
             /\ \A q \in AuthProcs \ {p} : ~WorkingFor(q, u)
      BY <2>9 DEF RevokeAll
    <3>3. \A q \in AuthProcs : act'[q] = act[q] \/ (act'[q].pc = "block" /\ q = p)
      BY <1>2, <3>1 DEF AuthInv, AuthTypeOK
    <3>4. \A n \in used' : ~Live(n)'
      BY <1>2, <2>1, <3>1 DEF Live, AuthInv, AuthTypeOK
    <3>5. \A v \in out' : \A n \in DOMAIN pairs' : pairs'[n].user = v => ~Live(n)'
      BY <1>2, <2>1, <3>1, <3>2 DEF Live
    <3>6. \A q \in AuthProcs : act'[q].pc = "issue" => \A n \in act'[q].from : ~Live(n)'
      BY SMTT(60), <1>2, <2>1, <3>3 DEF Live, AuthInv, Holding
    <3>7. \A v \in out' : \A q \in AuthProcs : ~WorkingFor(q, v)'
      BY <1>2, <2>1, <2>9, <3>1, <3>2, <3>3 DEF WorkingFor, AuthInv, AuthTypeOK, Holding, RevokeAll
    <3> QED BY <3>4, <3>5, <3>6, <3>7
  <2>10. CASE Purge \/ ClockTick \/ (\E u \in Members : DeactivateMember(u)) \/ UNCHANGED authVars
    <3>1. DOMAIN pairs' = DOMAIN pairs /\ UNCHANGED <<used, out, act>>
      BY <2>10 DEF Purge, ClockTick, DeactivateMember, authVars
    <3> QED BY <2>3, <3>1
  <2> QED
    BY <1>2, <2>2, <2>4, <2>5, <2>6, <2>7, <2>8, <2>9, <2>10 DEF AuthNext
<1>3. DieInv => RefreshTokensDie
  BY DEF DieInv
<1> QED BY <1>1, <1>2, <1>3, AuthTypeCorrect, PTL DEF AuthSpec

(* The purge never ends a session that can still be refreshed, and a        *)
(* refresh or a logout ends only those it names.                            *)
THEOREM PurgeSparesSessions == AuthSpec => SessionsEndByRequest
<1> DEFINE Ended(n) ==
      Live(n) /\ clock < pairs[n].expires /\ pairs'[n].row # "live"
        => \E p \in AuthProcs :
             \/ act[p].pc \in {"revoke", "revokeOne"} /\ act[p].pair = n
             \/ /\ act[p].pc = "revokeAll"
                /\ pairs[act[p].access].user = pairs[n].user
<1>1. ASSUME AuthInv, [AuthNext]_authVars, NEW n \in DOMAIN pairs
      PROVE  Ended(n)
  <2> USE DEF Live
  <2>1. ASSUME NEW p \in AuthProcs, IssuePair(p)
        PROVE  pairs'[n] = pairs[n]
    BY <1>1, <2>1, NextPair
  <2>2. ASSUME NEW p \in AuthProcs, RefreshRevoke(p)
        PROVE  Ended(n)
    BY <1>1, <2>2 DEF RefreshRevoke, AuthInv, AuthTypeOK
  <2>3. ASSUME NEW p \in AuthProcs, RevokeOne(p) \/ RevokeAll(p)
        PROVE  Ended(n)
    BY <1>1, <2>3 DEF RevokeOne, RevokeAll, RevokeRows, AuthInv, AuthTypeOK
  <2>4. CASE Purge
    <3>1. clock \in Nat /\ pairs[n].expires \in Nat /\ Retention \in Nat
      BY <1>1, AuthAssumption DEF AuthInv, AuthTypeOK, Pair
    <3> QED BY <1>1, <2>4, <3>1 DEF Purge, Purgeable
  <2>5. CASE UNCHANGED pairs
    BY <2>5
  <2> QED
    BY <1>1, <2>1, <2>2, <2>3, <2>4, <2>5
    DEF AuthNext, authVars, SignIn, RefreshFind, RefreshUser, GuardVerify, GuardPass,
        GuardRefuse, BlockAccess, StopAct, DeactivateMember, ClockTick
<1>2. AuthInv /\ [AuthNext]_authVars => [\A n \in DOMAIN pairs : Ended(n)]_pairs
  BY <1>1
<1> QED BY <1>2, AuthTypeCorrect, PTL DEF AuthSpec, SessionsEndByRequest

=============================================================================
