----------------------------- MODULE AuthSessions -----------------------------
(***************************************************************************)
(* What follows a sign-in: issueSessionTokens, refresh and logout of       *)
(* AuthService over the user_sessions table, the blocklist of access       *)
(* tokens, AuthGuard, and the purge of UserSessionCleanupService.          *)
(*                                                                         *)
(* A pair is an access token and a refresh token issued together, with the *)
(* row that stores the refresh token.  Time counts parts of a second: a    *)
(* token's iat and exp are whole seconds, rows and blocklist keys keep     *)
(* parts.  Pair ids are never reused, so a purged row keeps its place with *)
(* the state "purged".                                                     *)
(***************************************************************************)
EXTENDS Naturals, FiniteSets

CONSTANTS
  MaxPairs,        \* bound on the pairs issued
  Members,         \* users
  SecondLength,    \* parts of a second the clock tells apart
  AccessTtl,       \* jwt.accessExpiresInSeconds
  RefreshTtl,      \* jwt.refreshExpiresInSeconds, in parts
  Retention,       \* auth.sessionRetentionDays, in parts
  MaxClock,        \* bound on the clock
  AuthProcs,       \* bound on concurrent requests
  AuthCrashes      \* whether a request may stop between two calls

ASSUME AuthAssumption ==
  /\ {SecondLength, AccessTtl, RefreshTtl} \subseteq Nat \ {0}
  /\ {Retention, MaxClock, MaxPairs} \subseteq Nat
  /\ AuthCrashes \in BOOLEAN

PairIds == 1..MaxPairs

VARIABLES
  clock,
  pairs,      \* id -> the pair and its row, for those issued
  blocked,    \* access tokens in the blocklist -> when their key expires
  used,       \* refresh tokens that another pair was issued for
  loggedOut,  \* access tokens whose logout was answered
  out,        \* users logged out everywhere who have not signed in since
  inactive,   \* users an operator has deactivated
  act         \* p -> what request p does and what it has read

authVars ==
  <<clock, pairs, blocked, used, loggedOut, out, inactive, act>>

Pair == [user : Members, exp : Nat, expires : Nat,
         row : {"live", "revoked", "purged"}]

Resting == [pc |-> "idle"]

Act ==
  [pc : {"idle"}]
  \cup [pc : {"issue"}, user : Members, from : SUBSET PairIds]
  \cup [pc : {"checkUser", "revoke"}, pair : PairIds]
  \cup [pc : {"revokeOne", "revokeAll"}, pair : PairIds, access : PairIds]
  \cup [pc : {"block", "blocklist"}, access : PairIds]

AuthTypeOK ==
  /\ clock \in 0..MaxClock
  /\ DOMAIN pairs \subseteq PairIds
  /\ pairs \in [DOMAIN pairs -> Pair]
  /\ DOMAIN blocked \subseteq DOMAIN pairs
  /\ blocked \in [DOMAIN blocked -> Nat]
  /\ used \subseteq DOMAIN pairs
  /\ loggedOut \subseteq DOMAIN pairs
  /\ out \subseteq Members
  /\ inactive \subseteq Members
  /\ act \in [AuthProcs -> Act]

AuthInit ==
  /\ clock = 0
  /\ pairs = [n \in {} |-> {}]
  /\ blocked = [n \in {} |-> 0]
  /\ used = {} /\ loggedOut = {} /\ out = {} /\ inactive = {}
  /\ act = [p \in AuthProcs |-> Resting]

Proceed(p, r) == act' = [act EXCEPT ![p] = r]
Rest(p)       == Proceed(p, Resting)

Live(n) == pairs[n].row = "live"

(* jwt.verify: the current second has reached exp.                          *)
Expired(n) == clock \div SecondLength >= pairs[n].exp

(* isAccessTokenBlocked: the key exists.                                    *)
Blocked(n) == n \in DOMAIN blocked /\ clock < blocked[n]

WorkingFor(p, u) ==
  \/ act[p].pc = "issue" /\ act[p].user = u
  \/ act[p].pc \in {"checkUser", "revoke"} /\ pairs[act[p].pair].user = u

-----------------------------------------------------------------------------
(* A sign-in that got as far as its tokens.  verifyOtp has looked at        *)
(* is_active on the way, socialLogin never does.                            *)
SignIn(p) ==
  /\ act[p] = Resting
  /\ \E u \in Members :
       /\ out' = out \ {u}
       /\ Proceed(p, [pc |-> "issue", user |-> u, from |-> {}])
  /\ UNCHANGED <<clock, pairs, blocked, used, loggedOut, inactive>>

(* issueTokenPair and the insert of its row.                                *)
IssuePair(p) ==
  LET r == act[p]
      n == Cardinality(DOMAIN pairs) + 1
  IN /\ r.pc = "issue"
     /\ n <= MaxPairs
     /\ pairs' = [x \in 1..n |->
          IF x # n THEN pairs[x]
          ELSE [user |-> r.user, row |-> "live",
                exp |-> clock \div SecondLength + AccessTtl,
                expires |-> clock + RefreshTtl]]
     /\ used' = used \cup r.from
     /\ Rest(p)
     /\ UNCHANGED <<clock, blocked, loggedOut, out, inactive>>

(* Mutant of the next definition: a revoked row is good enough.             *)
RefreshFindAny(p) ==
  /\ act[p] = Resting
  /\ \E n \in DOMAIN pairs :
       /\ pairs[n].row # "purged" /\ clock < pairs[n].expires
       /\ Proceed(p, [pc |-> "checkUser", pair |-> n])
  /\ UNCHANGED <<clock, pairs, blocked, used, loggedOut, out, inactive>>

(* refresh: the row must be there, not revoked and not expired; its user    *)
(* must be active.                                                          *)
RefreshFind(p) ==
  /\ act[p] = Resting
  /\ \E n \in DOMAIN pairs :
       /\ Live(n) /\ clock < pairs[n].expires
       /\ Proceed(p, [pc |-> "checkUser", pair |-> n])
  /\ UNCHANGED <<clock, pairs, blocked, used, loggedOut, out, inactive>>

RefreshUser(p) ==
  /\ act[p].pc = "checkUser"
  /\ IF pairs[act[p].pair].user \in inactive
     THEN Rest(p)
     ELSE Proceed(p, [pc |-> "revoke", pair |-> act[p].pair])
  /\ UNCHANGED <<clock, pairs, blocked, used, loggedOut, out, inactive>>

(* revoke is by id and does not look at the row again.                      *)
RefreshRevoke(p) ==
  LET n == act[p].pair
  IN /\ act[p].pc = "revoke"
     /\ pairs' = IF pairs[n].row = "purged" THEN pairs
                 ELSE [pairs EXCEPT ![n].row = "revoked"]
     /\ Proceed(p, [pc |-> "issue", user |-> pairs[n].user, from |-> {n}])
     /\ UNCHANGED <<clock, blocked, used, loggedOut, out, inactive>>

-----------------------------------------------------------------------------
(* AuthGuard verifies the token, then looks it up in the blocklist ...      *)
GuardVerify(p) ==
  /\ act[p] = Resting
  /\ \E a \in DOMAIN pairs : ~Expired(a) /\ Proceed(p, [pc |-> "blocklist", access |-> a])
  /\ UNCHANGED <<clock, pairs, blocked, used, loggedOut, out, inactive>>

(* ... and lets the request through: a logout with the client's refresh     *)
(* token, a logout everywhere, or another request, which ends here.         *)
GuardPass(p) ==
  LET a == act[p].access
  IN /\ act[p].pc = "blocklist"
     /\ ~Blocked(a)
     /\ \/ Rest(p)
        \/ Proceed(p, [pc |-> "revokeAll", pair |-> a, access |-> a])
        \/ \E n \in DOMAIN pairs : Proceed(p, [pc |-> "revokeOne", pair |-> n, access |-> a])
     /\ UNCHANGED <<clock, pairs, blocked, used, loggedOut, out, inactive>>

GuardRefuse(p) ==
  /\ act[p].pc = "blocklist"
  /\ Blocked(act[p].access)
  /\ Rest(p)
  /\ UNCHANGED <<clock, pairs, blocked, used, loggedOut, out, inactive>>

RevokeRows(S) ==
  pairs' = [x \in DOMAIN pairs |->
              IF x \in S /\ Live(x) THEN [pairs[x] EXCEPT !.row = "revoked"]
                                    ELSE pairs[x]]

(* revokeByRefreshToken.                                                    *)
RevokeOne(p) ==
  /\ act[p].pc = "revokeOne"
  /\ RevokeRows({act[p].pair})
  /\ Proceed(p, [pc |-> "block", access |-> act[p].access])
  /\ UNCHANGED <<clock, blocked, used, loggedOut, out, inactive>>

(* revokeAllForUser; "out" records it unless another request of the user    *)
(* has already been let past its checks.                                    *)
RevokeAll(p) ==
  LET u == pairs[act[p].access].user
  IN /\ act[p].pc = "revokeAll"
     /\ RevokeRows({n \in DOMAIN pairs : pairs[n].user = u})
     /\ out' = IF \E q \in AuthProcs \ {p} : WorkingFor(q, u) THEN out
               ELSE out \cup {u}
     /\ Proceed(p, [pc |-> "block", access |-> act[p].access])
     /\ UNCHANGED <<clock, blocked, used, loggedOut, inactive>>

(* Mutant of the next definition: the key lives for whole seconds only.     *)
BlockAccessRounded(p) ==
  LET a == act[p].access
      left == (pairs[a].exp * SecondLength - clock) \div SecondLength
  IN /\ act[p].pc = "block"
     /\ blocked' = IF left = 0 THEN blocked
                   ELSE [x \in DOMAIN blocked \cup {a} |->
                           IF x = a THEN clock + left * SecondLength ELSE blocked[x]]
     /\ loggedOut' = loggedOut \cup {a}
     /\ Rest(p)
     /\ UNCHANGED <<clock, pairs, used, out, inactive>>

(* blockAccessToken: for what is left of the token's life, if anything.     *)
BlockAccess(p) ==
  LET a == act[p].access
      end == pairs[a].exp * SecondLength
  IN /\ act[p].pc = "block"
     /\ blocked' = IF end <= clock THEN blocked
                   ELSE [x \in DOMAIN blocked \cup {a} |->
                           IF x = a THEN end ELSE blocked[x]]
     /\ loggedOut' = loggedOut \cup {a}
     /\ Rest(p)
     /\ UNCHANGED <<clock, pairs, used, out, inactive>>

-----------------------------------------------------------------------------
(* Mutant of the next definition: the cutoff is compared with the row's age.*)
PurgeableByAge(n) ==
  pairs[n].row = "revoked"
    \/ (pairs[n].row = "live"
          /\ pairs[n].expires + Retention < clock + RefreshTtl)

Purgeable(n) ==
  pairs[n].row = "revoked"
    \/ (pairs[n].row = "live" /\ pairs[n].expires + Retention < clock)

(* One DELETE; a purge that fails is logged and comes again with the timer. *)
Purge ==
  /\ \E n \in DOMAIN pairs : Purgeable(n)
  /\ pairs' = [n \in DOMAIN pairs |->
       IF Purgeable(n) THEN [pairs[n] EXCEPT !.row = "purged"] ELSE pairs[n]]
  /\ UNCHANGED <<clock, blocked, used, loggedOut, out, inactive, act>>

DeactivateMember(u) ==
  /\ inactive' = inactive \cup {u}
  /\ u \notin inactive
  /\ UNCHANGED <<clock, pairs, blocked, used, loggedOut, out, act>>

ClockTick ==
  /\ clock < MaxClock
  /\ clock' = clock + 1
  /\ UNCHANGED <<pairs, blocked, used, loggedOut, out, inactive, act>>

StopAct(p) ==
  /\ AuthCrashes
  /\ act[p] # Resting
  /\ Rest(p)
  /\ UNCHANGED <<clock, pairs, blocked, used, loggedOut, out, inactive>>

AuthNext ==
  \/ \E p \in AuthProcs :
       \/ SignIn(p) \/ IssuePair(p)
       \/ RefreshFind(p) \/ RefreshUser(p) \/ RefreshRevoke(p)
       \/ GuardVerify(p) \/ GuardPass(p) \/ GuardRefuse(p)
       \/ RevokeOne(p) \/ RevokeAll(p) \/ BlockAccess(p) \/ StopAct(p)
  \/ \E u \in Members : DeactivateMember(u)
  \/ Purge \/ ClockTick

AuthSpec == AuthInit /\ [][AuthNext]_authVars

-----------------------------------------------------------------------------
(* Refresh tokens die for good.  One that a new pair was issued for is      *)
(* dead, wherever the request stopped and however many presented it at      *)
(* once; and after a logout everywhere that met no refresh or sign-in half  *)
(* way nothing a client still holds revives a session of the user until the *)
(* next sign-in.                                                            *)
RefreshTokensDie ==
  /\ \A n \in used : ~Live(n)
  /\ \A u \in out : \A n \in DOMAIN pairs : pairs[n].user = u => ~Live(n)

(* An access token whose logout was answered is not let through again while *)
(* jwt.verify would still take it: the blocklist key does not expire before *)
(* the token, although one counts milliseconds and the other seconds.       *)
LoggedOutIsBlocked == \A a \in loggedOut : Expired(a) \/ Blocked(a)

(* A session that can still be refreshed only ends by a refresh or a logout *)
(* that names it or its user, never by the purge.                           *)
SessionsEndByRequest ==
  [][\A n \in DOMAIN pairs :
       Live(n) /\ clock < pairs[n].expires /\ pairs'[n].row # "live"
         => \E p \in AuthProcs :
              \/ act[p].pc \in {"revoke", "revokeOne"} /\ act[p].pair = n
              \/ /\ act[p].pc = "revokeAll"
                 /\ pairs[act[p].access].user = pairs[n].user]_pairs
=============================================================================
