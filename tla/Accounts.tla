------------------------------- MODULE Accounts -------------------------------
(***************************************************************************)
(* Who a sign-in belongs to: the part of verifyOtp after a code was        *)
(* accepted, socialLogin, and the profile update that may change the       *)
(* contacts of an account, over the users and user_identities tables.      *)
(* Each request runs one query per step.                                   *)
(*                                                                         *)
(* A row keeps the contact columns, the two verification marks and         *)
(* is_active; no code deletes a user.  The customers and user_roles rows   *)
(* are inserted in the user's transaction and decide nothing, so they are  *)
(* left out; so are names and avatars.  Tokens are in AuthSessions.        *)
(***************************************************************************)
EXTENDS FiniteSets

CONSTANTS
  UserIds,
  Emails, Phones,    \* what the two contact columns may hold
  Typed,             \* those a sign-in may look up: normalised contacts
  None,              \* a column that IS NULL
  Identities,        \* (provider, provider_id) pairs
  EmailOf,           \* identity -> the address the provider asserts, or None
  VerifiedIds,       \* the identities whose address the provider verified
  Synthetic,         \* identity -> the address made up for one without
  AccountProcs,      \* bound on concurrent requests
  AccountCrashes     \* whether a request may stop between two calls

ASSUME AccountsAssumption ==
  /\ None \notin UserIds \cup Emails \cup Phones
  /\ Emails \cap Phones = {}
  /\ Typed \subseteq Emails \cup Phones
  /\ EmailOf \in [Identities -> (Typed \cap Emails) \cup {None}]
  /\ Synthetic \in [Identities -> Emails]
  /\ VerifiedIds \subseteq Identities
  /\ AccountCrashes \in BOOLEAN

VARIABLES
  users,       \* id -> row, for the ids inserted so far
  identities,  \* identity -> the user it is linked to, for those linked
  signedIn,    \* identity -> the users it has signed in to
  refused,     \* contacts whose accepted code was answered with a conflict
  moved,       \* whether a profile update or an operator changed an account
  login        \* p -> what request p does and what it has read

accountVars == <<users, identities, signedIn, refused, moved, login>>

UserRow ==
  [email : Emails \cup {None}, phone : Phones \cup {None},
   emailVerified : BOOLEAN, phoneVerified : BOOLEAN, active : BOOLEAN]

Columns == {"email", "phone", "emailVerified", "phoneVerified", "active"}

Away == [pc |-> "idle"]

Login ==
  [pc : {"idle"}]
  \cup [pc : {"find", "insert", "raced"}, contact : Typed]
  \cup [pc : {"mark"}, contact : Typed, user : UserIds]
  \cup [pc : {"byIdentity", "byEmail", "create", "racedSocial"},
        identity : Identities]
  \cup [pc : {"lookLink", "link", "enter"}, identity : Identities,
        user : UserIds]
  \cup [pc : {"diff"}, user : UserIds, row : UserRow]
  \cup [pc : {"update"}, user : UserIds, row : UserRow, dirty : SUBSET Columns]

AccountsTypeOK ==
  /\ DOMAIN users \subseteq UserIds
  /\ users \in [DOMAIN users -> UserRow]
  /\ DOMAIN identities \subseteq Identities
  /\ identities \in [DOMAIN identities -> DOMAIN users]
  /\ signedIn \in [Identities -> SUBSET DOMAIN users]
  /\ refused \subseteq Typed
  /\ moved \in BOOLEAN
  /\ login \in [AccountProcs -> Login]

AccountsInit ==
  /\ users = [u \in {} |-> {}]
  /\ identities = [i \in {} |-> {}]
  /\ signedIn = [i \in Identities |-> {}]
  /\ refused = {}
  /\ moved = FALSE
  /\ login = [p \in AccountProcs |-> Away]

Resume(p, r) == login' = [login EXCEPT ![p] = r]
Leave(p)     == Resume(p, Away)

ghostVars == <<signedIn, refused, moved>>

(* findByEmail and findByPhone.                                             *)
HoldersOf(c) == {u \in DOMAIN users : c \in {users[u].email, users[u].phone}}

(* Mutant of the next definition: only the phone column has its index.      *)
PhoneConflict(row, u) ==
  \E x \in DOMAIN users \ {u} : row.phone # None /\ users[x].phone = row.phone

(* idx_users_email and idx_users_phone refuse the row for user u.           *)
ContactConflict(row, u) ==
  \E x \in DOMAIN users \ {u} :
    \/ row.email # None /\ users[x].email = row.email
    \/ row.phone # None /\ users[x].phone = row.phone

(* The contact columns of a row inserted for c.                             *)
NewRow(c, verified) ==
  [email         |-> IF c \in Emails THEN c ELSE None,
   phone         |-> IF c \in Emails THEN None ELSE c,
   emailVerified |-> verified /\ c \in Emails,
   phoneVerified |-> verified /\ c \notin Emails,
   active        |-> TRUE]

(* createCustomerUser: one transaction.                                     *)
InsertUser(u, row) ==
  users' = [x \in DOMAIN users \cup {u} |-> IF x = u THEN row ELSE users[x]]

-----------------------------------------------------------------------------
(* A code for c was accepted; the request looks the contact up again.       *)
CodeAccepted(p) ==
  /\ login[p] = Away
  /\ \E c \in Typed : Resume(p, [pc |-> "find", contact |-> c])
  /\ UNCHANGED <<users, identities, ghostVars>>

(* An inactive account is refused; a new contact needs a display name,      *)
(* without which the request ends, its code used up.                        *)
FindContact(p) ==
  LET c == login[p].contact
  IN /\ login[p].pc = "find"
     /\ \/ \E u \in HoldersOf(c) :
             IF users[u].active
             THEN Resume(p, [pc |-> "mark", contact |-> c, user |-> u])
             ELSE Leave(p)
        \/ HoldersOf(c) = {} /\ (Resume(p, [pc |-> "insert", contact |-> c])
                                   \/ Leave(p))
     /\ UNCHANGED <<users, identities, ghostVars>>

InsertContact(p) ==
  LET c == login[p].contact
      row == NewRow(c, TRUE)
  IN /\ login[p].pc = "insert"
     /\ IF ContactConflict(row, None)
        THEN Resume(p, [pc |-> "raced", contact |-> c]) /\ UNCHANGED users
        ELSE \E u \in UserIds \ DOMAIN users : InsertUser(u, row) /\ Leave(p)
     /\ UNCHANGED <<identities, ghostVars>>

(* Mutant of the next definition: a lost race is an error.                  *)
FindRacedRefuses(p) ==
  LET c == login[p].contact
  IN /\ login[p].pc = "raced"
     /\ refused' = refused \cup {c}
     /\ Leave(p)
     /\ UNCHANGED <<users, identities, signedIn, moved>>

(* The insert lost a race: go on with the account that won it.              *)
FindRaced(p) ==
  LET c == login[p].contact
      winners == {u \in HoldersOf(c) : users[u].active}
  IN /\ login[p].pc = "raced"
     /\ IF winners = {}
        THEN refused' = refused \cup {c} /\ Leave(p)
        ELSE /\ \E u \in winners :
                  Resume(p, [pc |-> "mark", contact |-> c, user |-> u])
             /\ UNCHANGED refused
     /\ UNCHANGED <<users, identities, signedIn, moved>>

(* markEmailVerified, markPhoneVerified: by id, whatever the row holds now. *)
MarkVerified(p) ==
  LET u == login[p].user
  IN /\ login[p].pc = "mark"
     /\ users' = IF login[p].contact \in Emails
                 THEN [users EXCEPT ![u].emailVerified = TRUE]
                 ELSE [users EXCEPT ![u].phoneVerified = TRUE]
     /\ Leave(p)
     /\ UNCHANGED <<identities, ghostVars>>

-----------------------------------------------------------------------------
(* socialLogin with a token the provider's verifier accepted.               *)
SocialArrives(p) ==
  /\ login[p] = Away
  /\ \E i \in Identities : Resume(p, [pc |-> "byIdentity", identity |-> i])
  /\ UNCHANGED <<users, identities, ghostVars>>

EnterAs(p, i, u) == Resume(p, [pc |-> "enter", identity |-> i, user |-> u])
LinkTo(p, i, u)  == Resume(p, [pc |-> "lookLink", identity |-> i, user |-> u])

FindIdentity(p) ==
  LET i == login[p].identity
  IN /\ login[p].pc = "byIdentity"
     /\ IF i \in DOMAIN identities
        THEN EnterAs(p, i, identities[i])
        ELSE Resume(p, [pc |-> IF EmailOf[i] = None THEN "create" ELSE "byEmail",
                        identity |-> i])
     /\ UNCHANGED <<users, identities, ghostVars>>

(* An existing account is only linked to a verified address.                *)
FindByEmail(p) ==
  LET i == login[p].identity
      found == HoldersOf(EmailOf[i])
  IN /\ login[p].pc = "byEmail"
     /\ \/ found = {} /\ Resume(p, [pc |-> "create", identity |-> i])
        \/ \E u \in found : IF i \in VerifiedIds THEN LinkTo(p, i, u) ELSE Leave(p)
     /\ UNCHANGED <<users, identities, ghostVars>>

AddressOf(i) == IF EmailOf[i] = None THEN Synthetic[i] ELSE EmailOf[i]

CreateSocial(p) ==
  LET i == login[p].identity
      row == NewRow(AddressOf(i), i \in VerifiedIds /\ EmailOf[i] # None)
  IN /\ login[p].pc = "create"
     /\ IF ContactConflict(row, None)
        THEN Resume(p, [pc |-> "racedSocial", identity |-> i]) /\ UNCHANGED users
        ELSE \E u \in UserIds \ DOMAIN users :
               InsertUser(u, row) /\ LinkTo(p, i, u)
     /\ UNCHANGED <<identities, ghostVars>>

FindRacedSocial(p) ==
  LET i == login[p].identity
      found == HoldersOf(AddressOf(i))
  IN /\ login[p].pc = "racedSocial"
     /\ \/ found = {} /\ Leave(p)
        \/ \E u \in found : IF i \in VerifiedIds THEN LinkTo(p, i, u) ELSE Leave(p)
     /\ UNCHANGED <<users, identities, ghostVars>>

(* linkIdentity looks for the link ...                                      *)
LookLink(p) ==
  LET i == login[p].identity
      u == login[p].user
  IN /\ login[p].pc = "lookLink"
     /\ IF i \in DOMAIN identities
        THEN EnterAs(p, i, u)
        ELSE Resume(p, [pc |-> "link", identity |-> i, user |-> u])
     /\ UNCHANGED <<users, identities, ghostVars>>

(* ... and inserts it; the unique index ends the request of the loser.      *)
InsertLink(p) ==
  LET i == login[p].identity
      u == login[p].user
  IN /\ login[p].pc = "link"
     /\ IF i \in DOMAIN identities
        THEN Leave(p) /\ UNCHANGED identities
        ELSE /\ identities' = [x \in DOMAIN identities \cup {i} |->
                                 IF x = i THEN u ELSE identities[x]]
             /\ EnterAs(p, i, u)
     /\ UNCHANGED <<users, ghostVars>>

(* issueSessionTokens for the account this request decided on.              *)
Enter(p) ==
  LET i == login[p].identity
  IN /\ login[p].pc = "enter"
     /\ signedIn' = [signedIn EXCEPT ![i] = @ \cup {login[p].user}]
     /\ Leave(p)
     /\ UNCHANGED <<users, identities, refused, moved>>

-----------------------------------------------------------------------------
(* updateProfile reads the row and sets the contacts it was given, as they  *)
(* were typed.                                                              *)
PatchRead(p) ==
  /\ login[p] = Away
  /\ \E u \in DOMAIN users :
     \E e \in Emails \cup {users[u].email}, t \in Phones \cup {users[u].phone} :
       Resume(p, [pc |-> "diff", user |-> u,
                  row |-> [users[u] EXCEPT !.email = e, !.phone = t]])
  /\ UNCHANGED <<users, identities, ghostVars>>

(* save() reads the row again for the columns that differ ...               *)
PatchDiff(p) ==
  LET u == login[p].user
      row == login[p].row
  IN /\ login[p].pc = "diff"
     /\ Resume(p, [pc |-> "update", user |-> u, row |-> row,
                   dirty |-> {c \in Columns : row[c] # users[u][c]}])
     /\ UNCHANGED <<users, identities, ghostVars>>

(* ... and writes those, or a taken contact is answered with a conflict.    *)
PatchUpdate(p) ==
  LET u == login[p].user
      new == [c \in Columns |-> IF c \in login[p].dirty THEN login[p].row[c]
                                                        ELSE users[u][c]]
  IN /\ login[p].pc = "update"
     /\ IF ContactConflict(new, u)
        THEN UNCHANGED <<users, moved>>
        ELSE /\ users' = [users EXCEPT ![u] = new]
             /\ moved' = (moved \/ new # users[u])
     /\ Leave(p)
     /\ UNCHANGED <<identities, signedIn, refused>>

(* Nothing in the code deactivates an account: an operator does.            *)
Deactivate(u) ==
  /\ u \in DOMAIN users
  /\ users[u].active
  /\ users' = [users EXCEPT ![u].active = FALSE]
  /\ moved' = TRUE
  /\ UNCHANGED <<identities, signedIn, refused, login>>

StopLogin(p) ==
  /\ AccountCrashes
  /\ login[p] # Away
  /\ Leave(p)
  /\ UNCHANGED <<users, identities, ghostVars>>

LoginStep(p) ==
  \/ FindContact(p) \/ InsertContact(p) \/ FindRaced(p) \/ MarkVerified(p)
  \/ FindIdentity(p) \/ FindByEmail(p) \/ CreateSocial(p)
  \/ FindRacedSocial(p) \/ LookLink(p) \/ InsertLink(p) \/ Enter(p)
  \/ PatchDiff(p) \/ PatchUpdate(p)

AccountsNext ==
  \/ \E p \in AccountProcs :
       \/ CodeAccepted(p) \/ SocialArrives(p) \/ PatchRead(p)
       \/ LoginStep(p) \/ StopLogin(p)
  \/ \E u \in UserIds : Deactivate(u)

AccountsSpec == AccountsInit /\ [][AccountsNext]_accountVars

-----------------------------------------------------------------------------
(* Sign-ins, by code and by provider, and profile updates that race for a   *)
(* contact end in one account: no two accounts hold it, and the first       *)
(* sign-in that loses goes on with the winner's account.  Nobody with an    *)
(* accepted code is refused unless the account was changed in between.      *)
OneAccountPerContact ==
  /\ \A u, v \in DOMAIN users :
       u # v => /\ users[u].email = users[v].email => users[u].email = None
                /\ users[u].phone = users[v].phone => users[u].phone = None
  /\ refused # {} => moved

(* An identity leads to one account: as long as no account was changed, all *)
(* its sign-ins end in the account it is linked to, even when several first *)
(* sign-ins race or one stops before it has linked the account it made.     *)
IdentityLeadsToOneAccount ==
  ~moved => \A i \in Identities : \A u \in signedIn[i] :
              i \in DOMAIN identities /\ u = identities[i]
=============================================================================
