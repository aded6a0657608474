---------------------------- MODULE AccountsProofs ----------------------------
(***************************************************************************)
(* That contacts and identities lead to one account, for every number of   *)
(* accounts, contacts, identities and concurrent requests.                 *)
(***************************************************************************)
EXTENDS Accounts, TLAPS

(* What a request may hold is given by its program counter.                 *)
LEMMA LoginKinds ==
  ASSUME NEW r \in Login
  PROVE  /\ r.pc \in {"find", "insert", "raced"} => r.contact \in Typed
         /\ r.pc = "mark" => r.contact \in Typed /\ r.user \in UserIds
         /\ r.pc \in {"byIdentity", "byEmail", "create", "racedSocial"}
              => r.identity \in Identities
         /\ r.pc \in {"lookLink", "link", "enter"}
              => r.identity \in Identities /\ r.user \in UserIds
         /\ r.pc \in {"diff", "update"} => r.user \in UserIds /\ r.row \in UserRow
         /\ r.pc = "update" => r.dirty \in SUBSET Columns
  BY DEF Login

(* A request works on rows that exist: no code deletes a user.              *)
Existing ==
  \A p \in AccountProcs :
    login[p].pc \in {"mark", "lookLink", "link", "enter", "diff", "update"}
      => login[p].user \in DOMAIN users

AccountsInv == AccountsTypeOK /\ Existing

(* No two rows share a contact.                                             *)
ContactsUnique ==
  \A u, v \in DOMAIN users :
    u # v => /\ users[u].email = users[v].email => users[u].email = None
             /\ users[u].phone = users[v].phone => users[u].phone = None

(* As long as no account was changed, the loser of a race finds the winner, *)
(* and an identity and every request that is about to link it or to sign it *)
(* in have the account with its address.  Only identities that have an      *)
(* address are looked up by it.                                             *)
Undisturbed ==
  ~moved =>
    /\ \A u \in DOMAIN users : users[u].active
    /\ \A p \in AccountProcs :
         login[p].pc = "byEmail" => EmailOf[login[p].identity] # None
    /\ \A p \in AccountProcs :
         login[p].pc = "raced" => HoldersOf(login[p].contact) # {}
    /\ \A i \in DOMAIN identities : users[identities[i]].email = AddressOf(i)
    /\ \A p \in AccountProcs :
         login[p].pc \in {"lookLink", "link"}
           => users[login[p].user].email = AddressOf(login[p].identity)
    /\ \A p \in AccountProcs :
         login[p].pc = "enter"
           => /\ login[p].identity \in DOMAIN identities
              /\ login[p].user = identities[login[p].identity]

(* The address of an identity is an e-mail address.                         *)
LEMMA Addresses ==
  ASSUME NEW i \in Identities
  PROVE  /\ AddressOf(i) \in Emails /\ AddressOf(i) # None
         /\ AddressOf(i) \notin Phones
         /\ EmailOf[i] # None => EmailOf[i] = AddressOf(i)
  BY AccountsAssumption DEF AddressOf

(* The holder of an address has it as its e-mail.                           *)
LEMMA HoldersByEmail ==
  ASSUME AccountsInv, NEW i \in Identities, NEW u \in HoldersOf(AddressOf(i))
  PROVE  u \in DOMAIN users /\ users[u].email = AddressOf(i)
  BY Addresses DEF HoldersOf, AccountsInv, AccountsTypeOK, UserRow

-----------------------------------------------------------------------------
(* Every operation keeps the tables and the requests well-formed.           *)
LEMMA TypeRequest ==
  ASSUME AccountsInv, NEW p \in AccountProcs, NEW r \in Login,
         login' = [login EXCEPT ![p] = r], DOMAIN users \subseteq DOMAIN users',
         r.pc \in {"mark", "lookLink", "link", "enter", "diff", "update"}
           => r.user \in DOMAIN users'
  PROVE  login' \in [AccountProcs -> Login] /\ Existing'
  BY DEF AccountsInv, AccountsTypeOK, Existing

(* The row of a new account is well-formed.                                 *)
LEMMA NewRowType ==
  ASSUME NEW c \in Emails \cup Phones, NEW v \in BOOLEAN
  PROVE  NewRow(c, v) \in UserRow
  BY DEF NewRow, UserRow

(* An insert adds one row and leaves the others as they are.                *)
LEMMA TypeInsert ==
  ASSUME AccountsInv, NEW u \in UserIds \ DOMAIN users, NEW row \in UserRow,
         InsertUser(u, row)
  PROVE  /\ DOMAIN users' = DOMAIN users \cup {u}
         /\ users' \in [DOMAIN users' -> UserRow] /\ DOMAIN users' \subseteq UserIds
         /\ \A x \in DOMAIN users : users'[x] = users[x]
         /\ users'[u] = row
  BY DEF AccountsInv, AccountsTypeOK, InsertUser

(* The steps of a sign-in by code.                                          *)
LEMMA TypeByCode ==
  ASSUME AccountsInv, NEW p \in AccountProcs,
         CodeAccepted(p) \/ FindContact(p) \/ InsertContact(p) \/ FindRaced(p)
           \/ MarkVerified(p)
  PROVE  AccountsInv'
<1>0. Away \in Login /\ Away.pc = "idle"
  BY DEF Away, Login
<1>1. CASE CodeAccepted(p)
  <2>1. PICK c \in Typed : login' = [login EXCEPT ![p] = [pc |-> "find", contact |-> c]]
    BY <1>1 DEF CodeAccepted, Resume
  <2>2. [pc |-> "find", contact |-> c] \in Login
    BY DEF Login
  <2>3. UNCHANGED <<users, identities, ghostVars>>
    BY <1>1 DEF CodeAccepted
  <2> QED BY <2>1, <2>2, <2>3, TypeRequest DEF AccountsInv, AccountsTypeOK, ghostVars
<1>2. CASE FindContact(p)
  <2> DEFINE c == login[p].contact
  <2>1. c \in Typed /\ UNCHANGED <<users, identities, ghostVars>>
    BY <1>2, LoginKinds DEF FindContact, AccountsInv, AccountsTypeOK
  <2>2. HoldersOf(c) \subseteq DOMAIN users /\ DOMAIN users \subseteq UserIds
    BY DEF HoldersOf, AccountsInv, AccountsTypeOK
  <2>3. \/ login' = [login EXCEPT ![p] = Away]
        \/ login' = [login EXCEPT ![p] = [pc |-> "insert", contact |-> c]]
        \/ \E u \in HoldersOf(c) :
             login' = [login EXCEPT ![p] = [pc |-> "mark", contact |-> c, user |-> u]]
    BY <1>2 DEF FindContact, Leave, Resume
  <2>4. /\ [pc |-> "insert", contact |-> c] \in Login
        /\ \A u \in HoldersOf(c) : [pc |-> "mark", contact |-> c, user |-> u] \in Login
    BY <2>1, <2>2 DEF Login
  <2>5. login' \in [AccountProcs -> Login] /\ Existing'
    BY <1>0, <2>1, <2>2, <2>3, <2>4, TypeRequest
  <2> QED BY <2>1, <2>5 DEF AccountsInv, AccountsTypeOK, ghostVars
<1>3. CASE InsertContact(p)
  <2> DEFINE c == login[p].contact
             row == NewRow(c, TRUE)
  <2>1. c \in Typed /\ UNCHANGED <<identities, ghostVars>>
    BY <1>3, LoginKinds DEF InsertContact, AccountsInv, AccountsTypeOK
  <2>2. row \in UserRow
    BY <2>1, AccountsAssumption, NewRowType
  <2>3. [pc |-> "raced", contact |-> c] \in Login
    BY <2>1 DEF Login
  <2>4. CASE UNCHANGED users /\ login' = [login EXCEPT ![p] = [pc |-> "raced", contact |-> c]]
    <3>1. login' \in [AccountProcs -> Login] /\ Existing'
      BY <2>3, <2>4, TypeRequest
    <3> QED BY <2>1, <2>4, <3>1 DEF AccountsInv, AccountsTypeOK, ghostVars
  <2>5. ASSUME NEW u \in UserIds \ DOMAIN users, InsertUser(u, row),
               login' = [login EXCEPT ![p] = Away]
        PROVE  AccountsInv'
    <3>1. /\ DOMAIN users' = DOMAIN users \cup {u} /\ DOMAIN users' \subseteq UserIds
          /\ users' \in [DOMAIN users' -> UserRow]
      BY <2>2, <2>5, TypeInsert
    <3>2. login' \in [AccountProcs -> Login] /\ Existing'
      BY <1>0, <2>5, <3>1, TypeRequest
    <3> QED BY <2>1, <3>1, <3>2 DEF AccountsInv, AccountsTypeOK, ghostVars
  <2> QED BY <1>3, <2>4, <2>5 DEF InsertContact, Resume, Leave
<1>4. CASE FindRaced(p)
  <2> DEFINE c == login[p].contact
  <2>1. c \in Typed /\ UNCHANGED <<users, identities, signedIn, moved>>
    BY <1>4, LoginKinds DEF FindRaced, AccountsInv, AccountsTypeOK
  <2>2. \/ login' = [login EXCEPT ![p] = Away] /\ refused' = refused \cup {c}
        \/ /\ refused' = refused
           /\ \E u \in DOMAIN users :
                login' = [login EXCEPT ![p] = [pc |-> "mark", contact |-> c, user |-> u]]
    BY <1>4 DEF FindRaced, Leave, Resume, HoldersOf
  <2>3. \A u \in DOMAIN users : [pc |-> "mark", contact |-> c, user |-> u] \in Login
    BY <2>1 DEF Login, AccountsInv, AccountsTypeOK
  <2>4. login' \in [AccountProcs -> Login] /\ Existing'
    BY <1>0, <2>1, <2>2, <2>3, TypeRequest
  <2> QED BY <2>1, <2>2, <2>4 DEF AccountsInv, AccountsTypeOK
<1>5. CASE MarkVerified(p)
  <2>1. login[p].user \in DOMAIN users
    BY <1>5 DEF MarkVerified, AccountsInv, Existing
  <2>2. DOMAIN users' = DOMAIN users /\ users' \in [DOMAIN users -> UserRow]
    BY ZenonT(60), <1>5, <2>1 DEF MarkVerified, AccountsInv, AccountsTypeOK, UserRow
  <2>3. login' \in [AccountProcs -> Login] /\ Existing'
    BY <1>0, <1>5, <2>2, TypeRequest DEF MarkVerified, Leave, Resume
  <2> QED BY <1>5, <2>2, <2>3 DEF MarkVerified, AccountsInv, AccountsTypeOK, ghostVars
<1> QED BY <1>1, <1>2, <1>3, <1>4, <1>5

(* The steps of a social login.                                             *)
LEMMA TypeSocial ==
  ASSUME AccountsInv, NEW p \in AccountProcs,
         \/ SocialArrives(p) \/ FindIdentity(p) \/ FindByEmail(p)
         \/ CreateSocial(p) \/ FindRacedSocial(p) \/ LookLink(p)
         \/ InsertLink(p) \/ Enter(p)
  PROVE  AccountsInv'
<1>0. Away \in Login /\ Away.pc = "idle"
  BY DEF Away, Login
<1>1. CASE SocialArrives(p)
  <2>1. PICK i \in Identities :
          login' = [login EXCEPT ![p] = [pc |-> "byIdentity", identity |-> i]]
    BY <1>1 DEF SocialArrives, Resume
  <2>2. [pc |-> "byIdentity", identity |-> i] \in Login
    BY DEF Login
  <2>3. UNCHANGED <<users, identities, ghostVars>>
    BY <1>1 DEF SocialArrives
  <2> QED BY <2>1, <2>2, <2>3, TypeRequest DEF AccountsInv, AccountsTypeOK, ghostVars
<1> DEFINE i == login[p].identity
           Next(l, u) == [pc |-> l, identity |-> i, user |-> u]
<1>a. ASSUME i \in Identities
      PROVE  /\ [pc |-> "create", identity |-> i] \in Login
             /\ [pc |-> "byEmail", identity |-> i] \in Login
             /\ [pc |-> "racedSocial", identity |-> i] \in Login
             /\ \A u \in UserIds, l \in {"lookLink", "link", "enter"} : Next(l, u) \in Login
  BY <1>a DEF Login
<1>2. CASE FindIdentity(p)
  <2>1. i \in Identities /\ UNCHANGED <<users, identities, ghostVars>>
    BY <1>2, LoginKinds DEF FindIdentity, AccountsInv, AccountsTypeOK
  <2>2. \/ /\ i \in DOMAIN identities
           /\ login' = [login EXCEPT ![p] = Next("enter", identities[i])]
        \/ login' = [login EXCEPT ![p] = [pc |-> "create", identity |-> i]]
        \/ login' = [login EXCEPT ![p] = [pc |-> "byEmail", identity |-> i]]
    BY <1>2 DEF FindIdentity, EnterAs, Resume
  <2>3. i \in DOMAIN identities => identities[i] \in DOMAIN users /\ identities[i] \in UserIds
    BY DEF AccountsInv, AccountsTypeOK
  <2>4. login' \in [AccountProcs -> Login] /\ Existing'
    BY <1>a, <2>1, <2>2, <2>3, TypeRequest
  <2> QED BY <2>1, <2>4 DEF AccountsInv, AccountsTypeOK, ghostVars
<1>3. CASE FindByEmail(p) \/ FindRacedSocial(p)
  <2>1. i \in Identities /\ UNCHANGED <<users, identities, ghostVars>>
    BY <1>3, LoginKinds DEF FindByEmail, FindRacedSocial, AccountsInv, AccountsTypeOK
  <2>2. \/ login' = [login EXCEPT ![p] = Away]
        \/ login' = [login EXCEPT ![p] = [pc |-> "create", identity |-> i]]
        \/ \E u \in DOMAIN users : login' = [login EXCEPT ![p] = Next("lookLink", u)]
    BY <1>3 DEF FindByEmail, FindRacedSocial, LinkTo, Leave, Resume, HoldersOf
  <2>3. \A u \in DOMAIN users : u \in UserIds
    BY DEF AccountsInv, AccountsTypeOK
  <2>4. login' \in [AccountProcs -> Login] /\ Existing'
    BY <1>0, <1>a, <2>1, <2>2, <2>3, TypeRequest
  <2> QED BY <2>1, <2>4 DEF AccountsInv, AccountsTypeOK, ghostVars
<1>4. CASE CreateSocial(p)
  <2> DEFINE row == NewRow(AddressOf(i), i \in VerifiedIds /\ EmailOf[i] # None)
  <2>1. i \in Identities /\ UNCHANGED <<identities, ghostVars>>
    BY <1>4, LoginKinds DEF CreateSocial, AccountsInv, AccountsTypeOK
  <2>2. row \in UserRow
    <3>1. (i \in VerifiedIds /\ EmailOf[i] # None) \in BOOLEAN
      OBVIOUS
    <3> QED BY <2>1, <3>1, Addresses, NewRowType
  <2>3. CASE /\ UNCHANGED users
             /\ login' = [login EXCEPT ![p] = [pc |-> "racedSocial", identity |-> i]]
    <3>1. login' \in [AccountProcs -> Login] /\ Existing'
      BY <1>a, <2>1, <2>3, TypeRequest
    <3> QED BY <2>1, <2>3, <3>1 DEF AccountsInv, AccountsTypeOK, ghostVars
  <2>4. ASSUME NEW u \in UserIds \ DOMAIN users, InsertUser(u, row),
               login' = [login EXCEPT ![p] = Next("lookLink", u)]
        PROVE  AccountsInv'
    <3>1. /\ DOMAIN users' = DOMAIN users \cup {u} /\ DOMAIN users' \subseteq UserIds
          /\ users' \in [DOMAIN users' -> UserRow]
      BY <2>2, <2>4, TypeInsert
    <3>2. login' \in [AccountProcs -> Login] /\ Existing'
      BY <1>a, <2>1, <2>4, <3>1, TypeRequest
    <3> QED BY <2>1, <3>1, <3>2 DEF AccountsInv, AccountsTypeOK, ghostVars
  <2> QED BY <1>4, <2>3, <2>4 DEF CreateSocial, LinkTo, Resume
<1>5. CASE LookLink(p) \/ InsertLink(p)
  <2> DEFINE u == login[p].user
  <2>1. i \in Identities /\ u \in DOMAIN users /\ u \in UserIds
    BY <1>5, LoginKinds DEF LookLink, InsertLink, AccountsInv, AccountsTypeOK, Existing
  <2>2. UNCHANGED <<users, ghostVars>>
    BY <1>5 DEF LookLink, InsertLink
  <2>3. \/ login' = [login EXCEPT ![p] = Away]
        \/ login' = [login EXCEPT ![p] = Next("link", u)]
        \/ login' = [login EXCEPT ![p] = Next("enter", u)]
    BY <1>5 DEF LookLink, InsertLink, EnterAs, Leave, Resume
  <2>4. login' \in [AccountProcs -> Login] /\ Existing'
    BY <1>0, <1>a, <2>1, <2>2, <2>3, TypeRequest
  <2>5. /\ DOMAIN identities' \subseteq Identities
        /\ identities' \in [DOMAIN identities' -> DOMAIN users]
    BY <1>5, <2>1 DEF LookLink, InsertLink, AccountsInv, AccountsTypeOK
  <2> QED BY <2>2, <2>4, <2>5 DEF AccountsInv, AccountsTypeOK, ghostVars
<1>6. CASE Enter(p)
  <2>1. i \in Identities /\ login[p].user \in DOMAIN users
    BY <1>6, LoginKinds DEF Enter, AccountsInv, AccountsTypeOK, Existing
  <2>2. login' \in [AccountProcs -> Login] /\ Existing'
    BY <1>0, <1>6, TypeRequest DEF Enter, Leave, Resume
  <2>3. signedIn' \in [Identities -> SUBSET DOMAIN users]
    BY <1>6, <2>1 DEF Enter, AccountsInv, AccountsTypeOK
  <2> QED BY <1>6, <2>2, <2>3 DEF Enter, AccountsInv, AccountsTypeOK
<1> QED BY <1>1, <1>2, <1>3, <1>4, <1>5, <1>6

(* What a profile update writes is a row.                                   *)
LEMMA PatchedRow ==
  ASSUME AccountsInv, NEW p \in AccountProcs, login[p].pc = "update"
  PROVE  /\ login[p].user \in DOMAIN users
         /\ [c \in Columns |-> IF c \in login[p].dirty THEN login[p].row[c]
                               ELSE users[login[p].user][c]] \in UserRow
<1>1. login[p].user \in DOMAIN users
  BY DEF AccountsInv, Existing
<1>2. login[p].row \in UserRow /\ users[login[p].user] \in UserRow
  BY <1>1, LoginKinds DEF AccountsInv, AccountsTypeOK
<1> QED BY <1>1, <1>2 DEF UserRow, Columns

(* The steps of a profile update, and those outside requests.               *)
LEMMA TypePatch ==
  ASSUME AccountsInv, NEW p \in AccountProcs,
         PatchRead(p) \/ PatchDiff(p) \/ PatchUpdate(p) \/ StopLogin(p)
  PROVE  AccountsInv'
<1>0. Away \in Login /\ Away.pc = "idle"
  BY DEF Away, Login
<1>1. CASE PatchRead(p)
  <2>0. PICK u \in DOMAIN users :
          \E e \in Emails \cup {users[u].email}, t \in Phones \cup {users[u].phone} :
            login' = [login EXCEPT ![p] =
              [pc |-> "diff", user |-> u,
               row |-> [users[u] EXCEPT !.email = e, !.phone = t]]]
    BY <1>1 DEF PatchRead, Resume
  <2>1. PICK e \in Emails \cup {users[u].email}, t \in Phones \cup {users[u].phone} :
          login' = [login EXCEPT ![p] =
            [pc |-> "diff", user |-> u,
             row |-> [users[u] EXCEPT !.email = e, !.phone = t]]]
    BY <2>0
  <2>2. [users[u] EXCEPT !.email = e, !.phone = t] \in UserRow /\ u \in UserIds
    BY ZenonT(60) DEF AccountsInv, AccountsTypeOK, UserRow
  <2>3. [pc |-> "diff", user |-> u,
         row |-> [users[u] EXCEPT !.email = e, !.phone = t]] \in Login
    BY <2>2 DEF Login
  <2>4. UNCHANGED <<users, identities, ghostVars>>
    BY <1>1 DEF PatchRead
  <2>5. login' \in [AccountProcs -> Login] /\ Existing'
    BY <2>1, <2>3, <2>4, TypeRequest
  <2> QED BY <2>4, <2>5 DEF AccountsInv, AccountsTypeOK, ghostVars
<1>2. CASE PatchDiff(p)
  <2> DEFINE d == {c \in Columns : login[p].row[c] # users[login[p].user][c]}
             r == [pc |-> "update", user |-> login[p].user, row |-> login[p].row,
                   dirty |-> d]
  <2>1. login[p].user \in DOMAIN users /\ login[p].user \in UserIds /\ login[p].row \in UserRow
    BY <1>2, LoginKinds DEF PatchDiff, AccountsInv, AccountsTypeOK, Existing
  <2>2. d \in SUBSET Columns
    OBVIOUS
  <2>3. r \in Login
    BY <2>1, <2>2 DEF Login
  <2>4. login' = [login EXCEPT ![p] = r] /\ UNCHANGED <<users, identities, ghostVars>>
    BY <1>2 DEF PatchDiff, Resume
  <2>5. login' \in [AccountProcs -> Login] /\ Existing'
    BY <2>1, <2>3, <2>4, TypeRequest
  <2> QED BY <2>4, <2>5 DEF AccountsInv, AccountsTypeOK, ghostVars
<1>3. CASE PatchUpdate(p)
  <2>1. login[p].pc = "update"
    BY <1>3 DEF PatchUpdate
  <2>2. DOMAIN users' = DOMAIN users /\ users' \in [DOMAIN users -> UserRow]
    BY <1>3, <2>1, PatchedRow DEF PatchUpdate, AccountsInv, AccountsTypeOK
  <2>3. login' \in [AccountProcs -> Login] /\ Existing'
    BY <1>0, <1>3, <2>2, TypeRequest DEF PatchUpdate, Leave, Resume
  <2>4. moved' \in BOOLEAN
    BY <1>3 DEF PatchUpdate, AccountsInv, AccountsTypeOK
  <2> QED BY <1>3, <2>2, <2>3, <2>4 DEF PatchUpdate, AccountsInv, AccountsTypeOK
<1>4. CASE StopLogin(p)
  <2>1. login' \in [AccountProcs -> Login] /\ Existing'
    BY <1>0, <1>4, TypeRequest DEF StopLogin, Leave, Resume
  <2> QED BY <1>4, <2>1 DEF StopLogin, AccountsInv, AccountsTypeOK, ghostVars
<1> QED BY <1>1, <1>2, <1>3, <1>4

(* Deactivating an account keeps its row well-formed.                       *)
LEMMA TypeDeactivate ==
  ASSUME AccountsInv, NEW u \in UserIds, Deactivate(u)
  PROVE  AccountsInv'
  BY ZenonT(60) DEF Deactivate, AccountsInv, AccountsTypeOK, UserRow, Existing

(* The tables of accounts keep their types, identities point to accounts,   *)
(* and every request works on accounts that exist.                          *)
THEOREM AccountsTypeCorrect == AccountsSpec => []AccountsInv
<1>1. ASSUME AccountsInit
      PROVE  AccountsInv
  <2>1. DOMAIN users = {} /\ users \in [DOMAIN users -> UserRow]
    BY <1>1 DEF AccountsInit
  <2>2. DOMAIN identities = {} /\ identities \in [DOMAIN identities -> DOMAIN users]
    BY <1>1 DEF AccountsInit
  <2>3. Away \in Login /\ Away.pc = "idle"
    BY DEF Away, Login
  <2>4. login \in [AccountProcs -> Login] /\ Existing
    BY <1>1, <2>3 DEF AccountsInit, Existing
  <2>5. signedIn \in [Identities -> SUBSET DOMAIN users]
    BY <1>1 DEF AccountsInit
  <2> QED BY <1>1, <2>1, <2>2, <2>4, <2>5 DEF AccountsInit, AccountsInv, AccountsTypeOK
<1>2. ASSUME AccountsInv, [AccountsNext]_accountVars
      PROVE  AccountsInv'
  <2>1. CASE UNCHANGED accountVars
    BY <1>2, <2>1 DEF accountVars, AccountsInv, AccountsTypeOK, Existing
  <2> QED
    BY <1>2, <2>1, TypeByCode, TypeSocial, TypePatch, TypeDeactivate
    DEF AccountsNext, LoginStep
<1> QED BY <1>1, <1>2, PTL DEF AccountsSpec
-----------------------------------------------------------------------------
(* An insert that the unique indexes let through is of a new contact.       *)
LEMMA InsertIsUnique ==
  ASSUME AccountsInv, ContactsUnique, NEW row \in UserRow, ~ContactConflict(row, None),
         NEW u \in UserIds \ DOMAIN users, InsertUser(u, row)
  PROVE  ContactsUnique'
<1>1. /\ DOMAIN users' = DOMAIN users \cup {u} /\ users'[u] = row
      /\ \A x \in DOMAIN users : users'[x] = users[x]
  BY TypeInsert
<1>2. \A x \in DOMAIN users :
        /\ users[x].email = row.email => row.email = None
        /\ users[x].phone = row.phone => row.phone = None
  BY AccountsAssumption DEF ContactConflict, AccountsInv, AccountsTypeOK
<1> QED BY <1>1, <1>2 DEF ContactsUnique

(* The indexes keep the contacts of accounts apart in every step.           *)
LEMMA UniqueStep ==
  ASSUME AccountsInv, ContactsUnique, [AccountsNext]_accountVars
  PROVE  ContactsUnique'
<1>1. CASE UNCHANGED users
  BY <1>1 DEF ContactsUnique
<1>2. ASSUME NEW p \in AccountProcs, InsertContact(p), ~UNCHANGED users
      PROVE  ContactsUnique'
  <2>1. NewRow(login[p].contact, TRUE) \in UserRow
    BY <1>2, LoginKinds, AccountsAssumption, NewRowType
    DEF InsertContact, AccountsInv, AccountsTypeOK
  <2> QED BY <1>2, <2>1, InsertIsUnique DEF InsertContact
<1>3. ASSUME NEW p \in AccountProcs, CreateSocial(p), ~UNCHANGED users
      PROVE  ContactsUnique'
  <2> DEFINE i == login[p].identity
             row == NewRow(AddressOf(i), i \in VerifiedIds /\ EmailOf[i] # None)
  <2>1. i \in Identities
    BY <1>3, LoginKinds DEF CreateSocial, AccountsInv, AccountsTypeOK
  <2>2. (i \in VerifiedIds /\ EmailOf[i] # None) \in BOOLEAN
    OBVIOUS
  <2>3. row \in UserRow
    BY <2>1, <2>2, Addresses, NewRowType
  <2> QED BY <1>3, <2>3, InsertIsUnique DEF CreateSocial
<1>4. ASSUME NEW p \in AccountProcs, MarkVerified(p)
      PROVE  ContactsUnique'
  <2>1. login[p].user \in DOMAIN users
    BY <1>4 DEF MarkVerified, AccountsInv, Existing
  <2>2. /\ DOMAIN users' = DOMAIN users
        /\ \A u \in DOMAIN users : /\ users'[u].email = users[u].email
                                   /\ users'[u].phone = users[u].phone
    BY <1>4, <2>1 DEF MarkVerified, AccountsInv, AccountsTypeOK, UserRow
  <2> QED BY <2>2 DEF ContactsUnique
<1>5. ASSUME NEW u \in UserIds, Deactivate(u)
      PROVE  ContactsUnique'
  <2>1. /\ DOMAIN users' = DOMAIN users
        /\ \A x \in DOMAIN users : /\ users'[x].email = users[x].email
                                   /\ users'[x].phone = users[x].phone
    BY <1>5 DEF Deactivate, AccountsInv, AccountsTypeOK, UserRow
  <2> QED BY <2>1 DEF ContactsUnique
<1>6. ASSUME NEW p \in AccountProcs, PatchUpdate(p), ~UNCHANGED users
      PROVE  ContactsUnique'
  <2> DEFINE u == login[p].user
             new == [c \in Columns |-> IF c \in login[p].dirty THEN login[p].row[c]
                                       ELSE users[u][c]]
  <2>1. u \in DOMAIN users /\ new \in UserRow
    BY <1>6, PatchedRow DEF PatchUpdate
  <2>2. ~ContactConflict(new, u) /\ users' = [users EXCEPT ![u] = new]
    BY SMTT(60), <1>6 DEF PatchUpdate
  <2>3. \A x \in DOMAIN users \ {u} :
          /\ users[x].email = new.email => new.email = None
          /\ users[x].phone = new.phone => new.phone = None
    BY <2>2 DEF ContactConflict
  <2> HIDE DEF new
  <2>4. DOMAIN users' = DOMAIN users /\ users'[u] = new
    BY <2>1, <2>2 DEF AccountsInv, AccountsTypeOK
  <2>5. \A x \in DOMAIN users \ {u} : users'[x] = users[x]
    BY <2>2 DEF AccountsInv, AccountsTypeOK
  <2> QED BY <2>3, <2>4, <2>5 DEF ContactsUnique
<1> QED
  BY <1>1, <1>2, <1>3, <1>4, <1>5, <1>6
  DEF AccountsNext, LoginStep, accountVars, CodeAccepted, FindContact, FindRaced,
      SocialArrives, FindIdentity, FindByEmail, FindRacedSocial, LookLink, InsertLink,
      Enter, PatchRead, PatchDiff, StopLogin

-----------------------------------------------------------------------------
(* Somebody holds c after the step.                                         *)
HeldNext(c) == \E u \in DOMAIN users' : c \in {users'[u].email, users'[u].phone}

(* A step that leaves the accounts and links there are alone keeps what     *)
(* requests rely on, if what its own request relies on next is so.          *)
LEMMA UndisturbedStep ==
  ASSUME AccountsInv, Undisturbed, moved' = moved, identities' = identities,
         \A u \in DOMAIN users :
           /\ u \in DOMAIN users'
           /\ users'[u].email = users[u].email /\ users'[u].phone = users[u].phone
           /\ users'[u].active = users[u].active,
         \A u \in DOMAIN users' : u \in DOMAIN users \/ users'[u].active,
         NEW p \in AccountProcs, NEW r, login' = [login EXCEPT ![p] = r],
         ~moved =>
           /\ r.pc = "byEmail" => EmailOf[r.identity] # None
           /\ r.pc = "raced" => HeldNext(r.contact)
           /\ r.pc \in {"lookLink", "link"} => users'[r.user].email = AddressOf(r.identity)
           /\ r.pc = "enter" => /\ r.identity \in DOMAIN identities
                                /\ r.user = identities[r.identity]
  PROVE  Undisturbed'
<1> SUFFICES ASSUME ~moved
             PROVE  Undisturbed'
  BY DEF Undisturbed
<1>1. \A q \in AccountProcs : login'[q] = IF q = p THEN r ELSE login[q]
  BY DEF AccountsInv, AccountsTypeOK
<1>2. \A u \in DOMAIN users' : users'[u].active
  BY DEF Undisturbed
<1>3. \A c : HoldersOf(c) # {} => HeldNext(c)
  BY DEF HoldersOf, HeldNext
<1>4. \A q \in AccountProcs : login'[q].pc = "raced" => HeldNext(login'[q].contact)
  BY <1>1, <1>3 DEF Undisturbed
<1>5. \A i \in DOMAIN identities' : users'[identities'[i]].email = AddressOf(i)
  BY DEF Undisturbed, AccountsInv, AccountsTypeOK
<1>6. \A q \in AccountProcs :
        login'[q].pc \in {"lookLink", "link"}
          => users'[login'[q].user].email = AddressOf(login'[q].identity)
  BY <1>1 DEF Undisturbed, AccountsInv, Existing
<1>7. \A q \in AccountProcs :
        login'[q].pc = "enter" => /\ login'[q].identity \in DOMAIN identities'
                                  /\ login'[q].user = identities'[login'[q].identity]
  BY <1>1 DEF Undisturbed
<1>8. \A q \in AccountProcs : (login[q].pc = "raced" => HoldersOf(login[q].contact) # {})'
  BY <1>4 DEF HoldersOf, HeldNext
<1>9. \A q \in AccountProcs :
        login'[q].pc = "byEmail" => EmailOf[login'[q].identity] # None
  BY <1>1 DEF Undisturbed
<1> QED BY <1>2, <1>5, <1>6, <1>7, <1>8, <1>9 DEF Undisturbed, AddressOf
(* A new account: its row joins those there are.                            *)
LEMMA InsertKeeps ==
  ASSUME AccountsInv, NEW c \in Emails \cup Phones, NEW v \in BOOLEAN,
         NEW u \in UserIds \ DOMAIN users, InsertUser(u, NewRow(c, v))
  PROVE  /\ \A x \in DOMAIN users :
              /\ x \in DOMAIN users'
              /\ users'[x].email = users[x].email /\ users'[x].phone = users[x].phone
              /\ users'[x].active = users[x].active
         /\ \A x \in DOMAIN users' : x \in DOMAIN users \/ users'[x].active
         /\ c \in Emails => users'[u].email = c
<1>1. /\ DOMAIN users' = DOMAIN users \cup {u} /\ users'[u] = NewRow(c, v)
      /\ \A x \in DOMAIN users : users'[x] = users[x]
  BY TypeInsert, NewRowType
<1>2. NewRow(c, v).active /\ (c \in Emails => NewRow(c, v).email = c)
  BY DEF NewRow
<1> QED BY <1>1, <1>2

(* The loser of an insert: its contact is held.                             *)
LEMMA ConflictIsHeld ==
  ASSUME AccountsInv, NEW c \in Emails \cup Phones, NEW v \in BOOLEAN,
         ContactConflict(NewRow(c, v), None)
  PROVE  HoldersOf(c) # {}
  BY AccountsAssumption DEF ContactConflict, NewRow, HoldersOf

(* A sign-in by code leaves what other requests rely on alone.              *)
LEMMA UndisturbedByCode ==
  ASSUME AccountsInv, Undisturbed, NEW p \in AccountProcs,
         CodeAccepted(p) \/ FindContact(p) \/ InsertContact(p) \/ FindRaced(p)
           \/ MarkVerified(p)
  PROVE  Undisturbed'
<1>1. CASE CodeAccepted(p) \/ FindContact(p) \/ FindRaced(p)
  <2>1. UNCHANGED <<users, identities, moved>>
    BY <1>1 DEF CodeAccepted, FindContact, FindRaced, ghostVars
  <2>2. \E r : /\ login' = [login EXCEPT ![p] = r]
               /\ r.pc \notin {"byEmail", "raced", "lookLink", "link", "enter"}
    BY <1>1 DEF CodeAccepted, FindContact, FindRaced, Resume, Leave, Away
  <2> QED BY <2>1, <2>2, UndisturbedStep
<1>2. CASE InsertContact(p)
  <2> DEFINE c == login[p].contact
  <2>1. c \in Emails \cup Phones /\ TRUE \in BOOLEAN
    BY <1>2, LoginKinds, AccountsAssumption DEF InsertContact, AccountsInv, AccountsTypeOK
  <2>2. UNCHANGED <<identities, moved>>
    BY <1>2 DEF InsertContact, ghostVars
  <2>3. ASSUME ContactConflict(NewRow(c, TRUE), None)
        PROVE  Undisturbed'
    <3> DEFINE r == [pc |-> "raced", contact |-> c]
    <3>1. UNCHANGED users /\ login' = [login EXCEPT ![p] = r]
      BY <1>2, <2>3 DEF InsertContact, Resume
    <3>2. HeldNext(r.contact)
      BY <2>1, <2>3, <3>1, ConflictIsHeld DEF HoldersOf, HeldNext
    <3> QED BY <2>2, <3>1, <3>2, UndisturbedStep
  <2>4. ASSUME NEW u \in UserIds \ DOMAIN users, InsertUser(u, NewRow(c, TRUE)),
               login' = [login EXCEPT ![p] = Away]
        PROVE  Undisturbed'
    <3>1. Away.pc = "idle"
      BY DEF Away
    <3> QED BY <2>1, <2>2, <2>4, <3>1, InsertKeeps, UndisturbedStep
  <2> QED BY <1>2, <2>3, <2>4 DEF InsertContact, Leave, Resume
<1>3. CASE MarkVerified(p)
  <2>1. login[p].user \in DOMAIN users
    BY <1>3 DEF MarkVerified, AccountsInv, Existing
  <2>2. /\ DOMAIN users' = DOMAIN users
        /\ \A u \in DOMAIN users :
             /\ users'[u].email = users[u].email /\ users'[u].phone = users[u].phone
             /\ users'[u].active = users[u].active
    BY <1>3, <2>1 DEF MarkVerified, AccountsInv, AccountsTypeOK, UserRow
  <2>3. UNCHANGED <<identities, moved>> /\ login' = [login EXCEPT ![p] = Away]
    BY <1>3 DEF MarkVerified, Leave, Resume, ghostVars
  <2>4. Away.pc = "idle"
    BY DEF Away
  <2> QED BY <2>2, <2>3, <2>4, UndisturbedStep
<1> QED BY <1>1, <1>2, <1>3

(* A social login goes on with the account that has its address.            *)
LEMMA UndisturbedSocial ==
  ASSUME AccountsInv, ContactsUnique, Undisturbed, NEW p \in AccountProcs,
         \/ SocialArrives(p) \/ FindIdentity(p) \/ FindByEmail(p)
         \/ CreateSocial(p) \/ FindRacedSocial(p) \/ LookLink(p) \/ Enter(p)
  PROVE  Undisturbed'
<1> DEFINE i == login[p].identity
           u == login[p].user
           At(l, x) == [pc |-> l, identity |-> i, user |-> x]
<1>0. Away.pc = "idle"
  BY DEF Away
<1>1. CASE SocialArrives(p) \/ Enter(p)
  <2>1. UNCHANGED <<users, identities, moved>>
    BY <1>1 DEF SocialArrives, Enter, ghostVars
  <2>2. \E r : /\ login' = [login EXCEPT ![p] = r]
               /\ r.pc \notin {"byEmail", "raced", "lookLink", "link", "enter"}
    BY <1>1 DEF SocialArrives, Enter, Resume, Leave, Away
  <2> QED BY <2>1, <2>2, UndisturbedStep
<1>2. CASE FindIdentity(p)
  <2>1. UNCHANGED <<users, identities, moved>>
    BY <1>2 DEF FindIdentity, ghostVars
  <2>2. ASSUME i \in DOMAIN identities
        PROVE  Undisturbed'
    <3>1. login' = [login EXCEPT ![p] = At("enter", identities[i])]
      BY <1>2, <2>2 DEF FindIdentity, EnterAs, Resume
    <3> QED BY <2>1, <2>2, <3>1, UndisturbedStep
  <2>3. ASSUME i \notin DOMAIN identities
        PROVE  Undisturbed'
    <3> DEFINE r == [pc |-> IF EmailOf[i] = None THEN "create" ELSE "byEmail",
                     identity |-> i]
    <3>1. login' = [login EXCEPT ![p] = r]
      BY <1>2, <2>3 DEF FindIdentity, Resume
    <3>2. r.pc \in {"create", "byEmail"} /\ (r.pc = "byEmail" => EmailOf[r.identity] # None)
      OBVIOUS
    <3> HIDE DEF r
    <3> QED BY <2>1, <3>1, <3>2, UndisturbedStep
  <2> QED BY <2>2, <2>3
<1>3. CASE FindByEmail(p) \/ FindRacedSocial(p)
  <2>1. i \in Identities /\ UNCHANGED <<users, identities, moved>>
    BY <1>3, LoginKinds
    DEF FindByEmail, FindRacedSocial, AccountsInv, AccountsTypeOK, ghostVars
  <2>2. ASSUME NEW x \in HoldersOf(AddressOf(i)), login' = [login EXCEPT ![p] = At("lookLink", x)]
        PROVE  Undisturbed'
    <3>1. users'[x].email = AddressOf(i)
      BY <2>1, <2>2, HoldersByEmail
    <3> QED BY <2>1, <2>2, <3>1, UndisturbedStep
  <2>3. ASSUME NEW r, login' = [login EXCEPT ![p] = r], r.pc \in {"create", "idle"}
        PROVE  Undisturbed'
    BY <2>1, <2>3, UndisturbedStep
  <2>4. CASE FindByEmail(p)
    <3>1. CASE moved
      BY <2>1, <3>1 DEF Undisturbed
    <3>2. CASE ~moved
      <4>1. EmailOf[i] = AddressOf(i)
        BY <2>1, <2>4, <3>2, Addresses DEF FindByEmail, Undisturbed
      <4> QED BY <1>0, <2>2, <2>3, <2>4, <4>1 DEF FindByEmail, LinkTo, Leave, Resume
    <3> QED BY <3>1, <3>2
  <2>5. CASE FindRacedSocial(p)
    BY <1>0, <2>2, <2>3, <2>5 DEF FindRacedSocial, LinkTo, Leave, Resume
  <2> QED BY <1>3, <2>4, <2>5
<1>4. CASE CreateSocial(p)
  <2> DEFINE v == i \in VerifiedIds /\ EmailOf[i] # None
  <2>1. i \in Identities /\ UNCHANGED <<identities, moved>>
    BY <1>4, LoginKinds DEF CreateSocial, AccountsInv, AccountsTypeOK, ghostVars
  <2>2. v \in BOOLEAN /\ AddressOf(i) \in Emails
    BY <2>1, Addresses
  <2>3. ASSUME UNCHANGED users,
               login' = [login EXCEPT ![p] = [pc |-> "racedSocial", identity |-> i]]
        PROVE  Undisturbed'
    BY <2>1, <2>3, UndisturbedStep
  <2>4. ASSUME NEW x \in UserIds \ DOMAIN users, InsertUser(x, NewRow(AddressOf(i), v)),
               login' = [login EXCEPT ![p] = At("lookLink", x)]
        PROVE  Undisturbed'
    BY <2>1, <2>2, <2>4, InsertKeeps, UndisturbedStep
  <2> QED BY <1>4, <2>3, <2>4 DEF CreateSocial, LinkTo, Resume
<1>5. CASE LookLink(p)
  <2>1. /\ i \in Identities /\ u \in DOMAIN users /\ login[p].pc = "lookLink"
        /\ UNCHANGED <<users, identities, moved>>
    BY <1>5, LoginKinds DEF LookLink, AccountsInv, AccountsTypeOK, Existing, ghostVars
  <2>2. ASSUME i \in DOMAIN identities, login' = [login EXCEPT ![p] = At("enter", u)]
        PROVE  Undisturbed'
    <3>1. ASSUME ~moved
          PROVE  u = identities[i]
      <4>1. identities[i] \in DOMAIN users
        BY <2>2 DEF AccountsInv, AccountsTypeOK
      <4>2. users[u].email = AddressOf(i) /\ users[identities[i]].email = AddressOf(i)
        BY <2>1, <2>2, <3>1 DEF Undisturbed
      <4> QED BY <2>1, <4>1, <4>2, Addresses DEF ContactsUnique
    <3> QED BY <2>1, <2>2, <3>1, UndisturbedStep
  <2>3. ASSUME login' = [login EXCEPT ![p] = At("link", u)]
        PROVE  Undisturbed'
    <3>1. ~moved => users'[u].email = AddressOf(i)
      BY <2>1 DEF Undisturbed
    <3> QED BY <2>1, <2>3, <3>1, UndisturbedStep
  <2> QED BY <1>5, <2>2, <2>3 DEF LookLink, EnterAs, Resume
<1> QED BY <1>1, <1>2, <1>3, <1>4, <1>5
(* A link that is inserted leads to the account with its address.           *)
LEMMA UndisturbedLink ==
  ASSUME AccountsInv, Undisturbed, NEW p \in AccountProcs, InsertLink(p)
  PROVE  Undisturbed'
<1> DEFINE i == login[p].identity
           u == login[p].user
           r == [pc |-> "enter", identity |-> i, user |-> u]
<1>1. UNCHANGED <<users, moved>> /\ login[p].pc = "link"
  BY DEF InsertLink, ghostVars
<1>2. CASE i \in DOMAIN identities
  <2>1. identities' = identities /\ login' = [login EXCEPT ![p] = Away] /\ Away.pc = "idle"
    BY <1>2 DEF InsertLink, Leave, Resume, Away
  <2> QED BY <1>1, <2>1, UndisturbedStep
<1>3. CASE i \notin DOMAIN identities
  <2>1. /\ login' = [login EXCEPT ![p] = r]
        /\ DOMAIN identities' = DOMAIN identities \cup {i} /\ identities'[i] = u
        /\ \A x \in DOMAIN identities : identities'[x] = identities[x]
    BY <1>3 DEF InsertLink, EnterAs, Resume
  <2>2. SUFFICES ASSUME ~moved
                 PROVE  Undisturbed'
    BY <1>1 DEF Undisturbed
  <2>3. \A q \in AccountProcs : login'[q] = IF q = p THEN r ELSE login[q]
    BY <2>1 DEF AccountsInv, AccountsTypeOK
  <2>4. \A x \in DOMAIN identities' : users[identities'[x]].email = AddressOf(x)
    BY <1>1, <2>1, <2>2 DEF Undisturbed
  <2>5. \A q \in AccountProcs :
          login'[q].pc = "enter" => /\ login'[q].identity \in DOMAIN identities'
                                    /\ login'[q].user = identities'[login'[q].identity]
    BY <2>1, <2>2, <2>3 DEF Undisturbed
  <2>6. \A q \in AccountProcs :
          /\ login'[q].pc = "raced" => HoldersOf(login'[q].contact) # {}
          /\ login'[q].pc = "byEmail" => EmailOf[login'[q].identity] # None
          /\ login'[q].pc \in {"lookLink", "link"}
               => users[login'[q].user].email = AddressOf(login'[q].identity)
    BY <2>2, <2>3 DEF Undisturbed
  <2> QED BY <1>1, <2>2, <2>4, <2>5, <2>6 DEF Undisturbed, AddressOf, HoldersOf
<1> QED BY <1>2, <1>3

(* A profile update that changes nothing disturbs nobody.                   *)
LEMMA UndisturbedPatch ==
  ASSUME AccountsInv, Undisturbed, NEW p \in AccountProcs,
         PatchRead(p) \/ PatchDiff(p) \/ PatchUpdate(p) \/ StopLogin(p)
  PROVE  Undisturbed'
<1>1. \E r : /\ login' = [login EXCEPT ![p] = r]
             /\ r.pc \notin {"byEmail", "raced", "lookLink", "link", "enter"}
  <2>1. CASE PatchRead(p)
    <3>1. PICK u \in DOMAIN users :
            \E e \in Emails \cup {users[u].email}, t \in Phones \cup {users[u].phone} :
              login' = [login EXCEPT ![p] =
                [pc |-> "diff", user |-> u,
                 row |-> [users[u] EXCEPT !.email = e, !.phone = t]]]
      BY <2>1 DEF PatchRead, Resume
    <3>2. PICK e \in Emails \cup {users[u].email}, t \in Phones \cup {users[u].phone} :
            login' = [login EXCEPT ![p] =
              [pc |-> "diff", user |-> u,
               row |-> [users[u] EXCEPT !.email = e, !.phone = t]]]
      BY <3>1
    <3> DEFINE r == [pc |-> "diff", user |-> u,
                     row |-> [users[u] EXCEPT !.email = e, !.phone = t]]
    <3>3. login' = [login EXCEPT ![p] = r] /\ r.pc = "diff"
      BY <3>2
    <3> HIDE DEF r
    <3> QED BY <3>3
  <2>2. CASE PatchDiff(p)
    <3> DEFINE d == {c \in Columns : login[p].row[c] # users[login[p].user][c]}
    <3> DEFINE r == [pc |-> "update", user |-> login[p].user,
                     row |-> login[p].row, dirty |-> d]
    <3>1. login' = [login EXCEPT ![p] = r] /\ r.pc = "update"
      BY <2>2 DEF PatchDiff, Resume
    <3> HIDE DEF r
    <3> QED BY <3>1
  <2>3. CASE PatchUpdate(p) \/ StopLogin(p)
    <3>1. login' = [login EXCEPT ![p] = Away] /\ Away.pc = "idle"
      BY <2>3 DEF PatchUpdate, StopLogin, Leave, Resume, Away
    <3> QED BY <3>1
  <2> QED BY <2>1, <2>2, <2>3
<1>2. CASE UNCHANGED <<users, identities, moved>>
  BY <1>1, <1>2, UndisturbedStep
<1>3. CASE PatchUpdate(p)
  <2> DEFINE u == login[p].user
             new == [c \in Columns |-> IF c \in login[p].dirty THEN login[p].row[c]
                                       ELSE users[u][c]]
  <2>1. identities' = identities
    BY <1>3 DEF PatchUpdate
  <2>2. CASE UNCHANGED <<users, moved>>
    BY <1>2, <2>1, <2>2
  <2>3. CASE users' = [users EXCEPT ![u] = new] /\ moved' = (moved \/ new # users[u])
    <3> HIDE DEF new
    <3>1. CASE moved'
      BY <3>1 DEF Undisturbed
    <3>2. CASE ~moved'
      <4>1. new = users[u] /\ ~moved
        BY <2>3, <3>2
      <4>2. DOMAIN users' = DOMAIN users /\ \A x \in DOMAIN users : users'[x] = users[x]
        BY <2>3, <4>1
      <4>3. moved' = moved
        <5>1. moved \in BOOLEAN /\ moved' \in BOOLEAN
          BY <2>3 DEF AccountsInv, AccountsTypeOK
        <5> QED BY <3>2, <4>1, <5>1
      <4> QED BY <1>1, <2>1, <4>2, <4>3, UndisturbedStep
    <3> QED BY <3>1, <3>2
  <2> QED BY <1>3, <2>2, <2>3 DEF PatchUpdate
<1> QED BY <1>2, <1>3 DEF PatchRead, PatchDiff, StopLogin, ghostVars

(* Every step keeps what requests rely on.                                  *)
LEMMA UndisturbedNext ==
  ASSUME AccountsInv, ContactsUnique, Undisturbed, [AccountsNext]_accountVars
  PROVE  Undisturbed'
<1>1. ASSUME NEW u \in UserIds, Deactivate(u)
      PROVE  Undisturbed'
  BY <1>1 DEF Deactivate, Undisturbed
<1>2. CASE UNCHANGED accountVars
  BY SMTT(60), <1>2 DEF accountVars, Undisturbed, HoldersOf, AddressOf
<1> QED
  BY <1>1, <1>2, UndisturbedByCode, UndisturbedSocial, UndisturbedLink, UndisturbedPatch
  DEF AccountsNext, LoginStep

-----------------------------------------------------------------------------
(* No accepted code is refused while the winner of its race is there.       *)
RefusedOnlyIfMoved == refused # {} => moved

(* That an account was changed is not forgotten.                            *)
LEMMA MovedStays ==
  ASSUME [AccountsNext]_accountVars, moved
  PROVE  moved'
  BY ZenonT(60) DEF AccountsNext, LoginStep, accountVars, ghostVars, CodeAccepted, FindContact,
         InsertContact, FindRaced, MarkVerified, SocialArrives, FindIdentity, FindByEmail,
         CreateSocial, FindRacedSocial, LookLink, InsertLink, Enter, PatchRead,
         PatchDiff, PatchUpdate, StopLogin, Deactivate

(* A link is never taken back or led elsewhere.                             *)
LEMMA LinksStay ==
  ASSUME [AccountsNext]_accountVars, NEW i \in DOMAIN identities
  PROVE  i \in DOMAIN identities' /\ identities'[i] = identities[i]
<1>1. ASSUME NEW p \in AccountProcs, InsertLink(p)
      PROVE  i \in DOMAIN identities' /\ identities'[i] = identities[i]
  BY <1>1 DEF InsertLink
<1>2. CASE UNCHANGED identities
  BY <1>2
<1> QED
  BY ZenonT(60), <1>1, <1>2
  DEF AccountsNext, LoginStep, accountVars, CodeAccepted, FindContact, InsertContact,
      FindRaced, MarkVerified, SocialArrives, FindIdentity, FindByEmail, CreateSocial,
      FindRacedSocial, LookLink, Enter, PatchRead, PatchDiff, PatchUpdate, StopLogin,
      Deactivate

(* Every step keeps the refusals justified.                                 *)
LEMMA RefusedStep ==
  ASSUME AccountsInv, Undisturbed, RefusedOnlyIfMoved, [AccountsNext]_accountVars
  PROVE  RefusedOnlyIfMoved'
<1>1. moved => moved'
  BY MovedStays
<1>2. ASSUME NEW p \in AccountProcs, FindRaced(p)
      PROVE  refused' = refused \/ moved
  <2>1. SUFFICES ASSUME ~moved
                 PROVE  refused' = refused
    OBVIOUS
  <2>2. PICK u \in HoldersOf(login[p].contact) : u \in DOMAIN users
    BY <1>2, <2>1 DEF FindRaced, Undisturbed, HoldersOf
  <2>3. users[u].active
    BY <2>1, <2>2 DEF Undisturbed
  <2> QED BY <1>2, <2>2, <2>3 DEF FindRaced
<1>3. refused' = refused \/ moved
  BY ZenonT(60), <1>2
  DEF AccountsNext, LoginStep, accountVars, ghostVars, CodeAccepted, FindContact,
      InsertContact, MarkVerified, SocialArrives, FindIdentity, FindByEmail,
      CreateSocial, FindRacedSocial, LookLink, InsertLink, Enter, PatchRead,
      PatchDiff, PatchUpdate, StopLogin, Deactivate
<1> QED BY <1>1, <1>3 DEF RefusedOnlyIfMoved

(* The inductive invariant of accounts.                                     *)
LEMMA AccountsInductive ==
  AccountsSpec => [](AccountsInv /\ ContactsUnique /\ Undisturbed /\ RefusedOnlyIfMoved)
<1>1. AccountsInit => ContactsUnique /\ Undisturbed /\ RefusedOnlyIfMoved
  BY DEF AccountsInit, ContactsUnique, Undisturbed, RefusedOnlyIfMoved, Away
<1>2. AccountsInv /\ ContactsUnique /\ Undisturbed /\ RefusedOnlyIfMoved
        /\ [AccountsNext]_accountVars
        => ContactsUnique' /\ Undisturbed' /\ RefusedOnlyIfMoved'
  BY UniqueStep, UndisturbedNext, RefusedStep
<1> QED BY <1>1, <1>2, AccountsTypeCorrect, PTL DEF AccountsSpec

(* Whatever sign-ins and profile updates race for a contact, one account    *)
(* has it, and nobody with an accepted code is refused unless an account    *)
(* was changed: for any number of contacts, accounts and requests.          *)
THEOREM ContactHasOneAccount == AccountsSpec => []OneAccountPerContact
<1>1. ContactsUnique /\ RefusedOnlyIfMoved => OneAccountPerContact
  BY DEF ContactsUnique, RefusedOnlyIfMoved, OneAccountPerContact
<1> QED BY <1>1, AccountsInductive, PTL

(* While no account is changed, all sign-ins of an identity end in the      *)
(* account it is linked to, for any number of identities and requests.      *)
THEOREM IdentityHasOneAccount == AccountsSpec => []IdentityLeadsToOneAccount
<1>1. AccountsInit => IdentityLeadsToOneAccount
  BY DEF AccountsInit, IdentityLeadsToOneAccount
<1>2. ASSUME AccountsInv, Undisturbed, IdentityLeadsToOneAccount,
             [AccountsNext]_accountVars
      PROVE  IdentityLeadsToOneAccount'
  <2>1. /\ moved => moved'
        /\ \A i \in DOMAIN identities :
             i \in DOMAIN identities' /\ identities'[i] = identities[i]
    BY <1>2, MovedStays, LinksStay
  <2>2. CASE signedIn' = signedIn
    BY <1>2, <2>1, <2>2 DEF IdentityLeadsToOneAccount
  <2>3. ASSUME NEW p \in AccountProcs, Enter(p)
        PROVE  IdentityLeadsToOneAccount'
    <3> DEFINE i == login[p].identity
               u == login[p].user
    <3>1. /\ identities' = identities /\ moved' = moved
          /\ \A j \in Identities :
               signedIn'[j] = IF j = i THEN signedIn[j] \cup {u} ELSE signedIn[j]
      BY <1>2, <2>3 DEF Enter, AccountsInv, AccountsTypeOK
    <3>2. ~moved => i \in DOMAIN identities /\ u = identities[i]
      BY <1>2, <2>3 DEF Enter, Undisturbed
    <3> QED BY <1>2, <3>1, <3>2 DEF IdentityLeadsToOneAccount
  <2> QED
    BY <1>2, <2>2, <2>3
    DEF AccountsNext, LoginStep, accountVars, ghostVars, CodeAccepted, FindContact,
        InsertContact, FindRaced, MarkVerified, SocialArrives, FindIdentity, FindByEmail,
        CreateSocial, FindRacedSocial, LookLink, InsertLink, PatchRead, PatchDiff,
        PatchUpdate, StopLogin, Deactivate
<1> QED BY <1>1, <1>2, AccountsInductive, PTL DEF AccountsSpec
=============================================================================
