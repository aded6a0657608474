----------------------------- MODULE OneTimeCodes -----------------------------
(***************************************************************************)
(* One-time codes: AuthService.requestOtp and the verify and resend        *)
(* actions of verifyOtp up to the point where a code is accepted, over     *)
(* RedisOtpStore.  Each request runs one Redis or delivery call per step,  *)
(* so the GET and the SET of the store's read-modify-writes interleave.    *)
(*                                                                         *)
(* Redis is external: a key with a TTL vanishes at any time, and only      *)
(* then.  Contacts are normalised already; a request whose contact has no  *)
(* valid format touches nothing.  Code hashes are the codes themselves.    *)
(* What becomes of an accepted code is in Accounts.                        *)
(***************************************************************************)
EXTENDS Naturals, Sequences, FiniteSets

CONSTANTS
  OtpIds,             \* otp_session keys an instance may use at once
  NoId,               \* a request that has no session yet
  Contacts,
  SmsContacts,        \* the contacts that are phone numbers
  Ips, Devices,       \* client addresses and device ids
  Codes,              \* the codes generateOtp may return
  ContactMax, IpMax, SmsIpMax, DeviceMax,   \* the configured limits
  MaxCount,           \* bound on a bucket's counter
  MaxVerifyAttempts,
  MaxAttempts,        \* bound on a session's counter when a code is entered
  OtpProcs,           \* bound on concurrent requests
  OtpCrashes          \* whether a request may stop between two calls

ASSUME OtpAssumption ==
  /\ NoId \notin OtpIds
  /\ SmsContacts \subseteq Contacts
  /\ {ContactMax, IpMax, SmsIpMax, DeviceMax, MaxVerifyAttempts, MaxAttempts,
      MaxCount} \subseteq Nat \ {0}
  /\ OtpCrashes \in BOOLEAN

VARIABLES
  otp,        \* id -> stored session, for the keys that exist
  bucket,     \* rate bucket -> its counter and whether the key has a TTL
  admitted,   \* rate bucket -> what it let through since its key was created
  sent,       \* id -> the codes handed to mail queue or SMS gateway for it
  undelivered,  \* id -> the codes that neither of them took
  call        \* p -> what request p does and what it has read

otpVars == <<otp, bucket, admitted, sent, undelivered, call>>

Buckets == ({"contact"} \X Contacts) \cup ({"ip"} \X Ips)
             \cup ({"device"} \X Devices)

Session == [contact : Contacts, code : Codes, attempts : Nat]

NoCallYet == [pc |-> "idle"]

Call ==
  [pc : {"idle"}]
  \cup [pc : {"count", "expire", "store"}, contact : Contacts,
        id : OtpIds \cup {NoId}, todo : Seq(Buckets)]
  \cup [pc : {"resave"}, id : OtpIds, row : Session]
  \cup [pc : {"deliver"}, id : OtpIds, code : Codes]
  \cup [pc : {"wrong", "drop", "accept"}, id : OtpIds]
  \cup [pc : {"save"}, id : OtpIds, row : Session]

OtpTypeOK ==
  /\ DOMAIN otp \subseteq OtpIds
  /\ otp \in [DOMAIN otp -> Session]
  /\ bucket \in [Buckets -> [count : 0..MaxCount, ttl : BOOLEAN]]
  /\ admitted \in [Buckets -> Nat]
  /\ sent \in [OtpIds -> SUBSET Codes]
  /\ undelivered \in [OtpIds -> SUBSET Codes]
  /\ call \in [OtpProcs -> Call]

Fresh == [count |-> 0, ttl |-> FALSE]

OtpInit ==
  /\ otp = [i \in {} |-> {}]
  /\ bucket = [b \in Buckets |-> Fresh]
  /\ admitted = [b \in Buckets |-> 0]
  /\ sent = [i \in OtpIds |-> {}]
  /\ undelivered = [i \in OtpIds |-> {}]
  /\ call = [p \in OtpProcs |-> NoCallYet]

Turn(p, c) == call' = [call EXCEPT ![p] = c]
Done(p)    == Turn(p, NoCallYet)

-----------------------------------------------------------------------------
(* The three buckets of assertOtpRateLimits, in its order; address and      *)
(* device are skipped when the request has none.                            *)
BucketsOf(c, ips, devices) ==
  <<<<"contact", c>>>> \o [n \in 1..Cardinality(ips) |->
                             <<"ip", CHOOSE i \in ips : TRUE>>]
    \o [n \in 1..Cardinality(devices) |->
          <<"device", CHOOSE d \in devices : TRUE>>]

AtMostOne(S) == {{}} \cup {{x} : x \in S}

(* The ip bucket is one key for both methods, with a limit for each.        *)
LimitOf(b, c) ==
  CASE b[1] = "contact" -> ContactMax
    [] b[1] = "ip"      -> IF c \in SmsContacts THEN SmsIpMax ELSE IpMax
    [] b[1] = "device"  -> DeviceMax

(* requestOtp, and verifyOtp asked to resend, which reads the session first.*)
AskCode(p) ==
  /\ call[p] = NoCallYet
  /\ \E ips \in AtMostOne(Ips), devices \in AtMostOne(Devices) :
       \/ \E c \in Contacts :
            Turn(p, [pc |-> "count", contact |-> c, id |-> NoId,
                     todo |-> BucketsOf(c, ips, devices)])
       \/ \E i \in DOMAIN otp :
            Turn(p, [pc |-> "count", contact |-> otp[i].contact, id |-> i,
                     todo |-> BucketsOf(otp[i].contact, ips, devices)])
  /\ UNCHANGED <<otp, bucket, admitted, sent, undelivered>>

NextBucket(c) ==
  [c EXCEPT !.todo = Tail(@),
            !.pc = IF Len(c.todo) = 1 THEN "store" ELSE "count"]

(* Mutant of the next definition: one request too many.                     *)
CountBucketLate(p) ==
  LET c == call[p]
      b == Head(c.todo)
      n == bucket[b].count + 1
  IN /\ c.pc = "count"
     /\ n <= MaxCount
     /\ bucket' = [bucket EXCEPT ![b].count = n]
     /\ IF n <= LimitOf(b, c.contact) + 1
        THEN /\ admitted' = [admitted EXCEPT ![b] = @ + 1]
             /\ Turn(p, IF n = 1 THEN [c EXCEPT !.pc = "expire"]
                                 ELSE NextBucket(c))
        ELSE Done(p) /\ UNCHANGED admitted
     /\ UNCHANGED <<otp, sent, undelivered>>

(* consumeRateLimit: INCR; the request that created the key still has to    *)
(* give it its TTL; one over the limit is refused, with what it has counted *)
(* in earlier buckets.                                                      *)
CountBucket(p) ==
  LET c == call[p]
      b == Head(c.todo)
      n == bucket[b].count + 1
  IN /\ c.pc = "count"
     /\ n <= MaxCount
     /\ bucket' = [bucket EXCEPT ![b].count = n]
     /\ IF n <= LimitOf(b, c.contact)
        THEN /\ admitted' = [admitted EXCEPT ![b] = @ + 1]
             /\ Turn(p, IF n = 1 THEN [c EXCEPT !.pc = "expire"]
                                 ELSE NextBucket(c))
        ELSE Done(p) /\ UNCHANGED admitted
     /\ UNCHANGED <<otp, sent, undelivered>>

(* EXPIRE, by the request that created the key.                             *)
StartWindow(p) ==
  LET c == call[p]
  IN /\ c.pc = "expire"
     /\ bucket' = [bucket EXCEPT ![Head(c.todo)].ttl = TRUE]
     /\ Turn(p, NextBucket(c))
     /\ UNCHANGED <<otp, admitted, sent, undelivered>>

-----------------------------------------------------------------------------
Put(i, row) ==
  otp' = [x \in DOMAIN otp \cup {i} |-> IF x = i THEN row ELSE otp[x]]

Drop(i) == otp' = [x \in DOMAIN otp \ {i} |-> otp[x]]

IdsInUse == DOMAIN otp \cup {call[p].id : p \in {q \in OtpProcs :
                                                   "id" \in DOMAIN call[q]}}

(* createSession under a new id, or the GET of replaceOtp, which gives up   *)
(* when the session is gone.                                                *)
StoreCode(p) ==
  LET c == call[p]
  IN /\ c.pc = "store"
     /\ IF c.id = NoId
        THEN \E i \in OtpIds \ IdsInUse, k \in Codes :
               /\ Put(i, [contact |-> c.contact, code |-> k, attempts |-> 0])
               /\ sent' = [sent EXCEPT ![i] = {}]
               /\ undelivered' = [undelivered EXCEPT ![i] = {}]
               /\ Turn(p, [pc |-> "deliver", id |-> i, code |-> k])
        ELSE /\ IF c.id \in DOMAIN otp
                THEN \E k \in Codes :
                       Turn(p, [pc |-> "resave", id |-> c.id,
                                row |-> [otp[c.id] EXCEPT !.code = k,
                                                          !.attempts = 0]])
                ELSE Done(p)
             /\ UNCHANGED <<otp, sent, undelivered>>
     /\ UNCHANGED <<bucket, admitted>>

(* Mutant of the next definition: the new code is stored and not sent.      *)
ResaveSilently(p) ==
  /\ call[p].pc = "resave"
  /\ Put(call[p].id, call[p].row)
  /\ Done(p)
  /\ UNCHANGED <<bucket, admitted, sent, undelivered>>

(* The SET of replaceOtp.                                                   *)
Resave(p) ==
  /\ call[p].pc = "resave"
  /\ Put(call[p].id, call[p].row)
  /\ Turn(p, [pc |-> "deliver", id |-> call[p].id, code |-> call[p].row.code])
  /\ UNCHANGED <<bucket, admitted, sent, undelivered>>

(* dispatchOtp: a queue job for an e-mail, a call to the gateway for SMS.   *)
Deliver(p) ==
  /\ call[p].pc = "deliver"
  /\ sent' = [sent EXCEPT ![call[p].id] = @ \cup {call[p].code}]
  /\ Done(p)
  /\ UNCHANGED <<otp, bucket, admitted, undelivered>>

(* The queue or the gateway refuses: the request ends with an error, and    *)
(* what it stored stays.                                                    *)
DeliverFails(p) ==
  /\ call[p].pc = "deliver"
  /\ undelivered' = [undelivered EXCEPT ![call[p].id] = @ \cup {call[p].code}]
  /\ Done(p)
  /\ UNCHANGED <<otp, bucket, admitted, sent>>

-----------------------------------------------------------------------------
(* verifyOtp up to the comparison: a code that was sent, or a wrong one.    *)
EnterCode(p) ==
  /\ call[p] = NoCallYet
  /\ \E i \in DOMAIN otp, right \in BOOLEAN :
       /\ otp[i].attempts <= MaxAttempts
       /\ right => otp[i].code \in sent[i]
       /\ Turn(p, [pc |-> IF right THEN "accept" ELSE "wrong", id |-> i])
  /\ UNCHANGED <<otp, bucket, admitted, sent, undelivered>>

(* deleteSession of an accepted code.                                       *)
AcceptCode(p) ==
  /\ call[p].pc = "accept"
  /\ Drop(call[p].id)
  /\ Done(p)
  /\ UNCHANGED <<bucket, admitted, sent, undelivered>>

(* incrementAttempts reads the session ...                                  *)
ReadAttempts(p) ==
  LET i == call[p].id
  IN /\ call[p].pc = "wrong"
     /\ IF i \in DOMAIN otp
        THEN Turn(p, [pc |-> "save", id |-> i,
                      row |-> [otp[i] EXCEPT !.attempts = @ + 1]])
        ELSE Done(p)
     /\ UNCHANGED <<otp, bucket, admitted, sent, undelivered>>

(* Mutant of the next definition: the session with the last attempt stays.  *)
SaveAttemptsLate(p) ==
  LET c == call[p]
  IN /\ c.pc = "save"
     /\ Put(c.id, c.row)
     /\ IF c.row.attempts > MaxVerifyAttempts
        THEN Turn(p, [pc |-> "drop", id |-> c.id])
        ELSE Done(p)
     /\ UNCHANGED <<bucket, admitted, sent, undelivered>>

(* ... and writes it back with the attempt counted, whatever the key holds  *)
(* by then, for the rest of its TTL or for a second.                        *)
SaveAttempts(p) ==
  LET c == call[p]
  IN /\ c.pc = "save"
     /\ Put(c.id, c.row)
     /\ IF c.row.attempts >= MaxVerifyAttempts
        THEN Turn(p, [pc |-> "drop", id |-> c.id])
        ELSE Done(p)
     /\ UNCHANGED <<bucket, admitted, sent, undelivered>>

DropExhausted(p) ==
  /\ call[p].pc = "drop"
  /\ Drop(call[p].id)
  /\ Done(p)
  /\ UNCHANGED <<bucket, admitted, sent, undelivered>>

-----------------------------------------------------------------------------
ExpireCode(i) ==
  /\ i \in DOMAIN otp
  /\ Drop(i)
  /\ UNCHANGED <<bucket, admitted, sent, undelivered, call>>

ExpireBucket(b) ==
  /\ bucket[b].ttl
  /\ bucket' = [bucket EXCEPT ![b] = Fresh]
  /\ admitted' = [admitted EXCEPT ![b] = 0]
  /\ UNCHANGED <<otp, sent, undelivered, call>>

(* The process stops between two calls.                                     *)
StopCall(p) ==
  /\ OtpCrashes
  /\ call[p] # NoCallYet
  /\ Done(p)
  /\ UNCHANGED <<otp, bucket, admitted, sent, undelivered>>

CallStep(p) ==
  \/ CountBucket(p) \/ StartWindow(p) \/ StoreCode(p) \/ Resave(p)
  \/ Deliver(p) \/ AcceptCode(p) \/ ReadAttempts(p) \/ SaveAttempts(p)
  \/ DropExhausted(p)

OtpNext ==
  \/ \E p \in OtpProcs :
       \/ AskCode(p) \/ EnterCode(p) \/ CallStep(p) \/ DeliverFails(p)
       \/ StopCall(p)
  \/ \E i \in OtpIds : ExpireCode(i)
  \/ \E b \in Buckets : ExpireBucket(b)

OtpSpec == OtpInit /\ [][OtpNext]_otpVars

(* A request that does not crash goes on to its next call, and Redis        *)
(* removes a key once its TTL has passed.                                   *)
OtpFairness ==
  /\ \A p \in OtpProcs : WF_otpVars(CallStep(p))
  /\ \A b \in Buckets : WF_otpVars(ExpireBucket(b))

-----------------------------------------------------------------------------
(* A bucket that several contacts share lets through what its most lenient  *)
(* contact may ask for.                                                     *)
LargestLimit(b) ==
  LET limits == {LimitOf(b, c) : c \in Contacts}
  IN CHOOSE m \in limits : \A n \in limits : n <= m

Window == INSTANCE RateWindow WITH Limit <- [b \in Buckets |-> LargestLimit(b)]

(* The three buckets are a fixed-window limit: concurrent requests are      *)
(* never admitted beyond a limit in one window, and a bucket that admitted  *)
(* a request opens again.                                                   *)
LimitIsAWindow == Window!Spec

(* A session is dropped with the attempt that reaches the cap, although the *)
(* attempts of concurrent requests overwrite each other.                    *)
ExhaustedIsDropped ==
  \A i \in DOMAIN otp :
    otp[i].attempts >= MaxVerifyAttempts
      => \E p \in OtpProcs : call[p].pc = "drop" /\ call[p].id = i

(* Once no request is at work on a session, the code it holds is one its    *)
(* contact was sent or whose request was told that it could not be sent,    *)
(* whichever of a resend and a wrong attempt wrote last.                    *)
StoredCodeWasDispatched ==
  \A i \in DOMAIN otp :
    (\A p \in OtpProcs : call[p] = NoCallYet \/ call[p].id # i)
      => otp[i].code \in sent[i] \cup undelivered[i]
=============================================================================
