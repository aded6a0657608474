------------------------------ MODULE RedisProofs ------------------------------
(***************************************************************************)
(* The flows that keep their state in Redis, for every number of requests, *)
(* workers, codes, payloads, reviews and for every limit: one-time codes,  *)
(* inbound webhooks and the recompute of a rating.  They share no state,   *)
(* so each has invariants of its own.                                      *)
(***************************************************************************)
EXTENDS OneTimeCodes, WhatsappInbound, Ratings, FiniteSetTheorems,
        SequenceTheorems, WellFoundedInduction, TLAPS

-----------------------------------------------------------------------------
(* One-time codes.                                                          *)

(* What a request that is at its buckets still has to count.                *)
HasBuckets(c) == c.pc \in {"count", "expire"} => c.todo # <<>>

(* A resend writes a session without attempts.                              *)
ResaveIsFresh(c) == c.pc = "resave" => c.row.attempts = 0

(* A bucket admits no more than it counts.                                  *)
AdmittedIsCounted == \A b \in Buckets : admitted[b] <= bucket[b].count

CodesInv ==
  /\ OtpTypeOK
  /\ \A p \in OtpProcs : HasBuckets(call[p]) /\ ResaveIsFresh(call[p])
  /\ AdmittedIsCounted

(* A code of a session was handed over, refused, or is about to be sent.    *)
Backed(i, k) ==
  \/ k \in sent[i] \cup undelivered[i]
  \/ \E p \in OtpProcs : /\ call[p].pc = "deliver"
                         /\ call[p].id = i /\ call[p].code = k

(* Of a stored session, and of one that a wrong attempt will write back.    *)
CodesAreBacked ==
  /\ \A i \in DOMAIN otp : Backed(i, otp[i].code)
  /\ \A p \in OtpProcs :
       call[p].pc = "save" => Backed(call[p].id, call[p].row.code)

(* What a request holds is given by its program counter.                    *)
LEMMA CallKinds ==
  ASSUME NEW c \in Call
  PROVE  /\ c.pc \in {"idle", "count", "expire", "store", "resave", "deliver",
                      "wrong", "drop", "accept", "save"}
         /\ c.pc = "idle" => c = NoCallYet
         /\ c.pc \in {"count", "expire", "store"} =>
              /\ c.contact \in Contacts /\ c.id \in OtpIds \cup {NoId}
              /\ c.todo \in Seq(Buckets)
              /\ c = [pc |-> c.pc, contact |-> c.contact, id |-> c.id, todo |-> c.todo]
         /\ c.pc \in {"resave", "save"} => c.id \in OtpIds /\ c.row \in Session
         /\ c.pc = "deliver" => c.id \in OtpIds /\ c.code \in Codes
         /\ c.pc \in {"wrong", "drop", "accept"} => c.id \in OtpIds
  BY SMTT(30) DEF Call, NoCallYet

(* The forms of a call that the steps leave behind.                         *)
LEMMA CallForms ==
  /\ NoCallYet \in Call
  /\ \A pc \in {"count", "expire", "store"}, c \in Contacts,
        i \in OtpIds \cup {NoId}, s \in Seq(Buckets) :
       [pc |-> pc, contact |-> c, id |-> i, todo |-> s] \in Call
  /\ \A i \in OtpIds, r \in Session : [pc |-> "resave", id |-> i, row |-> r] \in Call
  /\ \A i \in OtpIds, r \in Session : [pc |-> "save", id |-> i, row |-> r] \in Call
  /\ \A i \in OtpIds, k \in Codes : [pc |-> "deliver", id |-> i, code |-> k] \in Call
  /\ \A pc \in {"wrong", "drop", "accept"}, i \in OtpIds : [pc |-> pc, id |-> i] \in Call
  BY SMTT(30) DEF Call, NoCallYet

(* A request's next call keeps the invariants of the calls.                 *)
LEMMA TurnKeeps ==
  ASSUME CodesInv, NEW p \in OtpProcs, NEW c \in Call, Turn(p, c),
         HasBuckets(c), ResaveIsFresh(c)
  PROVE  /\ call' \in [OtpProcs -> Call]
         /\ \A q \in OtpProcs : HasBuckets(call'[q]) /\ ResaveIsFresh(call'[q])
<1>1. /\ call' \in [OtpProcs -> Call]
      /\ call'[p] = c
      /\ \A q \in OtpProcs \ {p} : call'[q] = call[q]
  BY DEF Turn, CodesInv, OtpTypeOK
<1> HIDE DEF HasBuckets
<1>2. QED
  BY <1>1 DEF CodesInv

(* The same of a request that ends.                                         *)
LEMMA DoneKeeps ==
  ASSUME CodesInv, NEW p \in OtpProcs, Done(p)
  PROVE  /\ call' \in [OtpProcs -> Call]
         /\ \A q \in OtpProcs : HasBuckets(call'[q]) /\ ResaveIsFresh(call'[q])
<1>1. NoCallYet \in Call /\ HasBuckets(NoCallYet) /\ ResaveIsFresh(NoCallYet)
  BY CallForms DEF NoCallYet, HasBuckets, ResaveIsFresh
<1>2. QED
  BY <1>1, TurnKeeps DEF Done

(* Writing and deleting a key.                                              *)
LEMMA KeysKept ==
  ASSUME OtpTypeOK, NEW i \in OtpIds
  PROVE  /\ \A row \in Session : Put(i, row) =>
              /\ DOMAIN otp' = DOMAIN otp \cup {i} /\ DOMAIN otp' \subseteq OtpIds
              /\ otp' \in [DOMAIN otp' -> Session]
              /\ otp'[i] = row /\ \A x \in DOMAIN otp \ {i} : otp'[x] = otp[x]
         /\ Drop(i) =>
              /\ DOMAIN otp' = DOMAIN otp \ {i} /\ DOMAIN otp' \subseteq OtpIds
              /\ otp' \in [DOMAIN otp' -> Session]
              /\ \A x \in DOMAIN otp \ {i} : otp'[x] = otp[x]
  BY DEF OtpTypeOK, Put, Drop

(* The buckets of a request are some and come in a sequence.                *)
LEMMA BucketsOfType ==
  ASSUME NEW c \in Contacts, NEW ips \in AtMostOne(Ips),
         NEW devices \in AtMostOne(Devices)
  PROVE  BucketsOf(c, ips, devices) \in Seq(Buckets) /\ BucketsOf(c, ips, devices) # <<>>
<1>1. \A S, T : T \in AtMostOne(S) =>
        \/ T = {} /\ Cardinality(T) = 0
        \/ \E x \in S : T = {x} /\ Cardinality(T) = 1
  BY FS_EmptySet, FS_Singleton DEF AtMostOne
<1> DEFINE first == <<<<"contact", c>>>>
           second == [n \in 1..Cardinality(ips) |-> <<"ip", CHOOSE i \in ips : TRUE>>]
           third == [n \in 1..Cardinality(devices) |->
                       <<"device", CHOOSE d \in devices : TRUE>>]
<1>2. first \in Seq(Buckets) /\ Len(first) = 1
  BY DEF Buckets
<1>3. second \in Seq(Buckets)
  BY <1>1 DEF Buckets
<1>4. third \in Seq(Buckets)
  BY <1>1 DEF Buckets
<1>5. BucketsOf(c, ips, devices) = first \o second \o third
  BY DEF BucketsOf
<1> HIDE DEF first, second, third
<1>6. first \o second \in Seq(Buckets) /\ Len(first \o second) = 1 + Len(second)
  BY ZenonT(60), <1>2, <1>3, ConcatProperties
<1>7. /\ (first \o second) \o third \in Seq(Buckets)
      /\ Len((first \o second) \o third) = 1 + Len(second) + Len(third)
  BY ZenonT(60), <1>4, <1>6, ConcatProperties
<1>8. Len(second) \in Nat /\ Len(third) \in Nat
  BY <1>3, <1>4
<1>9. QED
  BY <1>5, <1>7, <1>8, EmptySeq

(* A request that is at a bucket, and how it goes on from there.            *)
LEMMA AtBucket ==
  ASSUME NEW c \in Call, c.pc \in {"count", "expire"}, HasBuckets(c)
  PROVE  /\ c.contact \in Contacts /\ Head(c.todo) \in Buckets
         /\ NextBucket(c) \in Call /\ HasBuckets(NextBucket(c))
         /\ ResaveIsFresh(NextBucket(c))
         /\ [c EXCEPT !.pc = "expire"] \in Call
         /\ HasBuckets([c EXCEPT !.pc = "expire"])
         /\ ResaveIsFresh([c EXCEPT !.pc = "expire"])
<1> DEFINE rest == Tail(c.todo)
           pc == IF Len(c.todo) = 1 THEN "store" ELSE "count"
<1>1. /\ c.todo \in Seq(Buckets) /\ c.todo # <<>>
      /\ c.contact \in Contacts /\ c.id \in OtpIds \cup {NoId}
      /\ c = [pc |-> c.pc, contact |-> c.contact, id |-> c.id, todo |-> c.todo]
  BY CallKinds DEF HasBuckets
<1>2. /\ Head(c.todo) \in Buckets /\ rest \in Seq(Buckets)
      /\ Len(rest) = Len(c.todo) - 1 /\ Len(c.todo) \in Nat \ {0}
  BY <1>1, HeadTailProperties, EmptySeq
<1>3. pc = "count" => rest # <<>>
  <2>1. Len(c.todo) # 1 => Len(rest) # 0
    BY <1>2
  <2> HIDE DEF rest
  <2>2. QED
    BY <2>1, EmptySeq
<1>4. NextBucket(c) = [pc |-> pc, contact |-> c.contact, id |-> c.id, todo |-> rest]
  <2>1. NextBucket(c) = [c EXCEPT !.todo = rest, !.pc = pc]
    BY Zenon DEF NextBucket
  <2> HIDE DEF rest, pc
  <2>2. QED
    BY <1>1, <2>1
<1>5. [c EXCEPT !.pc = "expire"]
        = [pc |-> "expire", contact |-> c.contact, id |-> c.id, todo |-> c.todo]
  BY <1>1
<1> HIDE DEF rest, pc
<1>6. pc \in {"store", "count"}
  BY DEF pc
<1>7. QED
  BY <1>1, <1>2, <1>3, <1>4, <1>5, <1>6, CallForms DEF HasBuckets, ResaveIsFresh

(* Counting in a bucket.                                                    *)
LEMMA CountKeeps ==
  ASSUME CodesInv, NEW p \in OtpProcs, CountBucket(p)
  PROVE  CodesInv'
<1> USE DEF CodesInv, OtpTypeOK
<1> DEFINE c == call[p]
           b == Head(c.todo)
           n == bucket[b].count + 1
<1>1. c \in Call /\ c.pc = "count" /\ HasBuckets(c)
  BY DEF CountBucket
<1>2. b \in Buckets
  BY <1>1, AtBucket
<1>3. n \in 1..MaxCount /\ bucket[b].count \in 0..MaxCount
  BY <1>2 DEF CountBucket
<1>4. /\ bucket' = [bucket EXCEPT ![b].count = n]
      /\ \/ admitted' = [admitted EXCEPT ![b] = @ + 1]
         \/ UNCHANGED admitted
      /\ \/ Turn(p, [c EXCEPT !.pc = "expire"])
         \/ Turn(p, NextBucket(c))
         \/ Done(p)
      /\ UNCHANGED <<otp, sent, undelivered>>
  BY DEF CountBucket
<1>5. /\ call' \in [OtpProcs -> Call]
      /\ \A q \in OtpProcs : HasBuckets(call'[q]) /\ ResaveIsFresh(call'[q])
  <2> HIDE DEF CodesInv
  <2>1. QED
    BY <1>1, <1>4, AtBucket, TurnKeeps, DoneKeeps
<1> HIDE DEF c, b, n
<1>6. /\ bucket' \in [Buckets -> [count : 0..MaxCount, ttl : BOOLEAN]]
      /\ bucket'[b].count = n
      /\ \A x \in Buckets \ {b} : bucket'[x] = bucket[x]
  BY <1>2, <1>3, <1>4
<1>7. admitted' \in [Buckets -> Nat]
  BY <1>2, <1>4
<1>8. AdmittedIsCounted'
  BY <1>2, <1>4, <1>6 DEF AdmittedIsCounted, n
<1>9. QED
  BY <1>4, <1>5, <1>6, <1>7, <1>8

(* Every step keeps the types, ...                                          *)
LEMMA CodesNext ==
  ASSUME CodesInv, OtpNext
  PROVE  CodesInv'
<1>1. ASSUME NEW p \in OtpProcs, AskCode(p)
      PROVE  CodesInv'
  <2>1. PICK ips \in AtMostOne(Ips), devices \in AtMostOne(Devices),
             c \in Contacts, i \in OtpIds \cup {NoId} :
          Turn(p, [pc |-> "count", contact |-> c, id |-> i,
                   todo |-> BucketsOf(c, ips, devices)])
    BY <1>1 DEF AskCode, CodesInv, OtpTypeOK, Session
  <2> DEFINE r == [pc |-> "count", contact |-> c, id |-> i,
                   todo |-> BucketsOf(c, ips, devices)]
  <2>2. r \in Call /\ HasBuckets(r) /\ ResaveIsFresh(r)
    BY BucketsOfType, CallForms DEF HasBuckets, ResaveIsFresh
  <2> HIDE DEF r
  <2>3. /\ call' \in [OtpProcs -> Call]
        /\ \A q \in OtpProcs : HasBuckets(call'[q]) /\ ResaveIsFresh(call'[q])
    BY <2>1, <2>2, TurnKeeps DEF r
  <2>4. QED
    BY <1>1, <2>3 DEF AskCode, CodesInv, OtpTypeOK, AdmittedIsCounted
<1>2. ASSUME NEW p \in OtpProcs, EnterCode(p)
      PROVE  CodesInv'
  <2>1. PICK i \in OtpIds, pc \in {"accept", "wrong"} : Turn(p, [pc |-> pc, id |-> i])
    BY <1>2 DEF EnterCode, CodesInv, OtpTypeOK
  <2> DEFINE r == [pc |-> pc, id |-> i]
  <2>2. r \in Call /\ HasBuckets(r) /\ ResaveIsFresh(r)
    BY CallForms DEF HasBuckets, ResaveIsFresh
  <2> HIDE DEF r
  <2>3. /\ call' \in [OtpProcs -> Call]
        /\ \A q \in OtpProcs : HasBuckets(call'[q]) /\ ResaveIsFresh(call'[q])
    BY <2>1, <2>2, TurnKeeps DEF r
  <2>4. QED
    BY <1>2, <2>3 DEF EnterCode, CodesInv, OtpTypeOK, AdmittedIsCounted
<1>3. ASSUME NEW p \in OtpProcs, StartWindow(p)
      PROVE  CodesInv'
  <2>1. call[p] \in Call /\ call[p].pc = "expire" /\ HasBuckets(call[p])
    BY <1>3 DEF StartWindow, CodesInv, OtpTypeOK
  <2>2. /\ call' \in [OtpProcs -> Call]
        /\ \A q \in OtpProcs : HasBuckets(call'[q]) /\ ResaveIsFresh(call'[q])
    BY <1>3, <2>1, AtBucket, TurnKeeps DEF StartWindow
  <2>3. PICK b \in Buckets : bucket' = [bucket EXCEPT ![b].ttl = TRUE]
    BY <1>3, <2>1, AtBucket DEF StartWindow
  <2>4. /\ bucket' \in [Buckets -> [count : 0..MaxCount, ttl : BOOLEAN]]
        /\ \A x \in Buckets : bucket'[x].count = bucket[x].count
    BY <2>3 DEF CodesInv, OtpTypeOK
  <2>5. QED
    BY <1>3, <2>2, <2>4 DEF StartWindow, CodesInv, OtpTypeOK, AdmittedIsCounted
<1>4. ASSUME NEW p \in OtpProcs, StoreCode(p)
      PROVE  CodesInv'
  <2> DEFINE c == call[p]
  <2>1. /\ c \in Call /\ c.pc = "store"
        /\ c.contact \in Contacts /\ c.id \in OtpIds \cup {NoId}
    BY <1>4, CallKinds DEF StoreCode, CodesInv, OtpTypeOK
  <2>2. CASE c.id = NoId
    <3>1. PICK i \in OtpIds \ IdsInUse, k \in Codes :
            /\ Put(i, [contact |-> c.contact, code |-> k, attempts |-> 0])
            /\ sent' = [sent EXCEPT ![i] = {}]
            /\ undelivered' = [undelivered EXCEPT ![i] = {}]
            /\ Turn(p, [pc |-> "deliver", id |-> i, code |-> k])
      BY <1>4, <2>2 DEF StoreCode
    <3> DEFINE r == [pc |-> "deliver", id |-> i, code |-> k]
               row == [contact |-> c.contact, code |-> k, attempts |-> 0]
    <3>2. r \in Call /\ HasBuckets(r) /\ ResaveIsFresh(r) /\ row \in Session
      BY <2>1, CallForms DEF HasBuckets, ResaveIsFresh, Session
    <3> HIDE DEF r, row
    <3>3. /\ call' \in [OtpProcs -> Call]
          /\ \A q \in OtpProcs : HasBuckets(call'[q]) /\ ResaveIsFresh(call'[q])
      BY <3>1, <3>2, TurnKeeps DEF r
    <3>4. DOMAIN otp' \subseteq OtpIds /\ otp' \in [DOMAIN otp' -> Session]
      BY <3>1, <3>2, KeysKept DEF row, CodesInv
    <3>5. QED
      BY <1>4, <3>1, <3>3, <3>4
         DEF StoreCode, CodesInv, OtpTypeOK, AdmittedIsCounted
  <2>3. CASE c.id # NoId /\ c.id \in DOMAIN otp
    <3>1. PICK k \in Codes :
            Turn(p, [pc |-> "resave", id |-> c.id,
                     row |-> [otp[c.id] EXCEPT !.code = k, !.attempts = 0]])
      BY <1>4, <2>3 DEF StoreCode
    <3> DEFINE row == [otp[c.id] EXCEPT !.code = k, !.attempts = 0]
               r == [pc |-> "resave", id |-> c.id, row |-> row]
    <3>2. otp[c.id] \in Session /\ c.id \in OtpIds
      BY <2>3 DEF CodesInv, OtpTypeOK
    <3>3. row \in Session /\ row.attempts = 0
      BY <3>2 DEF Session
    <3> HIDE DEF row
    <3>4. r \in Call /\ HasBuckets(r) /\ ResaveIsFresh(r)
      BY <3>2, <3>3, CallForms DEF HasBuckets, ResaveIsFresh
    <3> HIDE DEF r
    <3>5. /\ call' \in [OtpProcs -> Call]
          /\ \A q \in OtpProcs : HasBuckets(call'[q]) /\ ResaveIsFresh(call'[q])
      BY <3>1, <3>4, TurnKeeps DEF r, row
    <3>6. QED
      BY <1>4, <2>3, <3>5 DEF StoreCode, CodesInv, OtpTypeOK, AdmittedIsCounted
  <2>4. CASE c.id # NoId /\ c.id \notin DOMAIN otp
    BY <1>4, <2>4, DoneKeeps
       DEF StoreCode, CodesInv, OtpTypeOK, AdmittedIsCounted
  <2>5. QED
    BY <2>2, <2>3, <2>4
<1>5. ASSUME NEW p \in OtpProcs, Resave(p) \/ SaveAttempts(p)
      PROVE  CodesInv'
  <2>1. call[p].id \in OtpIds /\ call[p].row \in Session
    BY <1>5, CallKinds DEF Resave, SaveAttempts, CodesInv, OtpTypeOK
  <2> DEFINE i == call[p].id
             k == call[p].row.code
             delivers == [pc |-> "deliver", id |-> i, code |-> k]
             drops == [pc |-> "drop", id |-> i]
  <2>2. /\ delivers \in Call /\ HasBuckets(delivers) /\ ResaveIsFresh(delivers)
        /\ drops \in Call /\ HasBuckets(drops) /\ ResaveIsFresh(drops)
    BY <2>1, CallForms DEF HasBuckets, ResaveIsFresh, Session
  <2>3. /\ Put(i, call[p].row)
        /\ Turn(p, delivers) \/ Turn(p, drops) \/ Done(p)
        /\ UNCHANGED <<bucket, admitted, sent, undelivered>>
    BY <1>5 DEF Resave, SaveAttempts
  <2> HIDE DEF i, delivers, drops
  <2>4. /\ call' \in [OtpProcs -> Call]
        /\ \A q \in OtpProcs : HasBuckets(call'[q]) /\ ResaveIsFresh(call'[q])
    BY <2>2, <2>3, TurnKeeps, DoneKeeps
  <2>5. DOMAIN otp' \subseteq OtpIds /\ otp' \in [DOMAIN otp' -> Session]
    BY <2>1, <2>3, KeysKept DEF i, CodesInv
  <2>6. QED
    BY <2>3, <2>4, <2>5 DEF CodesInv, OtpTypeOK, AdmittedIsCounted
<1>6. ASSUME NEW p \in OtpProcs, Deliver(p) \/ DeliverFails(p)
      PROVE  CodesInv'
  <2>1. call[p].id \in OtpIds /\ call[p].code \in Codes
    BY <1>6, CallKinds DEF Deliver, DeliverFails, CodesInv, OtpTypeOK
  <2>2. /\ sent' \in [OtpIds -> SUBSET Codes]
        /\ undelivered' \in [OtpIds -> SUBSET Codes]
    BY <1>6, <2>1 DEF Deliver, DeliverFails, CodesInv, OtpTypeOK
  <2>3. QED
    BY <1>6, <2>2, DoneKeeps
       DEF Deliver, DeliverFails, CodesInv, OtpTypeOK, AdmittedIsCounted
<1>7. ASSUME NEW p \in OtpProcs, AcceptCode(p) \/ DropExhausted(p)
      PROVE  CodesInv'
  <2>1. call[p].id \in OtpIds
    BY <1>7, CallKinds DEF AcceptCode, DropExhausted, CodesInv, OtpTypeOK
  <2>2. DOMAIN otp' \subseteq OtpIds /\ otp' \in [DOMAIN otp' -> Session]
    BY <1>7, <2>1, KeysKept DEF AcceptCode, DropExhausted, CodesInv
  <2>3. QED
    BY <1>7, <2>2, DoneKeeps
       DEF AcceptCode, DropExhausted, CodesInv, OtpTypeOK, AdmittedIsCounted
<1>8. ASSUME NEW p \in OtpProcs, ReadAttempts(p)
      PROVE  CodesInv'
  <2> DEFINE i == call[p].id
             row == [otp[i] EXCEPT !.attempts = @ + 1]
             r == [pc |-> "save", id |-> i, row |-> row]
  <2>1. i \in OtpIds
    BY <1>8, CallKinds DEF ReadAttempts, CodesInv, OtpTypeOK
  <2>2. CASE i \in DOMAIN otp
    <3>1. row \in Session
      BY <2>2 DEF CodesInv, OtpTypeOK, Session
    <3>2. Turn(p, r)
      BY <1>8, <2>2 DEF ReadAttempts
    <3> HIDE DEF row
    <3>3. r \in Call /\ HasBuckets(r) /\ ResaveIsFresh(r)
      BY <2>1, <3>1, CallForms DEF HasBuckets, ResaveIsFresh
    <3> HIDE DEF r
    <3>4. /\ call' \in [OtpProcs -> Call]
          /\ \A q \in OtpProcs : HasBuckets(call'[q]) /\ ResaveIsFresh(call'[q])
      BY <3>2, <3>3, TurnKeeps
    <3>5. QED
      BY <1>8, <3>4 DEF ReadAttempts, CodesInv, OtpTypeOK, AdmittedIsCounted
  <2>3. CASE i \notin DOMAIN otp
    BY <1>8, <2>3, DoneKeeps
       DEF ReadAttempts, CodesInv, OtpTypeOK, AdmittedIsCounted
  <2>4. QED
    BY <2>2, <2>3
<1>9. ASSUME NEW i \in OtpIds, ExpireCode(i)
      PROVE  CodesInv'
  <2>1. DOMAIN otp' \subseteq OtpIds /\ otp' \in [DOMAIN otp' -> Session]
    BY <1>9, KeysKept DEF ExpireCode, CodesInv
  <2>2. QED
    BY <1>9, <2>1 DEF ExpireCode, CodesInv, OtpTypeOK, AdmittedIsCounted
<1>10. ASSUME NEW b \in Buckets, ExpireBucket(b)
       PROVE  CodesInv'
  <2>1. bucket' \in [Buckets -> [count : 0..MaxCount, ttl : BOOLEAN]]
    BY <1>10, OtpAssumption DEF ExpireBucket, Fresh, CodesInv, OtpTypeOK
  <2>2. admitted' \in [Buckets -> Nat] /\ AdmittedIsCounted'
    BY <1>10, OtpAssumption
       DEF ExpireBucket, Fresh, CodesInv, OtpTypeOK, AdmittedIsCounted
  <2>3. QED
    BY <1>10, <2>1, <2>2 DEF ExpireBucket, CodesInv, OtpTypeOK
<1>11. ASSUME NEW p \in OtpProcs, StopCall(p)
       PROVE  CodesInv'
  BY <1>11, DoneKeeps DEF StopCall, CodesInv, OtpTypeOK, AdmittedIsCounted
<1>12. QED
  BY <1>1, <1>2, <1>3, <1>4, <1>5, <1>6, <1>7, <1>8, <1>9, <1>10, <1>11, CountKeeps
     DEF OtpNext, CallStep

LEMMA CodesStart == OtpInit => CodesInv
<1> SUFFICES ASSUME OtpInit PROVE CodesInv
  OBVIOUS
<1>1. OtpTypeOK
  BY OtpAssumption, CallForms DEF OtpInit, OtpTypeOK, Fresh
<1>2. AdmittedIsCounted
  BY DEF OtpInit, AdmittedIsCounted, Fresh
<1>3. QED
  BY <1>1, <1>2 DEF CodesInv, OtpInit, HasBuckets, ResaveIsFresh, NoCallYet

LEMMA CodesStutter == CodesInv /\ UNCHANGED otpVars => CodesInv'
  BY DEF CodesInv, OtpTypeOK, AdmittedIsCounted, HasBuckets, ResaveIsFresh, otpVars

(* A request at its buckets has one to count, and a bucket admits no more   *)
(* than it counts.                                                          *)
LEMMA CodesAreKept == OtpSpec => []CodesInv
<1>1. CodesInv /\ [OtpNext]_otpVars => CodesInv'
  BY CodesNext, CodesStutter
<1>2. QED
  BY CodesStart, <1>1, PTL DEF OtpSpec

(* Sessions, buckets and requests keep their types, and no counter passes   *)
(* its bound.                                                               *)
THEOREM CodesTypeCorrect == OtpSpec => []OtpTypeOK
<1>1. CodesInv => OtpTypeOK
  BY DEF CodesInv
<1>2. QED
  BY CodesAreKept, <1>1, PTL

(* A session with too many attempts is dropped by the request that reached  *)
(* the cap, as long as requests run to their end, although the attempts of  *)
(* concurrent requests overwrite each other.                                *)
THEOREM GuessedCodesGo ==
  ASSUME ~OtpCrashes
  PROVE  OtpSpec => []ExhaustedIsDropped
<1> USE DEF ExhaustedIsDropped
<1>1. OtpInit => ExhaustedIsDropped
  BY DEF OtpInit
<1>2. ASSUME CodesInv, ExhaustedIsDropped, OtpNext
      PROVE  ExhaustedIsDropped'
  <2> USE <1>2 DEF CodesInv
  <2>1. ASSUME NEW p \in OtpProcs, AskCode(p) \/ EnterCode(p) \/ CountBucket(p)
                                     \/ StartWindow(p) \/ Deliver(p) \/ DeliverFails(p)
                                     \/ ReadAttempts(p)
        PROVE  ExhaustedIsDropped'
    <3>1. call[p].pc # "drop" /\ \A q \in OtpProcs \ {p} : call'[q] = call[q]
      BY SMTT(60), <2>1 DEF AskCode, EnterCode, CountBucket, StartWindow, Deliver,
                  DeliverFails, ReadAttempts,
                  Turn, Done, OtpTypeOK, NoCallYet
    <3>2. UNCHANGED otp
      BY <2>1 DEF AskCode, EnterCode, CountBucket, StartWindow, Deliver,
                  DeliverFails, ReadAttempts
    <3>3. QED
      BY <3>1, <3>2
  <2>2. ASSUME NEW p \in OtpProcs, StoreCode(p)
        PROVE  ExhaustedIsDropped'
    <3>1. call[p].pc # "drop" /\ \A q \in OtpProcs \ {p} : call'[q] = call[q]
      BY ZenonT(60), <2>2 DEF StoreCode, Turn, Done, OtpTypeOK
    <3>2. CASE call[p].id = NoId
      <4>1. PICK i \in OtpIds, k \in Codes :
              Put(i, [contact |-> call[p].contact, code |-> k, attempts |-> 0])
        BY <2>2, <3>2 DEF StoreCode
      <4>2. /\ call[p].contact \in Contacts /\ MaxVerifyAttempts \in Nat \ {0}
        BY <2>2, CallKinds, OtpAssumption DEF StoreCode, OtpTypeOK
      <4>3. /\ DOMAIN otp' = DOMAIN otp \cup {i} /\ otp'[i].attempts = 0
            /\ \A x \in DOMAIN otp \ {i} : otp'[x] = otp[x]
        BY <4>1 DEF Put
      <4>4. QED
        BY <3>1, <4>2, <4>3
    <3>3. CASE call[p].id # NoId
      BY ZenonT(60), <2>2, <3>1, <3>3 DEF StoreCode
    <3>4. QED
      BY <3>2, <3>3
  <2>3. ASSUME NEW p \in OtpProcs, Resave(p) \/ SaveAttempts(p)
        PROVE  ExhaustedIsDropped'
    <3> DEFINE i == call[p].id
               row == call[p].row
    <3>1. /\ call[p].pc # "drop" /\ \A q \in OtpProcs \ {p} : call'[q] = call[q]
          /\ Put(i, row)
      BY <2>3 DEF Resave, SaveAttempts, Turn, Done, OtpTypeOK
    <3>2. /\ DOMAIN otp' = DOMAIN otp \cup {i} /\ otp'[i] = row
          /\ \A x \in DOMAIN otp \ {i} : otp'[x] = otp[x]
      BY <3>1 DEF Put
    <3>3. row.attempts >= MaxVerifyAttempts => call'[p] = [pc |-> "drop", id |-> i]
      BY <2>3, OtpAssumption
         DEF Resave, SaveAttempts, ResaveIsFresh, Turn, OtpTypeOK
    <3> HIDE DEF i, row
    <3>4. QED
      BY <3>1, <3>2, <3>3
  <2>4. ASSUME NEW p \in OtpProcs, AcceptCode(p) \/ DropExhausted(p)
        PROVE  ExhaustedIsDropped'
    <3> DEFINE i == call[p].id
    <3>1. /\ \A q \in OtpProcs \ {p} : call'[q] = call[q]
          /\ Drop(i)
      BY <2>4 DEF AcceptCode, DropExhausted, Turn, Done, OtpTypeOK
    <3>2. /\ DOMAIN otp' = DOMAIN otp \ {i}
          /\ \A x \in DOMAIN otp \ {i} : otp'[x] = otp[x]
      BY <3>1 DEF Drop
    <3>3. QED
      BY <3>1, <3>2
  <2>5. ASSUME NEW i \in OtpIds, ExpireCode(i)
        PROVE  ExhaustedIsDropped'
    BY <2>5 DEF ExpireCode, Drop
  <2>6. ASSUME NEW b \in Buckets, ExpireBucket(b)
        PROVE  ExhaustedIsDropped'
    BY <2>6 DEF ExpireBucket
  <2>7. QED
    BY <1>2, <2>1, <2>2, <2>3, <2>4, <2>5, <2>6 DEF OtpNext, CallStep, StopCall
<1>3. CodesInv /\ ExhaustedIsDropped /\ [OtpNext]_otpVars => ExhaustedIsDropped'
  BY <1>2 DEF otpVars
<1>4. QED
  BY <1>1, <1>3, CodesAreKept, PTL DEF OtpSpec

(* Once nobody is at work on a session, its code is one that was sent or    *)
(* whose delivery failed, as long as no process stops in between.           *)
THEOREM CodesAreDispatched ==
  ASSUME ~OtpCrashes
  PROVE  OtpSpec => []StoredCodeWasDispatched
<1>1. OtpInit => CodesAreBacked
  BY DEF OtpInit, CodesAreBacked, NoCallYet
<1>2. ASSUME CodesInv, CodesAreBacked, OtpNext
      PROVE  CodesAreBacked'
  <2> USE <1>2 DEF CodesInv
  <2>1. ASSUME NEW p \in OtpProcs, AskCode(p) \/ EnterCode(p) \/ CountBucket(p)
                                     \/ StartWindow(p)
        PROVE  CodesAreBacked'
    <3>1. /\ call[p].pc # "deliver" /\ call'[p].pc # "save"
          /\ \A q \in OtpProcs \ {p} : call'[q] = call[q]
      <4>1. CASE AskCode(p) \/ EnterCode(p)
        BY <4>1 DEF AskCode, EnterCode, Turn, OtpTypeOK, NoCallYet
      <4>2. CASE StartWindow(p) \/ CountBucket(p)
        <5>1. call[p] \in Call /\ call[p].pc \in {"count", "expire"} /\ HasBuckets(call[p])
          BY <4>2 DEF StartWindow, CountBucket, OtpTypeOK
        <5>2. call'[p] \in {NextBucket(call[p]), [call[p] EXCEPT !.pc = "expire"],
                            NoCallYet}
          BY <4>2 DEF StartWindow, CountBucket, Turn, Done, OtpTypeOK
        <5>3. NextBucket(call[p]).pc # "save" /\ [call[p] EXCEPT !.pc = "expire"].pc # "save"
          BY <5>1, CallKinds DEF NextBucket
        <5>4. call'[p].pc # "save"
          <6>1. NoCallYet.pc # "save"
            BY DEF NoCallYet
          <6>2. QED
            BY Zenon, <5>2, <5>3, <6>1
        <5>5. \A q \in OtpProcs \ {p} : call'[q] = call[q]
          BY <4>2 DEF StartWindow, CountBucket, Turn, Done, OtpTypeOK
        <5>6. QED
          BY <5>1, <5>4, <5>5
      <4>3. QED
        BY <2>1, <4>1, <4>2
    <3>2. UNCHANGED <<otp, sent, undelivered>>
      BY <2>1 DEF AskCode, EnterCode, CountBucket, StartWindow
    <3>3. QED
      BY <3>1, <3>2 DEF CodesAreBacked, Backed
  <2>2. ASSUME NEW p \in OtpProcs, StoreCode(p)
        PROVE  CodesAreBacked'
    <3>1. call[p].pc = "store" /\ \A q \in OtpProcs \ {p} : call'[q] = call[q]
      BY <2>2 DEF StoreCode, Turn, Done, OtpTypeOK
    <3>2. CASE call[p].id = NoId
      <4>1. PICK i \in OtpIds \ IdsInUse, k \in Codes :
              /\ Put(i, [contact |-> call[p].contact, code |-> k, attempts |-> 0])
              /\ sent' = [sent EXCEPT ![i] = {}]
              /\ undelivered' = [undelivered EXCEPT ![i] = {}]
              /\ Turn(p, [pc |-> "deliver", id |-> i, code |-> k])
        BY <2>2, <3>2 DEF StoreCode
      <4>2. /\ DOMAIN otp' = DOMAIN otp \cup {i} /\ otp'[i].code = k
            /\ \A x \in DOMAIN otp : x # i /\ otp'[x] = otp[x]
        BY <4>1 DEF Put, IdsInUse
      <4>3. \A q \in OtpProcs : call[q].pc = "save" => call[q].id # i
        <5>1. \A q \in OtpProcs : call[q].pc = "save" => "id" \in DOMAIN call[q]
          BY DEF OtpTypeOK, Call
        <5>2. QED
          BY <4>1, <5>1 DEF IdsInUse
      <4>4. \A x \in OtpIds \ {i} : /\ sent'[x] = sent[x]
                                    /\ undelivered'[x] = undelivered[x]
        BY <4>1 DEF OtpTypeOK
      <4>5. call'[p] = [pc |-> "deliver", id |-> i, code |-> k]
        BY <4>1 DEF Turn, OtpTypeOK
      <4>6. \A x \in OtpIds \ {i}, c \in Codes : Backed(x, c) => Backed(x, c)'
        BY <3>1, <4>4 DEF Backed
      <4>7. \A x \in DOMAIN otp : otp[x].code \in Codes /\ x \in OtpIds
        BY DEF OtpTypeOK, Session
      <4>8. \A q \in OtpProcs : call[q].pc = "save" =>
              call[q].id \in OtpIds /\ call[q].row.code \in Codes
        BY CallKinds DEF OtpTypeOK, Session
      <4>9. Backed(i, k)'
        BY <4>5 DEF Backed
      <4>10. \A x \in DOMAIN otp' : Backed(x, otp[x].code)'
        BY <4>2, <4>6, <4>7, <4>9 DEF CodesAreBacked
      <4>11. \A q \in OtpProcs : call'[q].pc = "save" =>
               Backed(call[q].id, call[q].row.code)'
        BY <3>1, <4>3, <4>5, <4>6, <4>8 DEF CodesAreBacked
      <4>12. QED
        BY <4>10, <4>11 DEF CodesAreBacked
    <3>3. CASE call[p].id # NoId
      <4>1. UNCHANGED <<otp, sent, undelivered>>
        BY <2>2, <3>3 DEF StoreCode
      <4>2. call'[p].pc # "save"
        <5>1. CASE call[p].id \in DOMAIN otp
          <6>1. PICK k \in Codes :
                  Turn(p, [pc |-> "resave", id |-> call[p].id,
                           row |-> [otp[call[p].id] EXCEPT !.code = k, !.attempts = 0]])
            BY <2>2, <3>3, <5>1 DEF StoreCode
          <6>2. QED
            BY <6>1 DEF Turn, OtpTypeOK
        <5>2. CASE call[p].id \notin DOMAIN otp
          <6>1. Done(p)
            BY <2>2, <3>3, <5>2 DEF StoreCode
          <6>2. QED
            BY <6>1 DEF Turn, Done, NoCallYet, OtpTypeOK
        <5>3. QED
          BY <5>1, <5>2
      <4>3. \A x, c : Backed(x, c) => Backed(x, c)'
        BY <3>1, <4>1 DEF Backed
      <4>4. QED
        BY <3>1, <4>1, <4>2, <4>3 DEF CodesAreBacked
    <3>4. QED
      BY <3>2, <3>3
  <2>3. ASSUME NEW p \in OtpProcs, Resave(p) \/ SaveAttempts(p)
        PROVE  CodesAreBacked'
    <3>1. PICK i, row : i = call[p].id /\ row = call[p].row
      OBVIOUS
    <3>2. /\ call[p].pc # "deliver" /\ call'[p].pc # "save"
          /\ \A q \in OtpProcs \ {p} : call'[q] = call[q]
          /\ UNCHANGED <<sent, undelivered>>
      BY <2>3 DEF Resave, SaveAttempts, Turn, Done, NoCallYet, OtpTypeOK
    <3>3. /\ DOMAIN otp' = DOMAIN otp \cup {i} /\ otp'[i] = row
          /\ \A x \in DOMAIN otp \ {i} : otp'[x] = otp[x]
      BY <2>3, <3>1 DEF Resave, SaveAttempts, Put
    <3>4. \A x, c : Backed(x, c) => Backed(x, c)'
      BY <3>2 DEF Backed
    <3>5. Backed(i, row.code)'
      <4>1. CASE Resave(p)
        <5>1. call'[p] = [pc |-> "deliver", id |-> i, code |-> row.code]
          BY <3>1, <4>1 DEF Resave, Turn, OtpTypeOK
        <5>2. QED
          BY <5>1 DEF Backed
      <4>2. CASE SaveAttempts(p)
        BY <3>1, <3>4, <4>2 DEF SaveAttempts, CodesAreBacked
      <4>3. QED
        BY <2>3, <4>1, <4>2
    <3>6. QED
      BY <3>2, <3>3, <3>4, <3>5 DEF CodesAreBacked
  <2>4. ASSUME NEW p \in OtpProcs, Deliver(p) \/ DeliverFails(p)
        PROVE  CodesAreBacked'
    <3>1. call[p].id \in OtpIds
      BY <2>4, CallKinds DEF Deliver, DeliverFails, OtpTypeOK
    <3>2. /\ call'[p].pc = "idle" /\ \A q \in OtpProcs \ {p} : call'[q] = call[q]
          /\ call[p].code \in sent'[call[p].id] \cup undelivered'[call[p].id]
          /\ \A x \in OtpIds : /\ sent[x] \subseteq sent'[x]
                               /\ undelivered[x] \subseteq undelivered'[x]
          /\ UNCHANGED otp
      BY <2>4, <3>1 DEF Deliver, DeliverFails, Turn, Done, NoCallYet, OtpTypeOK
    <3>3. \A x \in OtpIds, c \in Codes : Backed(x, c) => Backed(x, c)'
      BY <3>2 DEF Backed
    <3>4. \A x \in DOMAIN otp : otp[x].code \in Codes /\ x \in OtpIds
      BY DEF OtpTypeOK, Session
    <3>5. \A q \in OtpProcs : call[q].pc = "save" =>
            call[q].id \in OtpIds /\ call[q].row.code \in Codes
      BY CallKinds DEF OtpTypeOK, Session
    <3>6. QED
      BY <3>2, <3>3, <3>4, <3>5 DEF CodesAreBacked
  <2>5. ASSUME NEW p \in OtpProcs, AcceptCode(p) \/ DropExhausted(p)
        PROVE  CodesAreBacked'
    <3>1. /\ call[p].pc # "deliver" /\ call'[p].pc = "idle"
          /\ \A q \in OtpProcs \ {p} : call'[q] = call[q]
          /\ Drop(call[p].id) /\ UNCHANGED <<sent, undelivered>>
      BY <2>5 DEF AcceptCode, DropExhausted, Turn, Done, NoCallYet, OtpTypeOK
    <3>2. \A x, c : Backed(x, c) => Backed(x, c)'
      BY <3>1 DEF Backed
    <3>3. QED
      BY <3>1, <3>2 DEF CodesAreBacked, Drop
  <2>6. ASSUME NEW p \in OtpProcs, ReadAttempts(p)
        PROVE  CodesAreBacked'
    <3>1. /\ call[p].pc # "deliver"
          /\ \A q \in OtpProcs \ {p} : call'[q] = call[q]
          /\ UNCHANGED <<otp, sent, undelivered>>
      BY <2>6 DEF ReadAttempts, Turn, Done, OtpTypeOK
    <3>2. \A x, c : Backed(x, c) => Backed(x, c)'
      BY <3>1 DEF Backed
    <3>3. call'[p].pc = "save" => Backed(call'[p].id, call'[p].row.code)
      <4>1. CASE call[p].id \in DOMAIN otp
        <5>1. call'[p] = [pc |-> "save", id |-> call[p].id,
                          row |-> [otp[call[p].id] EXCEPT !.attempts = @ + 1]]
          BY <2>6, <4>1 DEF ReadAttempts, Turn, OtpTypeOK
        <5>2. otp[call[p].id] \in Session
          BY <4>1 DEF OtpTypeOK
        <5>3. call'[p].id = call[p].id /\ call'[p].row.code = otp[call[p].id].code
          BY <5>1, <5>2 DEF Session
        <5>4. QED
          BY <4>1, <5>3 DEF CodesAreBacked
      <4>2. CASE call[p].id \notin DOMAIN otp
        BY <2>6, <4>2 DEF ReadAttempts, Turn, Done, NoCallYet, OtpTypeOK
      <4>3. QED
        BY <4>1, <4>2
    <3>4. PICK i, c : i = call'[p].id /\ c = call'[p].row.code
      OBVIOUS
    <3>5. call'[p].pc = "save" => Backed(i, c)'
      BY <3>2, <3>3, <3>4
    <3>6. QED
      BY <3>1, <3>2, <3>4, <3>5 DEF CodesAreBacked
  <2>7. ASSUME NEW i \in OtpIds, ExpireCode(i)
        PROVE  CodesAreBacked'
    BY <2>7 DEF ExpireCode, Drop, CodesAreBacked, Backed
  <2>8. ASSUME NEW b \in Buckets, ExpireBucket(b)
        PROVE  CodesAreBacked'
    BY <2>8 DEF ExpireBucket, CodesAreBacked, Backed
  <2>9. QED
    BY <1>2, <2>1, <2>2, <2>3, <2>4, <2>5, <2>6, <2>7, <2>8
       DEF OtpNext, CallStep, StopCall
<1>3. CodesInv /\ CodesAreBacked /\ [OtpNext]_otpVars => CodesAreBacked'
  BY <1>2 DEF otpVars, CodesAreBacked, Backed
<1>4. CodesInv /\ CodesAreBacked => StoredCodeWasDispatched
  BY DEF CodesInv, CodesAreBacked, Backed, StoredCodeWasDispatched, NoCallYet
<1>5. QED
  BY <1>1, <1>3, <1>4, CodesAreKept, PTL DEF OtpSpec

(* The largest limit of a bucket is one.                                    *)
LEMMA LargestIsLargest ==
  ASSUME NEW b \in Buckets, NEW c \in Contacts
  PROVE  LargestLimit(b) \in Nat /\ LimitOf(b, c) <= LargestLimit(b)
<1> DEFINE limits == {LimitOf(b, x) : x \in Contacts}
<1>1. limits \subseteq {ContactMax, IpMax, SmsIpMax, DeviceMax} /\ LimitOf(b, c) \in limits
  BY DEF LimitOf, Buckets
<1>2. {ContactMax, IpMax, SmsIpMax, DeviceMax} \subseteq Nat
  BY OtpAssumption
<1> HIDE DEF limits
<1>3. \E m \in limits : \A n \in limits : n <= m
  BY <1>1, <1>2
<1>4. LargestLimit(b) \in limits /\ \A n \in limits : n <= LargestLimit(b)
  BY <1>3 DEF LargestLimit, limits
<1>5. QED
  BY <1>1, <1>2, <1>4

(* The safety of LimitIsAWindow: whatever the interleaving, and whether     *)
(* requests stop or not, each step of the three buckets admits one request  *)
(* below the limit, opens a new window, or admits nothing.                  *)
THEOREM LimitsHold ==
  OtpSpec => Window!WindowInit /\ [][Window!WindowNext]_admitted
<1>1. OtpInit => Window!WindowInit
  BY SMTT(60) DEF OtpInit, Window!WindowInit
<1>2. ASSUME CodesInv, [OtpNext]_otpVars
      PROVE  [Window!WindowNext]_admitted
  <2> USE <1>2 DEF CodesInv
  <2>1. ASSUME NEW p \in OtpProcs, CountBucket(p)
        PROVE  [Window!WindowNext]_admitted
    <3> DEFINE b == Head(call[p].todo)
    <3>1. call[p].contact \in Contacts /\ b \in Buckets
      BY <2>1, AtBucket DEF CountBucket, OtpTypeOK
    <3>2. /\ LargestLimit(b) \in Nat
          /\ LimitOf(b, call[p].contact) <= LargestLimit(b)
          /\ LimitOf(b, call[p].contact) \in Nat
      BY <3>1, LargestIsLargest, OtpAssumption DEF LimitOf, Buckets
    <3>3. \/ UNCHANGED admitted
          \/ /\ admitted' = [admitted EXCEPT ![b] = @ + 1]
             /\ bucket[b].count + 1 <= LimitOf(b, call[p].contact)
      BY <2>1 DEF CountBucket
    <3> HIDE DEF b
    <3>4. admitted[b] <= bucket[b].count /\ admitted[b] \in Nat /\ bucket[b].count \in Nat
      BY <3>1 DEF AdmittedIsCounted, OtpTypeOK
    <3>5. CASE UNCHANGED admitted
      BY <3>5
    <3>6. CASE /\ admitted' = [admitted EXCEPT ![b] = @ + 1]
               /\ bucket[b].count + 1 <= LimitOf(b, call[p].contact)
      <4>1. admitted[b] < [x \in Buckets |-> LargestLimit(x)][b]
        BY <3>1, <3>2, <3>4, <3>6
      <4>2. Window!Admit(b)
        BY <3>6, <4>1 DEF Window!Admit
      <4>3. QED
        BY <3>1, <4>2 DEF Window!WindowNext
    <3>7. QED
      BY <3>3, <3>5, <3>6
  <2>2. ASSUME NEW b \in Buckets, ExpireBucket(b)
        PROVE  [Window!WindowNext]_admitted
    <3>1. CASE admitted[b] > 0
      BY <2>2, <3>1 DEF ExpireBucket, Window!WindowNext, Window!Restart
    <3>2. CASE admitted[b] = 0
      BY <2>2, <3>2 DEF ExpireBucket, OtpTypeOK
    <3>3. admitted[b] \in Nat
      BY DEF OtpTypeOK
    <3>4. QED
      BY <3>1, <3>2, <3>3
  <2>3. CASE UNCHANGED admitted
    BY <2>3
  <2>4. QED
    BY <1>2, <2>1, <2>2, <2>3
       DEF OtpNext, CallStep, AskCode, EnterCode, StartWindow, StoreCode, Resave, Deliver,
           DeliverFails, AcceptCode, ReadAttempts, SaveAttempts, DropExhausted, ExpireCode, StopCall, otpVars
<1>3. QED
  BY <1>1, <1>2, CodesAreKept, PTL DEF OtpSpec

-----------------------------------------------------------------------------
(* The recompute of a rating.                                               *)

(* At most one worker holds the job, which is active then; nobody has seen, *)
(* and the shop does not count, more reviews than there are; and while no   *)
(* worker has written that had lost its job, the holder that is about to    *)
(* write has seen at least the reviews that the shop counts.                *)
RatingsInv ==
  /\ reviews \in Seq(Stars)
  /\ rated.count \in 0..Len(reviews)
  /\ DOMAIN ratingJob = {"state", "tries", "stalls"}
  /\ raters \in [Raters -> [pc : {"idle", "query", "update", "finish"},
                            holds : BOOLEAN, seen : Seq(Stars)]]
  /\ \A w \in Raters :
       /\ Len(raters[w].seen) <= Len(reviews)
       /\ raters[w].holds => ratingJob.state = "active"
       /\ raters[w].holds /\ raters[w].pc = "update" /\ ~late
            => rated.count <= Len(raters[w].seen)
  /\ \A v, w \in Raters : raters[v].holds /\ raters[w].holds => v = w
  /\ late \in BOOLEAN

LEMMA RatingsStart == RatingsInit => RatingsInv
<1> SUFFICES ASSUME RatingsInit PROVE RatingsInv
  OBVIOUS
<1>1. RestingRater \in [pc : {"idle", "query", "update", "finish"},
                        holds : BOOLEAN, seen : Seq(Stars)]
  BY EmptySeq DEF RestingRater
<1>2. ~RestingRater.holds /\ RestingRater.seen = <<>>
  BY DEF RestingRater
<1>3. DOMAIN ratingJob = {"state", "tries", "stalls"}
  BY DEF RatingsInit, NoRatingJob
<1>4. Len(reviews) = 0 /\ reviews \in Seq(Stars) /\ rated.count = 0
  BY EmptySeq DEF RatingsInit
<1>5. /\ raters \in [Raters -> [pc : {"idle", "query", "update", "finish"},
                               holds : BOOLEAN, seen : Seq(Stars)]]
      /\ \A w \in Raters : ~raters[w].holds /\ Len(raters[w].seen) = 0
  BY <1>1, <1>2, EmptySeq DEF RatingsInit
<1>6. late \in BOOLEAN
  BY DEF RatingsInit
<1>7. rated.count \in 0..Len(reviews)
  BY <1>4
<1>8. \A w \in Raters : /\ Len(raters[w].seen) <= Len(reviews)
                       /\ ~raters[w].holds
  BY <1>4, <1>5
<1>9. QED
  BY <1>3, <1>4, <1>5, <1>6, <1>7, <1>8 DEF RatingsInv

(* A worker that has no job, or lost it, disturbs nothing.                  *)
LEMMA RestingKeeps ==
  ASSUME RatingsInv, NEW w \in Raters, raters' = [raters EXCEPT ![w] = RestingRater],
         DOMAIN ratingJob' = {"state", "tries", "stalls"},
         raters[w].holds \/ ratingJob' = ratingJob,
         UNCHANGED <<reviews, rated, late>>
  PROVE  RatingsInv'
<1>1. /\ raters'[w] = RestingRater /\ \A v \in Raters \ {w} : raters'[v] = raters[v]
      /\ raters' \in [Raters -> [pc : {"idle", "query", "update", "finish"},
                                 holds : BOOLEAN, seen : Seq(Stars)]]
  BY EmptySeq DEF RatingsInv, RestingRater
<1>2. ~RestingRater.holds /\ Len(RestingRater.seen) = 0
  BY EmptySeq DEF RestingRater
<1>3. Len(reviews) \in Nat
  BY LenProperties DEF RatingsInv
<1>4. QED
  BY <1>1, <1>2, <1>3 DEF RatingsInv

LEMMA RatingsNextKeeps ==
  ASSUME RatingsInv, RatingsNext
  PROVE  RatingsInv' /\ (rated'.count < rated.count => late')
<1> USE DEF RatingsInv
<1>0. Len(reviews) \in Nat /\ \A w \in Raters : Len(raters[w].seen) \in Nat
  BY LenProperties
<1>1. CASE AddReview
  <2>1. reviews' \in Seq(Stars) /\ Len(reviews') = Len(reviews) + 1
    BY <1>1 DEF AddReview
  <2>2. QED
    BY <1>0, <1>1, <2>1 DEF AddReview
<1>2. CASE WriterStops
  BY <1>0, <1>2 DEF WriterStops
<1>3. CASE EnqueueShopRatingRecompute
  <2>1. /\ ratingJob.state = "active" => ratingJob' = ratingJob
        /\ DOMAIN ratingJob' = {"state", "tries", "stalls"}
    BY <1>3 DEF EnqueueShopRatingRecompute, NoRatingJob
  <2>2. QED
    BY <1>0, <1>3, <2>1 DEF EnqueueShopRatingRecompute
<1>4. CASE StallRating
  <2>1. DOMAIN ratingJob' = {"state", "tries", "stalls"}
    BY <1>4 DEF StallRating
  <2>2. \A w \in Raters : /\ raters'[w] \in [pc : {"idle", "query", "update", "finish"},
                                             holds : BOOLEAN, seen : Seq(Stars)]
                          /\ ~raters'[w].holds /\ raters'[w].seen = raters[w].seen
    BY <1>4 DEF StallRating
  <2>3. raters' = [w \in Raters |-> raters'[w]]
    BY <1>4 DEF StallRating
  <2>4. QED
    BY <1>0, <1>4, <2>1, <2>2, <2>3 DEF StallRating
<1>5. CASE DropFailedRating
  <2>1. \A w \in Raters : ~raters[w].holds
    BY <1>5 DEF DropFailedRating
  <2>2. DOMAIN ratingJob' = {"state", "tries", "stalls"}
    BY <1>5 DEF DropFailedRating, NoRatingJob
  <2>3. QED
    BY <1>0, <1>5, <2>1, <2>2 DEF DropFailedRating
<1>6. ASSUME NEW w \in Raters, TakeRatingJob(w)
      PROVE  RatingsInv' /\ (rated'.count < rated.count => late')
  <2>1. \A v \in Raters : ~raters[v].holds
    BY <1>6 DEF TakeRatingJob
  <2>2. /\ raters'[w] = [pc |-> "query", holds |-> TRUE, seen |-> <<>>]
        /\ \A v \in Raters \ {w} : raters'[v] = raters[v]
        /\ raters' \in [Raters -> [pc : {"idle", "query", "update", "finish"},
                                   holds : BOOLEAN, seen : Seq(Stars)]]
    BY <1>6, EmptySeq DEF TakeRatingJob, RestingRater
  <2>3. DOMAIN ratingJob' = {"state", "tries", "stalls"} /\ ratingJob'.state = "active"
    BY <1>6 DEF TakeRatingJob
  <2>4. Len(raters'[w].seen) = 0 /\ raters'[w].pc # "update"
    BY <2>2
  <2>5. \A u, v \in Raters : raters'[u].holds /\ raters'[v].holds => u = v
    BY <2>1, <2>2
  <2>6. QED
    BY <1>0, <1>6, <2>1, <2>2, <2>3, <2>4, <2>5 DEF TakeRatingJob
<1>7. ASSUME NEW w \in Raters, QueryReviews(w)
      PROVE  RatingsInv' /\ (rated'.count < rated.count => late')
  <2>1. /\ raters'[w].holds = raters[w].holds /\ raters'[w].seen = reviews
        /\ \A v \in Raters \ {w} : raters'[v] = raters[v]
        /\ raters' \in [Raters -> [pc : {"idle", "query", "update", "finish"},
                                   holds : BOOLEAN, seen : Seq(Stars)]]
    BY ZenonT(60), <1>7 DEF QueryReviews
  <2>2. QED
    BY <1>0, <1>7, <2>1 DEF QueryReviews
<1>8. ASSUME NEW w \in Raters, UpdateShop(w)
      PROVE  RatingsInv' /\ (rated'.count < rated.count => late')
  <2>1. /\ raters'[w].holds = raters[w].holds /\ raters'[w].seen = raters[w].seen
        /\ raters'[w].pc = "finish"
        /\ \A v \in Raters \ {w} : raters'[v] = raters[v]
        /\ raters' \in [Raters -> [pc : {"idle", "query", "update", "finish"},
                                   holds : BOOLEAN, seen : Seq(Stars)]]
    BY <1>8 DEF UpdateShop
  <2>2. rated'.count = Len(raters[w].seen)
    BY <1>8 DEF UpdateShop
  <2>3. late' \in BOOLEAN /\ (~late' => ~late /\ raters[w].holds)
    BY <1>8 DEF UpdateShop
  <2>4. ~late' => rated.count <= rated'.count
    BY <1>8, <2>2, <2>3 DEF UpdateShop
  <2>5. \A v \in Raters : ~late' /\ raters[v].holds => v = w
    BY <2>3
  <2>6. QED
    BY <1>0, <1>8, <2>1, <2>2, <2>3, <2>4, <2>5 DEF UpdateShop
<1>9. ASSUME NEW w \in Raters, FinishRating(w) \/ FailRating(w) \/ RaterDies(w)
      PROVE  RatingsInv' /\ (rated'.count < rated.count => late')
  <2>1. /\ raters' = [raters EXCEPT ![w] = RestingRater]
        /\ DOMAIN ratingJob' = {"state", "tries", "stalls"}
        /\ raters[w].holds \/ ratingJob' = ratingJob
        /\ UNCHANGED <<reviews, rated, late>>
    BY <1>9 DEF FinishRating, FailRating, RaterDies, NoRatingJob
  <2> HIDE DEF RatingsInv
  <2>2. RatingsInv'
    BY <2>1, RestingKeeps
  <2>3. QED
    BY <1>0, <2>1, <2>2 DEF RatingsInv
<1>10. QED
  BY <1>1, <1>2, <1>3, <1>4, <1>5, <1>6, <1>7, <1>8, <1>9 DEF RatingsNext, RaterStep

(* The number of reviews a shop counts goes back only once a worker wrote   *)
(* that had lost its job.                                                   *)
THEOREM CountsGoBackLate == RatingsInit /\ [][RatingsNext]_ratingsVars => CountGoesBackLate
<1>1. RatingsInv /\ [RatingsNext]_ratingsVars => RatingsInv'
  <2>1. RatingsInv /\ UNCHANGED ratingsVars => RatingsInv'
    BY DEF RatingsInv, ratingsVars
  <2>2. QED
    BY <2>1, RatingsNextKeeps
<1>2. RatingsInv /\ [RatingsNext]_ratingsVars
        => [rated'.count < rated.count => late']_ratingsVars
  BY RatingsNextKeeps
<1>3. QED
  BY RatingsStart, <1>1, <1>2, PTL DEF CountGoesBackLate

-----------------------------------------------------------------------------
(* Inbound webhooks.                                                        *)

(* A set of naturals with an element has a least one, because inclusion is  *)
(* well-founded on the subsets of a finite set.  It stands for the          *)
(* induction theorems, whose predicate the provers cannot instantiate.      *)
LEMMA LeastNumber ==
  ASSUME NEW T \in SUBSET Nat, T # {}
  PROVE  \E m \in T : \A k \in T : m <= k
<1>1. PICK n \in T : TRUE
  OBVIOUS
<1> DEFINE S == 0..n
           R == StrictSubsetOrdering(S)
           U == {0..j : j \in {i \in T : i <= n}}
<1>2. IsWellFoundedOn(R, SUBSET S)
  <2>1. IsFiniteSet(S)
    BY FS_Interval
  <2> HIDE DEF S
  <2>2. FiniteSubsetsOf(S) = SUBSET S
    BY <2>1, FS_FiniteSubsetsOfFinite
  <2>3. IsWellFoundedOn(R, FiniteSubsetsOf(S))
    BY FS_StrictSubsetOrderingWellFounded
  <2>4. QED
    BY <2>2, <2>3
<1>3. U \in SUBSET (SUBSET S) /\ U # {}
  BY <1>1
<1>4. PICK x \in U : \A y \in U : ~ (<<y, x>> \in R)
  <2> HIDE DEF R, U, S
  <2>1. QED
    BY <1>2, <1>3, WFMin
<1>5. PICK m \in T : m <= n /\ x = 0..m
  BY <1>4
<1>6. ASSUME NEW k \in T, k < m
      PROVE  FALSE
  <2>1. 0..k \in U /\ k <= n
    BY <1>5, <1>6
  <2>2. <<0..k, 0..m>> \notin R
    BY <2>1, <1>5, <1>4
  <2>3. 0..k \subseteq 0..m
    BY <1>6
  <2>4. m \in 0..m /\ m \notin 0..k
    BY <1>6
  <2>5. <<0..k, 0..m>> \in (SUBSET S) \X (SUBSET S)
    BY <1>5, <2>1
  <2>6. QED
    BY <2>2, <2>3, <2>4, <2>5 DEF StrictSubsetOrdering
<1>7. QED
  BY <1>6

(* The equation of FlattenSeq's recursive function has a solution.          *)
LEMMA FlatExists ==
  ASSUME NEW s, NEW N \in Nat
  PROVE  \E g : g = [i \in 1..N |-> IF i = 1 THEN s[i] ELSE g[i-1] \o s[i]]
<1> DEFINE Good(n) ==
      \E g : g = [i \in 1..n |-> IF i = 1 THEN s[i] ELSE g[i-1] \o s[i]]
<1>1. Good(0)
  <2> DEFINE h == [i \in 1..0 |-> s[i]]
  <2>1. h = [i \in 1..0 |-> IF i = 1 THEN s[i] ELSE h[i-1] \o s[i]]
    OBVIOUS
  <2> HIDE DEF h
  <2>2. QED
    BY <2>1
<1>2. ASSUME NEW n \in Nat, Good(n)
      PROVE  Good(n + 1)
  <2>1. PICK g : g = [i \in 1..n |-> IF i = 1 THEN s[i] ELSE g[i-1] \o s[i]]
    BY <1>2
  <2> DEFINE Step(i, f) == IF i = 1 THEN s[i] ELSE f[i-1] \o s[i]
             h == [i \in 1..(n+1) |-> IF i <= n THEN g[i] ELSE Step(i, g)]
  <2>2. ASSUME NEW i \in 1..(n+1)
        PROVE  h[i] = Step(i, h)
    <3>1. CASE i <= n
      <4>1. i \in 1..n
        BY <3>1
      <4>2. g[i] = Step(i, g)
        BY <4>1, <2>1
      <4>3. i # 1 => i-1 \in 1..(n+1) /\ i-1 <= n
        BY <3>1
      <4>4. i # 1 => h[i-1] = g[i-1]
        BY <4>3
      <4>5. QED
        BY <3>1, <4>2, <4>4
    <3>2. CASE i = n + 1
      <4>1. i # 1 => i-1 \in 1..(n+1) /\ i-1 <= n
        BY <3>2
      <4>2. i # 1 => h[i-1] = g[i-1]
        BY <4>1
      <4>3. QED
        BY <3>2, <4>2
    <3>3. QED
      BY <3>1, <3>2
  <2>3. h = [i \in 1..(n+1) |-> Step(i, h)]
    <3>1. h = [i \in 1..(n+1) |-> h[i]]
      OBVIOUS
    <3> HIDE DEF h, Step
    <3>2. QED
      BY <3>1, <2>2
  <2> HIDE DEF h
  <2>4. QED
    BY <2>3
<1> HIDE DEF Good
<1>3. Good(N)
  <2> DEFINE T == {n \in Nat : ~Good(n)}
  <2>1. SUFFICES ASSUME T # {} PROVE FALSE
    OBVIOUS
  <2>2. PICK m \in T : \A k \in T : m <= k
    BY <2>1, LeastNumber
  <2>3. m # 0
    BY <1>1, <2>2
  <2>4. m - 1 \in Nat /\ Good(m - 1)
    BY <2>2, <2>3
  <2>5. Good((m - 1) + 1)
    BY <2>4, <1>2
  <2>6. QED
    BY <2>5, <2>4, <2>2
<1>4. QED
  BY <1>3 DEF Good

(* A flattened sequence of sequences is a sequence of their elements.       *)
LEMMA FlatType ==
  ASSUME NEW E, NEW s \in Seq(Seq(E))
  PROVE  FlattenSeq(s) \in Seq(E)
<1> DEFINE N == Len(s)
           f == CHOOSE g : g = [i \in 1..N |-> IF i = 1 THEN s[i] ELSE g[i-1] \o s[i]]
<1>1. N \in Nat /\ \A i \in 1..N : s[i] \in Seq(E)
  BY LenProperties, ElementOfSeq
<1>2. CASE N = 0
  BY <1>2, EmptySeq DEF FlattenSeq
<1>3. CASE N # 0
  <2>1. FlattenSeq(s) = f[N]
    BY <1>3 DEF FlattenSeq
  <2>2. f = [i \in 1..N |-> IF i = 1 THEN s[i] ELSE f[i-1] \o s[i]]
    <3> HIDE DEF N
    <3>1. QED
      BY <1>1, FlatExists
  <2> HIDE DEF f, N
  <2> DEFINE T == {n \in 1..N : f[n] \notin Seq(E)}
  <2>3. SUFFICES ASSUME T # {} PROVE FALSE
    BY SMTT(60), <1>1, <1>3, <2>1
  <2>4. PICK m \in T : \A k \in T : m <= k
    <3>1. T \in SUBSET Nat
      BY <1>1
    <3> HIDE DEF T
    <3>2. QED
      BY <2>3, <3>1, LeastNumber
  <2>5. f[m] = IF m = 1 THEN s[m] ELSE f[m-1] \o s[m]
    BY <2>2, <2>4
  <2>6. m # 1
    BY <1>1, <2>4, <2>5
  <2>7. m - 1 \in 1..N /\ f[m-1] \in Seq(E)
    <3>1. m - 1 \in 1..N /\ ~(m <= m - 1)
      BY <1>1, <2>4, <2>6
    <3>2. QED
      BY <2>4, <3>1
  <2>8. s[m] \in Seq(E)
    BY <1>1, <2>4
  <2>9. f[m-1] \o s[m] \in Seq(E)
    BY <2>7, <2>8, ConcatProperties
  <2>10. QED
    BY <2>4, <2>5, <2>6, <2>9
<1>4. QED
  BY <1>2, <1>3

(* The events of a payload are a sequence of idempotency keys.              *)
LEMMA EventsType == \A pl \in Payloads : EventsIn[pl] \in Seq(Events)
<1> SUFFICES ASSUME NEW pl \in Payloads PROVE EventsIn[pl] \in Seq(Events)
  OBVIOUS
<1> DEFINE lists == [n \in DOMAIN ChangesOf[pl] |-> Routed(ChangesOf[pl][n])]
<1>1. /\ DOMAIN ChangesOf[pl] = 1..Len(ChangesOf[pl]) /\ Len(ChangesOf[pl]) \in Nat
      /\ \A n \in DOMAIN ChangesOf[pl] : ChangesOf[pl][n].events \in Seq(Events)
  <2> DEFINE Change == [field : STRING, shape : STRING, events : Seq(Events)]
  <2>1. ChangesOf[pl] \in Seq(Change)
    BY InboundAssumption
  <2>2. \A r \in Change : r.events \in Seq(Events)
    OBVIOUS
  <2> HIDE DEF Change
  <2>3. /\ DOMAIN ChangesOf[pl] = 1..Len(ChangesOf[pl]) /\ Len(ChangesOf[pl]) \in Nat
        /\ \A n \in 1..Len(ChangesOf[pl]) : ChangesOf[pl][n] \in Change
    BY <2>1, LenProperties, ElementOfSeq
  <2>4. QED
    BY <2>2, <2>3
<1>2. \A n \in DOMAIN ChangesOf[pl] : Routed(ChangesOf[pl][n]) \in Seq(Events)
  BY <1>1, EmptySeq DEF Routed
<1>3. lists \in Seq(Seq(Events))
  BY <1>1, <1>2, SeqDef
<1> HIDE DEF lists
<1>4. FlattenSeq(lists) \in Seq(Events)
  BY <1>3, FlatType
<1>5. QED
  BY <1>4 DEF EventsIn, lists

EventsOf(pl) == {EventsIn[pl][n] : n \in DOMAIN EventsIn[pl]}

(* A job that waits has an attempt left, one that is active is at one.      *)
JobCounts ==
  \A j \in DOMAIN jobs :
    /\ jobs[j].state = "waiting" => jobs[j].tries < MaxTries
    /\ jobs[j].state = "active" => jobs[j].tries > 0

(* A worker is at an active job of its own and at events of its payload;    *)
(* what it is about to handle it has claimed, and nobody has handled.       *)
WorkEntry(w) ==
  worker[w] # Off =>
    /\ worker[w].job \in DOMAIN jobs /\ jobs[worker[w].job].state = "active"
    /\ \A n \in DOMAIN worker[w].todo :
         worker[w].todo[n] \in EventsOf(jobs[worker[w].job].payload)
    /\ worker[w].pc = "handle" =>
         /\ worker[w].todo # <<>>
         /\ Head(worker[w].todo) \in claimed /\ handled[Head(worker[w].todo)] = 0

WorkApart(v, w) ==
  v # w /\ worker[v] # Off /\ worker[w] # Off =>
    /\ worker[v].job # worker[w].job
    /\ worker[v].pc = "handle" /\ worker[w].pc = "handle" =>
         Head(worker[v].todo) # Head(worker[w].todo)

(* The jobs are all there and none that is open has event e: its claim may  *)
(* go, because nothing asks for it again.                                   *)
Spent(e) ==
  /\ DOMAIN jobs = JobIds
  /\ \A j \in DOMAIN jobs :
       jobs[j].state \in {"waiting", "active"} => e \notin EventsOf(jobs[j].payload)

(* The strengthening that HandledOnce rests on.                             *)
InboundInv ==
  /\ InboundTypeOK
  /\ JobCounts
  /\ \A w \in Workers : WorkEntry(w)
  /\ \A v, w \in Workers : WorkApart(v, w)
  /\ \A e \in Events : /\ handled[e] <= 1
                       /\ handled[e] = 1 => e \in claimed \/ Spent(e)

JobRow == [payload : Payloads \ Malformed, tries : 0..MaxTries, stalls : 0..MaxStalls,
           state : {"waiting", "active", "done", "failed"}]

LEMMA InboundStart == InboundInit => InboundInv
<1> SUFFICES ASSUME InboundInit PROVE InboundInv
  OBVIOUS
<1>1. InboundTypeOK
  BY InboundAssumption DEF InboundInit, InboundTypeOK
<1>2. QED
  BY <1>1 DEF InboundInit, InboundInv, JobCounts, WorkEntry, WorkApart

(* A worker that is not at rest has a job and a list of events.             *)
LEMMA WorkerKinds ==
  ASSUME InboundTypeOK, NEW w \in Workers
  PROVE  /\ worker[w] = Off \/ worker[w].pc \in {"claim", "handle"}
         /\ worker[w].pc \in {"claim", "handle"} =>
              /\ worker[w] # Off
              /\ worker[w].job \in JobIds /\ worker[w].todo \in Seq(Events)
              /\ worker[w] = [pc |-> worker[w].pc, job |-> worker[w].job,
                              todo |-> worker[w].todo]
  BY DEF InboundTypeOK, Off

(* A job that is taken, and one whose worker stopped.                       *)
LEMMA RowForms ==
  ASSUME NEW row \in JobRow
  PROVE  /\ row.tries < MaxTries =>
              LET taken == [row EXCEPT !.state = "active", !.tries = @ + 1]
              IN  /\ taken \in JobRow /\ taken.payload = row.payload
                  /\ taken.state = "active" /\ taken.tries > 0
         /\ row.tries > 0 /\ row.stalls < MaxStalls =>
              LET again == [row EXCEPT !.state = "waiting", !.tries = @ - 1,
                                       !.stalls = @ + 1]
              IN  /\ again \in JobRow /\ again.payload = row.payload
                  /\ again.state = "waiting" /\ again.tries < MaxTries
<1> DEFINE up == row.tries + 1
           down == row.tries - 1
           stalls == row.stalls + 1
<1>1. /\ row = [payload |-> row.payload, tries |-> row.tries, stalls |-> row.stalls,
                state |-> row.state]
      /\ row.payload \in Payloads \ Malformed /\ row.tries \in 0..MaxTries
      /\ row.stalls \in 0..MaxStalls
  BY DEF JobRow
<1>2. ASSUME row.tries < MaxTries
      PROVE  LET taken == [row EXCEPT !.state = "active", !.tries = @ + 1]
             IN  /\ taken \in JobRow /\ taken.payload = row.payload
                 /\ taken.state = "active" /\ taken.tries > 0
  <2>1. up \in 0..MaxTries /\ up > 0
    BY <1>1, <1>2, InboundAssumption
  <2> DEFINE open == [row EXCEPT !.state = "active"]
  <2>2. open = [payload |-> row.payload, tries |-> row.tries, stalls |-> row.stalls,
                state |-> "active"]
    BY <1>1
  <2>3. [row EXCEPT !.state = "active", !.tries = @ + 1] = [open EXCEPT !.tries = up]
    OBVIOUS
  <2> HIDE DEF open, up
  <2>4. [open EXCEPT !.tries = up]
          = [payload |-> row.payload, tries |-> up, stalls |-> row.stalls,
             state |-> "active"]
    BY <2>2
  <2>5. QED
    BY <1>1, <2>1, <2>3, <2>4 DEF JobRow
<1>3. ASSUME row.tries > 0, row.stalls < MaxStalls
      PROVE  LET again == [row EXCEPT !.state = "waiting", !.tries = @ - 1,
                                      !.stalls = @ + 1]
             IN  /\ again \in JobRow /\ again.payload = row.payload
                 /\ again.state = "waiting" /\ again.tries < MaxTries
  <2>1. down \in 0..MaxTries /\ down < MaxTries /\ stalls \in 0..MaxStalls
    BY <1>1, <1>3, InboundAssumption
  <2> DEFINE open == [row EXCEPT !.state = "waiting"]
             less == [open EXCEPT !.tries = down]
  <2>2. open = [payload |-> row.payload, tries |-> row.tries, stalls |-> row.stalls,
                state |-> "waiting"]
    BY <1>1
  <2>3. [row EXCEPT !.state = "waiting", !.tries = @ - 1, !.stalls = @ + 1]
          = [less EXCEPT !.stalls = stalls]
    OBVIOUS
  <2> HIDE DEF open, down, stalls
  <2>4. less = [payload |-> row.payload, tries |-> down, stalls |-> row.stalls,
                state |-> "waiting"]
    BY <2>2
  <2> HIDE DEF less
  <2>5. [less EXCEPT !.stalls = stalls]
          = [payload |-> row.payload, tries |-> down, stalls |-> stalls,
             state |-> "waiting"]
    BY <2>4
  <2> DEFINE again == [payload |-> row.payload, tries |-> down, stalls |-> stalls,
                       state |-> "waiting"]
  <2>6. /\ again \in JobRow /\ again.payload = row.payload
        /\ again.state = "waiting" /\ again.tries < MaxTries
    BY <1>1, <2>1 DEF JobRow
  <2> HIDE DEF again
  <2>7. [row EXCEPT !.state = "waiting", !.tries = @ - 1, !.stalls = @ + 1] = again
    BY <2>3, <2>5, Zenon DEF again
  <2>8. QED
    BY <2>6, <2>7, Zenon
<1>4. QED
  BY <1>2, <1>3

(* A job that changes and does not open again leaves what is spent spent.   *)
LEMMA JobMoves ==
  ASSUME InboundInv, NEW j \in DOMAIN jobs, NEW row \in JobRow,
         jobs' = [jobs EXCEPT ![j] = row], row.payload = jobs[j].payload,
         jobs[j].state \in {"waiting", "active"},
         row.state = "waiting" => row.tries < MaxTries,
         row.state = "active" => row.tries > 0
  PROVE  /\ DOMAIN jobs' = DOMAIN jobs /\ DOMAIN jobs' \subseteq JobIds
         /\ jobs' \in [DOMAIN jobs' -> JobRow]
         /\ jobs'[j] = row /\ \A x \in DOMAIN jobs \ {j} : jobs'[x] = jobs[x]
         /\ JobCounts'
         /\ \A e \in Events : Spent(e) => Spent(e)'
<1>1. /\ DOMAIN jobs' = DOMAIN jobs /\ DOMAIN jobs' \subseteq JobIds
      /\ jobs' \in [DOMAIN jobs' -> JobRow]
      /\ jobs'[j] = row /\ \A x \in DOMAIN jobs \ {j} : jobs'[x] = jobs[x]
  BY DEF InboundInv, InboundTypeOK, JobRow
<1>2. JobCounts'
  BY <1>1 DEF InboundInv, JobCounts
<1>3. \A e \in Events : Spent(e) => Spent(e)'
  BY <1>1 DEF Spent
<1>4. QED
  BY <1>1, <1>2, <1>3

(* A worker that stops working on its job, whatever becomes of the job.     *)
LEMMA WorkerLeaves ==
  ASSUME InboundInv, NEW w \in Workers, worker[w] # Off, Work(w, Off),
         NEW row \in JobRow, jobs' = [jobs EXCEPT ![worker[w].job] = row],
         row.payload = jobs[worker[w].job].payload,
         row.state = "waiting" => row.tries < MaxTries, row.state # "active",
         claimed \subseteq claimed', claimed' \subseteq Events,
         lost' \subseteq Events, faults' \in 0..MaxClaimFaults, UNCHANGED handled
  PROVE  InboundInv'
<1> USE DEF InboundInv
<1>1. worker[w].job \in DOMAIN jobs /\ jobs[worker[w].job].state = "active"
  BY DEF WorkEntry
<1>2. /\ DOMAIN jobs' = DOMAIN jobs /\ DOMAIN jobs' \subseteq JobIds
      /\ jobs' \in [DOMAIN jobs' -> JobRow]
      /\ \A x \in DOMAIN jobs \ {worker[w].job} : jobs'[x] = jobs[x]
      /\ JobCounts'
      /\ \A e \in Events : Spent(e) => Spent(e)'
  <2> HIDE DEF InboundInv
  <2>1. QED
    BY <1>1, JobMoves
<1>3. /\ worker'[w] = Off /\ \A v \in Workers \ {w} : worker'[v] = worker[v]
  BY DEF Work, InboundTypeOK
<1>4. InboundTypeOK'
  BY <1>2 DEF Work, InboundTypeOK, JobRow
<1>5. ASSUME NEW v \in Workers
      PROVE  WorkEntry(v)'
  <2>1. CASE v = w
    BY <1>3, <2>1 DEF WorkEntry
  <2>2. CASE v # w /\ worker[v] # Off
    <3>1. worker[v].job \in DOMAIN jobs \ {worker[w].job}
      BY <2>2 DEF WorkEntry, WorkApart
    <3>2. worker'[v] = worker[v] /\ jobs'[worker[v].job] = jobs[worker[v].job]
      BY <1>2, <1>3, <2>2, <3>1
    <3>3. QED
      BY <1>2, <2>2, <3>1, <3>2 DEF WorkEntry
  <2>3. CASE v # w /\ worker[v] = Off
    BY <1>3, <2>3 DEF WorkEntry
  <2>4. QED
    BY <2>1, <2>2, <2>3
<1>6. \A u, v \in Workers : WorkApart(u, v)'
  BY <1>3 DEF WorkApart
<1>7. QED
  BY <1>2, <1>4, <1>5, <1>6

(* A worker that goes on with its job, whether it claims or handles.        *)
LEMMA WorkerGoesOn ==
  ASSUME InboundInv, NEW w \in Workers, worker[w] # Off,
         NEW pc \in {"claim", "handle"}, NEW todo \in Seq(Events),
         Work(w, [pc |-> pc, job |-> worker[w].job, todo |-> todo]),
         \A n \in DOMAIN todo : \E k \in DOMAIN worker[w].todo : todo[n] = worker[w].todo[k],
         pc = "handle" =>
           /\ todo # <<>> /\ Head(todo) \in claimed' /\ handled'[Head(todo)] = 0
           /\ \A v \in Workers \ {w} :
                worker[v].pc = "handle" => Head(worker[v].todo) # Head(todo),
         UNCHANGED jobs, claimed \subseteq claimed',
         \A v \in Workers \ {w} : worker[v].pc = "handle" =>
           handled'[Head(worker[v].todo)] = handled[Head(worker[v].todo)]
  PROVE  /\ worker' \in [Workers -> {Off} \cup
              [pc : {"claim", "handle"}, job : JobIds, todo : Seq(Events)]]
         /\ \A v \in Workers : WorkEntry(v)'
         /\ \A u, v \in Workers : WorkApart(u, v)'
<1> USE DEF InboundInv
<1> DEFINE r == [pc |-> pc, job |-> worker[w].job, todo |-> todo]
<1>1. /\ worker[w].job \in DOMAIN jobs /\ worker[w].job \in JobIds
      /\ jobs[worker[w].job].state = "active"
  BY DEF WorkEntry, InboundTypeOK
<1>2. r \in [pc : {"claim", "handle"}, job : JobIds, todo : Seq(Events)] /\ r # Off
  BY <1>1 DEF Off
<1>3. r.pc = pc /\ r.job = worker[w].job /\ r.todo = todo
  OBVIOUS
<1>4. worker'[w] = r /\ \A v \in Workers \ {w} : worker'[v] = worker[v]
  BY DEF Work, InboundTypeOK
<1>5. worker' \in [Workers -> {Off} \cup
              [pc : {"claim", "handle"}, job : JobIds, todo : Seq(Events)]]
  BY <1>2 DEF Work, InboundTypeOK
<1> HIDE DEF r
<1>6. ASSUME NEW v \in Workers
      PROVE  WorkEntry(v)'
  <2>1. CASE v = w
    <3>1. \A n \in DOMAIN todo : todo[n] \in EventsOf(jobs[worker[w].job].payload)
      BY DEF WorkEntry
    <3>2. QED
      BY <1>1, <1>3, <1>4, <2>1, <3>1 DEF WorkEntry
  <2>2. CASE v # w
    BY <1>4, <2>2 DEF WorkEntry
  <2>3. QED
    BY <2>1, <2>2
<1>7. ASSUME NEW u \in Workers, NEW v \in Workers
      PROVE  WorkApart(u, v)'
  <2>1. CASE u # w /\ v # w
    BY <1>4, <2>1 DEF WorkApart
  <2>2. CASE u = w /\ v # w
    BY <1>3, <1>4, <2>2 DEF WorkApart
  <2>3. CASE u # w /\ v = w
    BY <1>3, <1>4, <2>3 DEF WorkApart
  <2>4. QED
    BY <2>1, <2>2, <2>3 DEF WorkApart
<1>8. QED
  BY <1>5, <1>6, <1>7

(* The head and the tail of the events still to do.                         *)
LEMMA TodoParts ==
  ASSUME NEW s \in Seq(Events), s # <<>>
  PROVE  /\ Head(s) \in Events /\ Tail(s) \in Seq(Events)
         /\ 1 \in DOMAIN s /\ Head(s) = s[1]
         /\ \A n \in DOMAIN Tail(s) : \E k \in DOMAIN s : Tail(s)[n] = s[k]
<1>1. /\ Tail(s) \in Seq(Events) /\ Len(s) \in Nat \ {0} /\ Len(Tail(s)) = Len(s) - 1
      /\ \A i \in 1..Len(Tail(s)) : Tail(s)[i] = s[i + 1]
      /\ DOMAIN s = 1..Len(s) /\ DOMAIN Tail(s) = 1..Len(Tail(s))
      /\ Head(s) \in Events
  BY HeadTailProperties, EmptySeq, LenProperties
<1>2. ASSUME NEW n \in DOMAIN Tail(s)
      PROVE  n + 1 \in DOMAIN s /\ Tail(s)[n] = s[n + 1]
  BY <1>1
<1>3. 1 \in DOMAIN s /\ Head(s) = s[1]
  BY <1>1
<1>4. QED
  BY <1>1, <1>2, <1>3

LEMMA ClaimKeeps ==
  ASSUME InboundInv, NEW w \in Workers, Claim(w)
  PROVE  InboundInv'
<1> DEFINE r == worker[w]
           e == Head(r.todo)
<1>1. InboundTypeOK /\ r.pc = "claim" /\ r.todo # <<>>
  BY DEF Claim, InboundInv
<1>2. /\ r # Off /\ r.todo \in Seq(Events) /\ r.job \in JobIds
      /\ r = [pc |-> r.pc, job |-> r.job, todo |-> r.todo]
  BY <1>1, WorkerKinds
<1>3. /\ e \in Events /\ Tail(r.todo) \in Seq(Events)
      /\ e \in EventsOf(jobs[r.job].payload)
      /\ \A n \in DOMAIN Tail(r.todo) :
           \E k \in DOMAIN r.todo : Tail(r.todo)[n] = r.todo[k]
  BY <1>1, <1>2, TodoParts DEF InboundInv, WorkEntry
<1>4. UNCHANGED <<jobs, handled, lost, faults>>
  BY DEF Claim
<1>5. CASE e \in claimed
  <2>1. Work(w, [pc |-> "claim", job |-> r.job, todo |-> Tail(r.todo)]) /\ UNCHANGED claimed
    <3>1. Work(w, [r EXCEPT !.todo = Tail(@)]) /\ UNCHANGED claimed
      BY <1>5 DEF Claim
    <3>2. [r EXCEPT !.todo = Tail(@)]
            = [pc |-> "claim", job |-> r.job, todo |-> Tail(r.todo)]
      BY SMTT(60), <1>1, <1>2
    <3>3. QED
      BY <3>1, <3>2
  <2>2. /\ worker' \in [Workers -> {Off} \cup
              [pc : {"claim", "handle"}, job : JobIds, todo : Seq(Events)]]
        /\ \A v \in Workers : WorkEntry(v)'
        /\ \A u, v \in Workers : WorkApart(u, v)'
    BY <1>2, <1>3, <1>4, <2>1, WorkerGoesOn
  <2>3. QED
    BY <1>4, <2>1, <2>2 DEF InboundInv, InboundTypeOK, JobCounts, Spent
<1>6. CASE e \notin claimed
  <2>1. /\ Work(w, [pc |-> "handle", job |-> r.job, todo |-> r.todo])
        /\ claimed' = claimed \cup {e}
    <3>1. Work(w, [r EXCEPT !.pc = "handle"]) /\ claimed' = claimed \cup {e}
      BY <1>6 DEF Claim
    <3>2. [r EXCEPT !.pc = "handle"] = [pc |-> "handle", job |-> r.job, todo |-> r.todo]
      BY <1>2
    <3>3. QED
      BY <3>1, <3>2
  <2>2. handled[e] = 0
    <3>1. ~Spent(e)
      BY <1>2, <1>3 DEF InboundInv, WorkEntry, Spent
    <3>2. handled[e] \in Nat /\ handled[e] <= 1 /\ handled[e] # 1
      BY <1>3, <1>6, <3>1 DEF InboundInv, InboundTypeOK
    <3>3. QED
      BY <3>2
  <2>3. \A v \in Workers \ {w} : worker[v].pc = "handle" => Head(worker[v].todo) # e
    BY <1>1, <1>6, WorkerKinds DEF InboundInv, WorkEntry
  <2>4. /\ worker' \in [Workers -> {Off} \cup
              [pc : {"claim", "handle"}, job : JobIds, todo : Seq(Events)]]
        /\ \A v \in Workers : WorkEntry(v)'
        /\ \A u, v \in Workers : WorkApart(u, v)'
    BY <1>1, <1>2, <1>3, <1>4, <2>1, <2>2, <2>3, WorkerGoesOn
  <2>5. QED
    BY <1>3, <1>4, <2>1, <2>4 DEF InboundInv, InboundTypeOK, JobCounts, Spent
<1>7. QED
  BY <1>5, <1>6

LEMMA HandleKeeps ==
  ASSUME InboundInv, NEW w \in Workers, Handle(w)
  PROVE  InboundInv'
<1> DEFINE r == worker[w]
           e == Head(r.todo)
<1>1. InboundTypeOK /\ r.pc = "handle"
  BY DEF Handle, InboundInv
<1>2. /\ r # Off /\ r.todo \in Seq(Events) /\ r.job \in JobIds
      /\ r = [pc |-> r.pc, job |-> r.job, todo |-> r.todo]
  BY <1>1, WorkerKinds
<1>3. r.todo # <<>> /\ e \in claimed /\ handled[e] = 0
  BY <1>1, <1>2 DEF InboundInv, WorkEntry
<1>4. /\ e \in Events /\ Tail(r.todo) \in Seq(Events)
      /\ \A n \in DOMAIN Tail(r.todo) :
           \E k \in DOMAIN r.todo : Tail(r.todo)[n] = r.todo[k]
  BY <1>2, <1>3, TodoParts
<1>5. /\ UNCHANGED <<jobs, claimed, lost, faults>>
      /\ Work(w, [pc |-> "claim", job |-> r.job, todo |-> Tail(r.todo)])
  <2>1. [r EXCEPT !.pc = "claim", !.todo = Tail(@)]
          = [pc |-> "claim", job |-> r.job, todo |-> Tail(r.todo)]
    <3> DEFINE s == [r EXCEPT !.pc = "claim"]
    <3>1. s = [pc |-> "claim", job |-> r.job, todo |-> r.todo]
      BY <1>2
    <3>2. [r EXCEPT !.pc = "claim", !.todo = Tail(@)] = [s EXCEPT !.todo = Tail(r.todo)]
      OBVIOUS
    <3> HIDE DEF s
    <3>3. \A t : [s EXCEPT !.todo = t] = [pc |-> "claim", job |-> r.job, todo |-> t]
      BY <3>1
    <3>4. QED
      BY <3>2, <3>3, Zenon
  <2>2. /\ UNCHANGED <<jobs, claimed, lost, faults>>
        /\ Work(w, [r EXCEPT !.pc = "claim", !.todo = Tail(@)])
    BY DEF Handle
  <2>3. QED
    BY <2>1, <2>2
<1>6. /\ handled' \in [Events -> Nat] /\ handled'[e] = 1
      /\ \A x \in Events \ {e} : handled'[x] = handled[x]
  BY <1>1, <1>3, <1>4 DEF Handle, InboundTypeOK
<1>7. \A v \in Workers \ {w} : worker[v].pc = "handle" =>
        /\ Head(worker[v].todo) # e /\ Head(worker[v].todo) \in Events
  BY <1>1, <1>2, WorkerKinds, TodoParts DEF InboundInv, WorkEntry, WorkApart
<1>8. /\ worker' \in [Workers -> {Off} \cup
            [pc : {"claim", "handle"}, job : JobIds, todo : Seq(Events)]]
      /\ \A v \in Workers : WorkEntry(v)'
      /\ \A u, v \in Workers : WorkApart(u, v)'
  BY <1>2, <1>4, <1>5, <1>6, <1>7, WorkerGoesOn
<1>9. QED
  BY <1>3, <1>5, <1>6, <1>8 DEF InboundInv, InboundTypeOK, JobCounts, Spent

LEMMA InboundNextKeeps ==
  ASSUME InboundInv, InboundNext
  PROVE  InboundInv'
<1> USE DEF InboundInv
<1>1. ASSUME NEW pl \in Payloads, Accept(pl)
      PROVE  InboundInv'
  <2> DEFINE row == [payload |-> pl, tries |-> 0, stalls |-> 0, state |-> "waiting"]
  <2>1. PICK j \in JobIds \ DOMAIN jobs :
          jobs' = [x \in DOMAIN jobs \cup {j} |-> IF x = j THEN row ELSE jobs[x]]
    BY <1>1 DEF Accept
  <2>2. row \in JobRow /\ row.tries < MaxTries /\ row.state # "active"
    BY <1>1, InboundAssumption DEF Accept, JobRow
  <2> HIDE DEF row
  <2>3. /\ DOMAIN jobs' = DOMAIN jobs \cup {j} /\ DOMAIN jobs' \subseteq JobIds
        /\ jobs' \in [DOMAIN jobs' -> JobRow]
        /\ jobs'[j] = row /\ \A x \in DOMAIN jobs : jobs'[x] = jobs[x]
    BY <2>1, <2>2 DEF InboundTypeOK, JobRow
  <2>4. UNCHANGED <<claimed, handled, lost, faults, worker>>
    BY <1>1 DEF Accept
  <2>5. InboundTypeOK' /\ JobCounts'
    BY <2>2, <2>3, <2>4 DEF InboundTypeOK, JobRow, JobCounts
  <2>6. /\ \A v \in Workers : WorkEntry(v)'
        /\ \A u, v \in Workers : WorkApart(u, v)'
    BY <2>3, <2>4 DEF WorkEntry, WorkApart
  <2>7. \A e \in Events : ~Spent(e)
    BY <2>1 DEF Spent
  <2>8. QED
    BY <2>4, <2>5, <2>6, <2>7
<1>2. ASSUME NEW w \in Workers, Take(w)
      PROVE  InboundInv'
  <2>1. PICK j \in DOMAIN jobs :
          /\ jobs[j].state = "waiting"
          /\ jobs' = [jobs EXCEPT ![j].state = "active", ![j].tries = @ + 1]
          /\ Work(w, [pc |-> "claim", job |-> j, todo |-> EventsIn[jobs[j].payload]])
    BY <1>2 DEF Take
  <2> DEFINE row == [jobs[j] EXCEPT !.state = "active", !.tries = @ + 1]
             r == [pc |-> "claim", job |-> j, todo |-> EventsIn[jobs[j].payload]]
  <2>2. worker[w] = Off /\ UNCHANGED <<claimed, handled, lost, faults>>
    BY <1>2 DEF Take
  <2>3. jobs[j] \in JobRow /\ jobs[j].tries < MaxTries /\ j \in JobIds
    BY SMTT(60), <2>1 DEF InboundTypeOK, JobRow, JobCounts
  <2>4. /\ row \in JobRow /\ row.state = "active" /\ row.tries > 0
        /\ row.payload = jobs[j].payload
    BY <2>3, RowForms
  <2>5. jobs' = [jobs EXCEPT ![j] = row]
    BY <2>1
  <2>6. /\ r \in [pc : {"claim", "handle"}, job : JobIds, todo : Seq(Events)]
        /\ r # Off /\ r.pc = "claim" /\ r.job = j /\ r.todo = EventsIn[jobs[j].payload]
    BY <2>3, EventsType DEF JobRow, Off
  <2> HIDE DEF row, r
  <2>7. /\ DOMAIN jobs' = DOMAIN jobs /\ DOMAIN jobs' \subseteq JobIds
        /\ jobs' \in [DOMAIN jobs' -> JobRow]
        /\ jobs'[j] = row /\ \A x \in DOMAIN jobs \ {j} : jobs'[x] = jobs[x]
        /\ JobCounts'
        /\ \A e \in Events : Spent(e) => Spent(e)'
    <3> HIDE DEF InboundInv
    <3>1. QED
      BY <2>1, <2>4, <2>5, JobMoves
  <2>8. /\ worker'[w] = r /\ \A v \in Workers \ {w} : worker'[v] = worker[v]
        /\ worker' \in [Workers -> {Off} \cup
             [pc : {"claim", "handle"}, job : JobIds, todo : Seq(Events)]]
    BY <2>1, <2>6 DEF Work, InboundTypeOK, r
  <2>9. \A v \in Workers : worker[v] # Off => worker[v].job \in DOMAIN jobs \ {j}
    BY <2>1 DEF WorkEntry
  <2>10. ASSUME NEW v \in Workers
         PROVE  WorkEntry(v)'
    <3>1. CASE v = w
      BY <2>4, <2>6, <2>7, <2>8, <3>1 DEF WorkEntry, EventsOf
    <3>2. CASE v # w
      BY <2>2, <2>7, <2>8, <2>9, <3>2 DEF WorkEntry
    <3>3. QED
      BY SMTT(60), <3>1, <3>2
  <2>11. \A u, v \in Workers : WorkApart(u, v)'
    BY <2>6, <2>8, <2>9 DEF WorkApart
  <2>12. InboundTypeOK'
    BY <2>2, <2>7, <2>8 DEF InboundTypeOK, JobRow
  <2>13. QED
    BY <2>2, <2>7, <2>10, <2>11, <2>12
<1>3. ASSUME NEW w \in Workers, Finish(w)
      PROVE  InboundInv'
  <2> DEFINE j == worker[w].job
             row == [jobs[j] EXCEPT !.state = "done"]
  <2>1. worker[w] # Off /\ j \in DOMAIN jobs
    BY <1>3, WorkerKinds DEF Finish, WorkEntry
  <2>2. jobs[j] \in JobRow
    BY <2>1 DEF InboundTypeOK, JobRow
  <2>3. row \in JobRow /\ row.payload = jobs[j].payload /\ row.state = "done"
    BY <2>2 DEF JobRow
  <2>4. /\ jobs' = [jobs EXCEPT ![j] = row] /\ Work(w, Off)
        /\ UNCHANGED <<claimed, handled, lost, faults>>
    BY <1>3 DEF Finish, SetJob
  <2> HIDE DEF j, row, InboundInv
  <2>5. claimed \subseteq Events /\ lost \subseteq Events /\ faults \in 0..MaxClaimFaults
    BY DEF InboundInv, InboundTypeOK
  <2>6. QED
    BY <2>1, <2>3, <2>4, <2>5, WorkerLeaves DEF j
<1>4. ASSUME NEW w \in Workers, ClaimFails(w)
      PROVE  InboundInv'
  <2> DEFINE j == worker[w].job
             e == Head(worker[w].todo)
             row == [jobs[j] EXCEPT !.state = Retried(j)]
  <2>1. worker[w] # Off /\ j \in DOMAIN jobs /\ e \in Events
    BY <1>4, WorkerKinds, TodoParts DEF ClaimFails, WorkEntry
  <2>2. jobs[j] \in JobRow
    BY <2>1 DEF InboundTypeOK, JobRow
  <2>3. /\ row \in JobRow /\ row.payload = jobs[j].payload /\ row.state # "active"
        /\ row.state = "waiting" => row.tries < MaxTries
    BY <2>2 DEF JobRow, Retried
  <2>4. /\ jobs' = [jobs EXCEPT ![j] = row] /\ Work(w, Off) /\ UNCHANGED handled
        /\ claimed \subseteq claimed' /\ claimed' \subseteq claimed \cup {e}
        /\ lost' \subseteq lost \cup {e}
        /\ faults < MaxClaimFaults /\ faults' = faults + 1
    BY <1>4 DEF ClaimFails, SetJob
  <2>5. /\ claimed' \subseteq Events /\ lost' \subseteq Events
        /\ faults' \in 0..MaxClaimFaults
    BY SMTT(60), <2>1, <2>4, InboundAssumption DEF InboundTypeOK
  <2> HIDE DEF j, e, row, InboundInv
  <2>6. QED
    BY <2>1, <2>3, <2>4, <2>5, WorkerLeaves DEF j
<1>5. ASSUME NEW w \in Workers, StopWorker(w)
      PROVE  InboundInv'
  <2> DEFINE j == worker[w].job
             again == [jobs[j] EXCEPT !.state = "waiting", !.tries = @ - 1,
                                      !.stalls = @ + 1]
             over == [jobs[j] EXCEPT !.state = "failed"]
  <2>1. worker[w] # Off /\ j \in DOMAIN jobs /\ jobs[j].state = "active"
    BY <1>5 DEF StopWorker, WorkEntry
  <2>2. jobs[j] \in JobRow /\ jobs[j].tries > 0
    BY <2>1 DEF InboundTypeOK, JobRow, JobCounts
  <2>3. over \in JobRow /\ over.payload = jobs[j].payload /\ over.state = "failed"
    BY SMTT(60), <2>2 DEF JobRow
  <2>4. jobs[j].stalls < MaxStalls =>
          /\ again \in JobRow /\ again.payload = jobs[j].payload
          /\ again.state = "waiting" /\ again.tries < MaxTries
    BY ZenonT(60), <2>2, RowForms
  <2>5. /\ \/ jobs[j].stalls < MaxStalls /\ jobs' = [jobs EXCEPT ![j] = again]
           \/ jobs' = [jobs EXCEPT ![j] = over]
        /\ Work(w, Off) /\ UNCHANGED <<claimed, handled, faults>>
    BY <1>5 DEF StopWorker
  <2>6. lost' \subseteq Events /\ claimed \subseteq Events /\ faults \in 0..MaxClaimFaults
    <3>1. worker[w].pc = "handle" => Head(worker[w].todo) \in Events
      BY <2>1, WorkerKinds, TodoParts DEF WorkEntry
    <3>2. QED
      BY <1>5, <3>1 DEF StopWorker, InboundTypeOK
  <2> HIDE DEF j, again, over, InboundInv
  <2>7. QED
    BY <2>1, <2>3, <2>4, <2>5, <2>6, WorkerLeaves DEF j
<1>6. ASSUME NEW e \in Events, ExpireClaim(e)
      PROVE  InboundInv'
  <2>1. /\ UNCHANGED <<jobs, handled, lost, faults, worker>>
        /\ claimed' = claimed \ {e} /\ Spent(e)
    BY <1>6 DEF ExpireClaim, Spent, EventsOf, InboundTypeOK
  <2>2. \A w \in Workers : worker[w].pc = "handle" => Head(worker[w].todo) # e
    <3>1. SUFFICES ASSUME NEW w \in Workers, worker[w].pc = "handle",
                          Head(worker[w].todo) = e
                   PROVE  FALSE
      OBVIOUS
    <3>2. e \in EventsOf(jobs[worker[w].job].payload)
      BY ZenonT(60), <3>1, WorkerKinds, TodoParts DEF WorkEntry
    <3>3. QED
      BY <2>1, <3>1, <3>2, WorkerKinds DEF WorkEntry, Spent
  <2>3. InboundTypeOK' /\ JobCounts'
    BY <2>1 DEF InboundTypeOK, JobCounts
  <2>4. /\ \A v \in Workers : WorkEntry(v)'
        /\ \A u, v \in Workers : WorkApart(u, v)'
    BY <2>1, <2>2 DEF WorkEntry, WorkApart
  <2>5. \A x \in Events : Spent(x) => Spent(x)'
    BY <2>1 DEF Spent
  <2>6. QED
    BY <2>1, <2>3, <2>4, <2>5
<1>7. QED
  BY <1>1, <1>2, <1>3, <1>4, <1>5, <1>6, ClaimKeeps, HandleKeeps
     DEF InboundNext, WorkerStep

(* Jobs, claims and workers keep their types.                               *)
THEOREM InboundTypeCorrect == InboundSpec => []InboundTypeOK
<1>1. InboundInv /\ [InboundNext]_inboundVars => InboundInv'
  <2>1. InboundInv /\ UNCHANGED inboundVars => InboundInv'
    BY DEF InboundInv, inboundVars, InboundTypeOK, JobCounts, WorkEntry, WorkApart, Spent
  <2>2. QED
    BY <2>1, InboundNextKeeps
<1>2. InboundInv => InboundTypeOK
  BY DEF InboundInv
<1>3. QED
  BY InboundStart, <1>1, <1>2, PTL DEF InboundSpec

(* An event is handled at most once, however often its payload is           *)
(* delivered, its job is tried again or its worker dies, and although its   *)
(* key expires.                                                             *)
THEOREM EventsAreHandledOnce == InboundSpec => []HandledOnce
<1>1. InboundInv /\ [InboundNext]_inboundVars => InboundInv'
  <2>1. InboundInv /\ UNCHANGED inboundVars => InboundInv'
    BY DEF InboundInv, inboundVars, InboundTypeOK, JobCounts, WorkEntry, WorkApart, Spent
  <2>2. QED
    BY <2>1, InboundNextKeeps
<1>2. InboundInv => HandledOnce
  BY DEF InboundInv, HandledOnce
<1>3. QED
  BY InboundStart, <1>1, <1>2, PTL DEF InboundSpec
=============================================================================
