------------------------------- MODULE MCRedis -------------------------------
(***************************************************************************)
(* OneTimeCodes, WhatsappInbound and Ratings for TLC: the three flows that *)
(* keep their state in Redis keys or queues and share none of it, so one   *)
(* behaviour runs one of them: "focus" says which.  The codes are run      *)
(* twice: "codes" has one contact and no client addresses, "limits" has    *)
(* more of them, and neither resends nor codes that are entered.           *)
(*                                                                         *)
(* Webhook payloads: one with a message, a change nobody handles and a     *)
(* template event; one that repeats the message with another and a change  *)
(* whose value does not fit its field; one malformed.                      *)
(***************************************************************************)
EXTENDS OneTimeCodes, WhatsappInbound, Ratings

CONSTANTS m1, m2, t1, d1, d2, d3, k1, c1

VARIABLE focus

vars == <<otpVars, inboundVars, ratingsVars, focus>>

MCMessages(events) ==
  [field |-> "messages", shape |-> "messages", events |-> events]

MCChanges ==
  [pl \in {d1, d2, d3} |->
     CASE pl = d1 -> <<MCMessages(<<m1>>),
                       [field |-> "account_update", shape |-> "other",
                        events |-> <<m2>>],
                       [field |-> "message_template_status_update",
                        shape |-> "template", events |-> <<t1>>]>>
       [] pl = d2 -> <<[field |-> "messages", shape |-> "template",
                        events |-> <<t1>>],
                       MCMessages(<<m1, m2>>)>>
       [] pl = d3 -> <<>>]

Init ==
  /\ OtpInit /\ InboundInit /\ RatingsInit
  /\ focus \in {"codes", "limits", "inbound", "ratings"}

OneContact ==
  \A p \in OtpProcs :
    "todo" \in DOMAIN call[p] =>
      \A n \in DOMAIN call[p].todo : call[p].todo[n] = <<"contact", c1>>

OnlyFirstCodes ==
  \A p \in OtpProcs :
    /\ call[p].pc \notin {"accept", "wrong"}
    /\ "todo" \in DOMAIN call[p] => call[p].id = NoId
    /\ "code" \in DOMAIN call[p] => call[p].code = k1

Next ==
  \/ focus = "codes" /\ OtpNext /\ OneContact'
       /\ UNCHANGED <<inboundVars, ratingsVars, focus>>
  \/ focus = "limits" /\ OtpNext /\ OnlyFirstCodes'
       /\ UNCHANGED <<inboundVars, ratingsVars, focus>>
  \/ focus = "inbound" /\ InboundNext /\ UNCHANGED <<otpVars, ratingsVars, focus>>
  \/ focus = "ratings" /\ RatingsNext /\ UNCHANGED <<otpVars, inboundVars, focus>>

RedisRun ==
  /\ Init /\ [][Next]_vars
  /\ OtpFairness /\ InboundFairness /\ RatingsFairness
=============================================================================
