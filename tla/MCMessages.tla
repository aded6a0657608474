----------------------------- MODULE MCMessages -----------------------------
(***************************************************************************)
(* Messages for TLC: one log, since logs share nothing but the lookup by   *)
(* MSG91's unique ids, and one message more than its attempts and a stall  *)
(* can send.  Ids are interchangeable, so MSG91 gives the lowest next.  It *)
(* reports on the first two messages it takes.                             *)
(***************************************************************************)
EXTENDS Messages

MCMessageIds == 1..4

Reported == {1, 2}

InBounds ==
  /\ DOMAIN accepted = 1..Cardinality(DOMAIN accepted)
  /\ \A m \in MessageIds \ Reported : told[m] = {}

MessagesRun ==
  /\ MessagesInit
  /\ [][MessagesNext /\ InBounds']_messagesVars
  /\ MessagesFairness
=============================================================================
