---------------------------- MODULE WhatsappInbound ----------------------------
(***************************************************************************)
(* What WhatsApp sends: the webhook that answers a delivery once its       *)
(* payload is in the queue, and WhatsappWebhookProcessor, which claims     *)
(* every event of the payload in Redis before it handles it.               *)
(*                                                                         *)
(* Signatures and the subscription handshake change no state; a delivery   *)
(* here has passed the guard.  The handlers only log so far, so handling   *)
(* is one step that cannot fail.  Meta and BullMQ are external: Meta sends *)
(* a payload again at will, and a job whose worker stopped goes back to    *)
(* the queue until it has stalled too often.                               *)
(***************************************************************************)
EXTENDS Naturals, Sequences, FiniteSets, SequencesExt

CONSTANTS
  Payloads,
  ChangesOf,       \* payload -> its changes in order, entry by entry
  Malformed,       \* the payloads parseWhatsappWebhookPayload refuses
  Events,          \* idempotency keys
  JobIds,          \* bound on the jobs added
  Workers,         \* bound on the processors at work
  MaxTries,        \* attempts of a job
  MaxStalls,       \* stalls BullMQ forgives a job
  MaxClaimFaults,  \* bound on claims that Redis does not answer
  InboundCrashes   \* whether a worker may stop

ASSUME InboundAssumption ==
  /\ Malformed \subseteq Payloads
  /\ ChangesOf \in
       [Payloads -> Seq([field : STRING, shape : STRING, events : Seq(Events)])]
  /\ MaxTries \in Nat \ {0} /\ {MaxStalls, MaxClaimFaults} \subseteq Nat
  /\ InboundCrashes \in BOOLEAN

VARIABLES
  jobs,       \* id -> the job, for those added
  claimed,    \* the keys Redis holds
  handled,    \* event -> how often it was handled
  lost,       \* events whose claim outlived the attempt that made it
  faults,     \* claims that failed so far
  worker      \* w -> the job and event worker w is at

inboundVars == <<jobs, claimed, handled, lost, faults, worker>>

Off == [pc |-> "idle"]

InboundTypeOK ==
  /\ DOMAIN jobs \subseteq JobIds
  /\ jobs \in [DOMAIN jobs ->
       [payload : Payloads \ Malformed, tries : 0..MaxTries, stalls : 0..MaxStalls,
        state : {"waiting", "active", "done", "failed"}]]
  /\ claimed \subseteq Events
  /\ handled \in [Events -> Nat]
  /\ lost \subseteq Events
  /\ faults \in 0..MaxClaimFaults
  /\ worker \in [Workers -> {Off} \cup
       [pc : {"claim", "handle"}, job : JobIds, todo : Seq(Events)]]

InboundInit ==
  /\ jobs = [j \in {} |-> {}]
  /\ claimed = {} /\ lost = {}
  /\ handled = [e \in Events |-> 0]
  /\ faults = 0
  /\ worker = [w \in Workers |-> Off]

(* A change is taken by its field, if its value has the shape to go with it;*)
(* a messages value lists its messages before its statuses.                 *)
Routed(change) ==
  IF \/ change.field = "messages" /\ change.shape = "messages"
     \/ change.field = "message_template_status_update" /\ change.shape = "template"
  THEN change.events ELSE <<>>

(* The events of a payload in the order the processor meets them.           *)
EventsIn ==
  [pl \in Payloads |->
     FlattenSeq([n \in DOMAIN ChangesOf[pl] |-> Routed(ChangesOf[pl][n])])]

-----------------------------------------------------------------------------
(* A delivery: a well-formed payload becomes a job and is answered with     *)
(* 200.  One that is refused, or that the queue does not take, changes      *)
(* nothing here and is not answered.                                        *)
Accept(pl) ==
  /\ pl \notin Malformed
  /\ \E j \in JobIds \ DOMAIN jobs :
       jobs' = [x \in DOMAIN jobs \cup {j} |->
                  IF x = j THEN [payload |-> pl, tries |-> 0, stalls |-> 0,
                                 state |-> "waiting"]
                           ELSE jobs[x]]
  /\ UNCHANGED <<claimed, handled, lost, faults, worker>>

SetJob(j, f, v)  == jobs' = [jobs EXCEPT ![j][f] = v]
Work(w, r)       == worker' = [worker EXCEPT ![w] = r]

(* A worker takes a job and starts over with its first event.               *)
Take(w) ==
  /\ worker[w] = Off
  /\ \E j \in DOMAIN jobs :
       /\ jobs[j].state = "waiting"
       /\ jobs' = [jobs EXCEPT ![j].state = "active", ![j].tries = @ + 1]
       /\ Work(w, [pc |-> "claim", job |-> j, todo |-> EventsIn[jobs[j].payload]])
  /\ UNCHANGED <<claimed, handled, lost, faults>>

(* Mutant of the next definition: the key is set when the event is handled. *)
ClaimLater(w) ==
  LET r == worker[w]
  IN /\ r.pc = "claim" /\ r.todo # <<>>
     /\ Work(w, IF Head(r.todo) \in claimed THEN [r EXCEPT !.todo = Tail(@)]
                                            ELSE [r EXCEPT !.pc = "handle"])
     /\ UNCHANGED <<jobs, claimed, handled, lost, faults>>

(* Mutant of the next definition: a duplicate ends the job.                 *)
ClaimOrQuit(w) ==
  LET r == worker[w]
      e == Head(r.todo)
  IN /\ r.pc = "claim" /\ r.todo # <<>>
     /\ IF e \in claimed
        THEN Work(w, [r EXCEPT !.todo = <<>>]) /\ UNCHANGED claimed
        ELSE Work(w, [r EXCEPT !.pc = "handle"]) /\ claimed' = claimed \cup {e}
     /\ UNCHANGED <<jobs, handled, lost, faults>>

(* tryClaim is one SET NX: only one attempt gets the key.                   *)
Claim(w) ==
  LET r == worker[w]
      e == Head(r.todo)
  IN /\ r.pc = "claim" /\ r.todo # <<>>
     /\ IF e \in claimed
        THEN Work(w, [r EXCEPT !.todo = Tail(@)]) /\ UNCHANGED claimed
        ELSE Work(w, [r EXCEPT !.pc = "handle"]) /\ claimed' = claimed \cup {e}
     /\ UNCHANGED <<jobs, handled, lost, faults>>

(* What becomes of a job whose attempt failed.                              *)
Retried(j) == IF jobs[j].tries < MaxTries THEN "waiting" ELSE "failed"

(* Redis does not answer, whether it set the key or not: the attempt fails  *)
(* and the job is tried again.                                              *)
ClaimFails(w) ==
  LET r == worker[w]
      e == Head(r.todo)
  IN /\ r.pc = "claim" /\ r.todo # <<>>
     /\ faults < MaxClaimFaults
     /\ faults' = faults + 1
     /\ \/ UNCHANGED <<claimed, lost>>
        \/ /\ e \notin claimed
           /\ claimed' = claimed \cup {e}
           /\ lost' = lost \cup {e}
     /\ SetJob(r.job, "state", Retried(r.job))
     /\ Work(w, Off)
     /\ UNCHANGED handled

Handle(w) ==
  LET r == worker[w]
  IN /\ r.pc = "handle"
     /\ handled' = [handled EXCEPT ![Head(r.todo)] = @ + 1]
     /\ Work(w, [r EXCEPT !.pc = "claim", !.todo = Tail(@)])
     /\ UNCHANGED <<jobs, claimed, lost, faults>>

Finish(w) ==
  /\ worker[w].pc = "claim" /\ worker[w].todo = <<>>
  /\ SetJob(worker[w].job, "state", "done")
  /\ Work(w, Off)
  /\ UNCHANGED <<claimed, handled, lost, faults>>

(* The worker stops.  Its job stalls and is taken again, unless it has      *)
(* stalled too often; a claim made for an event not handled stays behind.   *)
StopWorker(w) ==
  LET r == worker[w]
  IN /\ InboundCrashes
     /\ r # Off
     /\ jobs' = IF jobs[r.job].stalls < MaxStalls
                THEN [jobs EXCEPT ![r.job].state = "waiting", ![r.job].tries = @ - 1,
                                  ![r.job].stalls = @ + 1]
                ELSE [jobs EXCEPT ![r.job].state = "failed"]
     /\ lost' = IF r.pc = "handle" THEN lost \cup {Head(r.todo)} ELSE lost
     /\ Work(w, Off)
     /\ UNCHANGED <<claimed, handled, faults>>

(* A key lives for 24 hours, as long as Meta may send its event again; jobs *)
(* do not wait that long.                                                   *)
ExpireClaim(e) ==
  /\ e \in claimed
  /\ DOMAIN jobs = JobIds
  /\ \A j \in DOMAIN jobs :
       jobs[j].state \in {"waiting", "active"}
         => e \notin {EventsIn[jobs[j].payload][n] :
                        n \in DOMAIN EventsIn[jobs[j].payload]}
  /\ claimed' = claimed \ {e}
  /\ UNCHANGED <<jobs, handled, lost, faults, worker>>

WorkerStep(w) == Take(w) \/ Claim(w) \/ Handle(w) \/ Finish(w)

InboundNext ==
  \/ \E pl \in Payloads : Accept(pl)
  \/ \E w \in Workers : WorkerStep(w) \/ ClaimFails(w) \/ StopWorker(w)
  \/ \E e \in Events : ExpireClaim(e)

(* Workers poll their queue and go on with the job they have.               *)
InboundFairness == \A w \in Workers : WF_inboundVars(WorkerStep(w))

InboundSpec == InboundInit /\ [][InboundNext]_inboundVars /\ InboundFairness

-----------------------------------------------------------------------------
(* No event is handled twice, however often its payload is delivered, its   *)
(* job attempted, or its event repeated in another payload.                 *)
HandledOnce == \A e \in Events : handled[e] <= 1

(* A delivery answered with 200 is worked off: its job ends, and unless it  *)
(* failed for good every event of a supported change gets handled, by this  *)
(* job or another one, or lost its claim to a worker that stopped or a      *)
(* reply that did.                                                          *)
AcceptedIsWorkedOff ==
  \A j \in JobIds :
    (j \in DOMAIN jobs)
      ~> /\ j \in DOMAIN jobs
         /\ \/ jobs[j].state = "failed"
            \/ /\ jobs[j].state = "done"
               /\ \A n \in DOMAIN ChangesOf[jobs[j].payload] :
                    LET events == Routed(ChangesOf[jobs[j].payload][n])
                    IN \A k \in DOMAIN events :
                         handled[events[k]] > 0 \/ events[k] \in lost
=============================================================================
