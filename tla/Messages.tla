------------------------------- MODULE Messages -------------------------------
(***************************************************************************)
(* The life of a message_logs row after a flow asked for a message:        *)
(* MessagingDispatchService.dispatch and MessagingService.sendTemplate     *)
(* create the row and add its job, the dispatch worker sends it and writes *)
(* the outcome, MSG91's reports about it raise its status.  Callers, the   *)
(* worker and webhook handlers run one database, queue or HTTP call per    *)
(* step.                                                                   *)
(*                                                                         *)
(* The queue (BullMQ) and MSG91 are external.  A job's id is its log's id, *)
(* so a log has one job; a failed attempt is repeated up to "attempts"; a  *)
(* job whose lock expires is given to another worker once, and a worker    *)
(* that lost its job runs on.  Texts, times and recipients are left out.   *)
(***************************************************************************)
EXTENDS Naturals, FiniteSets

CONSTANTS
  LogIds,       \* the primary keys an instance may use
  MessageIds,   \* the ids MSG91 may give to messages
  NoMessage,    \* provider_message_id IS NULL
  Attempts,     \* the producer's attempts option
  Workers,      \* bound on the jobs being processed at once
  Hooks,        \* bound on concurrent webhook handlers
  Crashes,      \* whether callers, workers and handlers may stop between calls
  Faults,       \* whether a call may take effect and still be seen to fail
  BodyBound     \* whether the webhook route passes its request body on

ASSUME MessagesAssumption ==
  /\ NoMessage \notin MessageIds
  /\ Attempts \in Nat \ {0}
  /\ {Crashes, Faults, BodyBound} \subseteq BOOLEAN

VARIABLES
  logs,      \* id -> row, for the ids inserted so far
  jobs,      \* id -> the dispatch job of the log
  work,      \* worker -> what it does and whether it still has its job
  accepted,  \* MSG91: message id -> the log it was accepted for
  told,      \* MSG91: message id -> what it has reported
  hook       \* process -> what a webhook handler does and what it has read

providerVars == <<accepted, told>>
messagesVars == <<logs, jobs, work, providerVars, hook>>

Statuses == {"queued", "sent", "delivered", "read", "failed"}

Row == [status : Statuses, message : MessageIds \cup {NoMessage}]

Kinds == {"delivered", "read", "failed"}

Job == [state : {"none", "adding", "waiting", "active", "done", "failed"},
        tries : 0..Attempts,
        stalled : BOOLEAN]

NoJob == [state |-> "none", tries |-> 0, stalled |-> FALSE]

Work == [pc : {"idle"}]
          \cup [pc : {"find", "send", "refused", "finish", "throw"},
                log : LogIds, holds : BOOLEAN]
          \cup [pc : {"save"}, log : LogIds, holds : BOOLEAN,
                message : MessageIds]

NoWork == [pc |-> "idle"]

Handler == [pc : {"idle"}] \cup [pc : {"update"}, log : LogIds, kind : Kinds]

NoCall == [pc |-> "idle"]

MessagesInit ==
  /\ logs = [l \in {} |-> {}]
  /\ jobs = [l \in LogIds |-> NoJob]
  /\ work = [w \in Workers |-> NoWork]
  /\ accepted = [m \in {} |-> {}]
  /\ told = [m \in MessageIds |-> {}]
  /\ hook = [h \in Hooks |-> NoCall]

-----------------------------------------------------------------------------
(* dispatch and sendTemplate: createQueued, then enqueue.                   *)
Create(l) ==
  /\ l \notin DOMAIN logs
  /\ logs' = [x \in DOMAIN logs \cup {l} |->
                IF x = l THEN [status |-> "queued", message |-> NoMessage]
                         ELSE logs[x]]
  /\ jobs' = [jobs EXCEPT ![l].state = "adding"]
  /\ UNCHANGED <<work, providerVars, hook>>

Enqueue(l) ==
  /\ jobs[l].state = "adding"
  /\ jobs' = [jobs EXCEPT ![l].state = "waiting"]
  /\ UNCHANGED <<logs, work, providerVars, hook>>

(* The caller stops, or the queue is down: the row stays, without a job.    *)
EnqueueFails(l) ==
  /\ Crashes
  /\ jobs[l].state = "adding"
  /\ jobs' = [jobs EXCEPT ![l] = NoJob]
  /\ UNCHANGED <<logs, work, providerVars, hook>>

-----------------------------------------------------------------------------
SetStatus(l, s) == logs' = [logs EXCEPT ![l].status = s]

On(w, l) == work[w] # NoWork /\ work[w].log = l

WorkGoTo(w, step) ==
  work' = [work EXCEPT ![w] = [pc |-> step, log |-> @.log, holds |-> @.holds]]

WorkEnds(w) == work' = [work EXCEPT ![w] = NoWork]

TakeJob(w, l) ==
  /\ work[w] = NoWork
  /\ jobs[l].state = "waiting"
  /\ jobs' = [jobs EXCEPT ![l].state = "active"]
  /\ work' = [work EXCEPT ![w] = [pc |-> "find", log |-> l, holds |-> TRUE]]
  /\ UNCHANGED <<logs, providerVars, hook>>

(* Mutant of the next definition: a repeated job sends again.               *)
FindLogUnchecked(w) ==
  /\ work[w].pc = "find"
  /\ WorkGoTo(w, "send") \/ (Faults /\ WorkGoTo(w, "throw"))
  /\ UNCHANGED <<logs, jobs, providerVars, hook>>

(* process() reads the log, outside its try block, and skips one that was   *)
(* sent already.                                                            *)
FindLog(w) ==
  /\ work[w].pc = "find"
  /\ \/ WorkGoTo(w, IF logs[work[w].log].status \in {"sent", "delivered", "read"}
                    THEN "finish" ELSE "send")
     \/ Faults /\ WorkGoTo(w, "throw")
  /\ UNCHANGED <<logs, jobs, providerVars, hook>>

Accept(m, l) ==
  accepted' = [x \in DOMAIN accepted \cup {m} |->
                 IF x = m THEN l ELSE accepted[x]]

Save(w, m) ==
  work' = [work EXCEPT ![w] = [pc |-> "save", log |-> @.log, holds |-> @.holds,
                               message |-> m]]

(* Mutant of the next definition: a refusal is not told from an acceptance. *)
SendUnchecked(w) ==
  /\ work[w].pc = "send"
  /\ \E m \in MessageIds \ DOMAIN accepted :
       /\ Save(w, m)
       /\ Accept(m, work[w].log) \/ UNCHANGED accepted
  /\ UNCHANGED <<logs, jobs, told, hook>>

(* sendTemplate: MSG91 accepts the message and names it, or the call fails; *)
(* with Faults, a call that fails may have been accepted.                   *)
Send(w) ==
  /\ work[w].pc = "send"
  /\ \/ \E m \in MessageIds \ DOMAIN accepted :
          /\ Accept(m, work[w].log)
          /\ Save(w, m) \/ (Faults /\ WorkGoTo(w, "refused"))
     \/ WorkGoTo(w, "refused") /\ UNCHANGED accepted
  /\ UNCHANGED <<logs, jobs, told, hook>>

(* markSent, whatever the status is; it shares the try block of the send.   *)
SaveSent(w) ==
  /\ work[w].pc = "save"
  /\ \/ /\ logs' = [logs EXCEPT ![work[w].log] =
                      [status |-> "sent", message |-> work[w].message]]
        /\ WorkGoTo(w, "finish") \/ (Faults /\ WorkGoTo(w, "refused"))
     \/ Faults /\ WorkGoTo(w, "refused") /\ UNCHANGED logs
  /\ UNCHANGED <<jobs, providerVars, hook>>

(* The catch block: markFailed, whatever the status is, and rethrow.        *)
SaveFailed(w) ==
  /\ work[w].pc = "refused"
  /\ SetStatus(work[w].log, "failed") \/ (Faults /\ UNCHANGED logs)
  /\ WorkGoTo(w, "throw")
  /\ UNCHANGED <<jobs, providerVars, hook>>

(* The queue hears of an outcome only from the worker that has the job.     *)
FinishJob(w) ==
  LET l == work[w].log
  IN /\ work[w].pc = "finish"
     /\ IF work[w].holds
        THEN jobs' = [jobs EXCEPT ![l].state = "done"]
        ELSE UNCHANGED jobs
     /\ WorkEnds(w)
     /\ UNCHANGED <<logs, providerVars, hook>>

(* Mutant of the next definition: attempts are not counted.                 *)
RetryJobUncounted(w) ==
  LET l == work[w].log
  IN /\ work[w].pc = "throw"
     /\ IF work[w].holds
        THEN jobs' = [jobs EXCEPT ![l].state = "waiting"]
        ELSE UNCHANGED jobs
     /\ WorkEnds(w)
     /\ UNCHANGED <<logs, providerVars, hook>>

(* A failed attempt is repeated until the attempts are used up.             *)
RetryJob(w) ==
  LET l == work[w].log
  IN /\ work[w].pc = "throw"
     /\ IF work[w].holds
        THEN jobs' = [jobs EXCEPT ![l].tries = @ + 1,
                                  ![l].state = IF jobs[l].tries + 1 < Attempts
                                               THEN "waiting" ELSE "failed"]
        ELSE UNCHANGED jobs
     /\ WorkEnds(w)
     /\ UNCHANGED <<logs, providerVars, hook>>

WorkerDies(w) ==
  /\ Crashes
  /\ work[w] # NoWork
  /\ WorkEnds(w)
  /\ UNCHANGED <<logs, jobs, providerVars, hook>>

(* Mutant of the next definition: a stalled job is repeated every time.     *)
StallJobForever(l) ==
  /\ jobs[l].state = "active"
  /\ jobs' = [jobs EXCEPT ![l].state = "waiting", ![l].stalled = TRUE]
  /\ work' = [w \in Workers |->
                IF On(w, l) THEN [work[w] EXCEPT !.holds = FALSE] ELSE work[w]]
  /\ UNCHANGED <<logs, providerVars, hook>>

(* The job's lock expires, its worker being gone, stuck or cut off from     *)
(* Redis: repeated once, then given up.  A worker that had it goes on.      *)
StallJob(l) ==
  /\ jobs[l].state = "active"
  /\ jobs' = [jobs EXCEPT ![l].state = IF jobs[l].stalled THEN "failed"
                                                          ELSE "waiting",
                          ![l].stalled = TRUE]
  /\ work' = [w \in Workers |->
                IF On(w, l) THEN [work[w] EXCEPT !.holds = FALSE] ELSE work[w]]
  /\ UNCHANGED <<logs, providerVars, hook>>

WorkStep(w) ==
  \/ FindLog(w) \/ Send(w) \/ SaveSent(w) \/ SaveFailed(w)
  \/ FinishJob(w) \/ RetryJob(w)

-----------------------------------------------------------------------------
(* MSG91 reports on an accepted message, each kind once.                    *)
Report(m, k) ==
  /\ m \in DOMAIN accepted
  /\ k \notin told[m]
  /\ k = "delivered" => "failed" \notin told[m]
  /\ k = "read"      => "delivered" \in told[m] /\ "failed" \notin told[m]
  /\ k = "failed"    => "read" \notin told[m]
  /\ told' = [told EXCEPT ![m] = @ \cup {k}]
  /\ UNCHANGED <<logs, jobs, work, accepted, hook>>

(* findByProviderMessageId.                                                 *)
LogsOf(m) == {l \in DOMAIN logs : logs[l].message = m}

(* handleDeliveryStatus up to its lookup.  A report arrives any number of   *)
(* times, at any time or never; it is answered at once, so one that finds   *)
(* no log is gone.  The handler has no @Body(), so it is given no report    *)
(* at all unless BodyBound.                                                 *)
HookFind(h, m, k) ==
  /\ BodyBound
  /\ hook[h] = NoCall
  /\ k \in told[m]
  /\ \E l \in LogsOf(m) :
       hook' = [hook EXCEPT ![h] = [pc |-> "update", log |-> l, kind |-> k]]
  /\ UNCHANGED <<logs, jobs, work, providerVars>>

(* STATUS_RANK, and the same ranks in the UPDATE.                           *)
StatusRank == [queued |-> 1, sent |-> 2, delivered |-> 3, read |-> 4,
               failed |-> 99]

(* Mutant of the next definition: a failure replaces by rank as well.       *)
ReplacesByRank(k) == {s \in Statuses : StatusRank[s] < StatusRank[k]}

(* The statuses a report of kind k may replace.                             *)
Replaces(k) ==
  IF k = "failed" THEN {"sent", "delivered"}
  ELSE {s \in Statuses : StatusRank[s] < StatusRank[k]}

(* markDelivered, markRead and markFailedFromWebhook: one guarded UPDATE.   *)
HookUpdate(h) ==
  LET l == hook[h].log
      k == hook[h].kind
  IN /\ hook[h].pc = "update"
     /\ IF logs[l].status \in Replaces(k)
        THEN SetStatus(l, k)
        ELSE UNCHANGED logs
     /\ hook' = [hook EXCEPT ![h] = NoCall]
     /\ UNCHANGED <<jobs, work, providerVars>>

HookDies(h) ==
  /\ Crashes
  /\ hook[h] # NoCall
  /\ hook' = [hook EXCEPT ![h] = NoCall]
  /\ UNCHANGED <<logs, jobs, work, providerVars>>

HookStep(h) ==
  \/ \E m \in MessageIds, k \in Kinds : HookFind(h, m, k)
  \/ HookUpdate(h)

-----------------------------------------------------------------------------
MessagesNext ==
  \/ \E l \in LogIds :
       Create(l) \/ Enqueue(l) \/ EnqueueFails(l) \/ StallJob(l)
  \/ \E w \in Workers :
       (\E l \in LogIds : TakeJob(w, l)) \/ WorkStep(w) \/ WorkerDies(w)
  \/ \E m \in MessageIds, k \in Kinds : Report(m, k)
  \/ \E h \in Hooks : HookStep(h) \/ HookDies(h)

MessagesSpec == MessagesInit /\ [][MessagesNext]_messagesVars

(* Workers take waiting jobs and go on with those they have, and BullMQ     *)
(* checks for jobs whose lock expired.  Nothing is promised of callers, of  *)
(* MSG91 or of its reports.                                                 *)
MessagesFairness ==
  /\ \A l \in LogIds :
       /\ WF_messagesVars(\E w \in Workers : TakeJob(w, l))
       /\ WF_messagesVars(StallJob(l))
  /\ \A w \in Workers : WF_messagesVars(WorkStep(w))

-----------------------------------------------------------------------------
MessagesTypeOK ==
  /\ DOMAIN logs \subseteq LogIds
  /\ logs \in [DOMAIN logs -> Row]
  /\ jobs \in [LogIds -> Job]
  /\ work \in [Workers -> Work]
  /\ DOMAIN accepted \subseteq MessageIds
  /\ accepted \in [DOMAIN accepted -> LogIds]
  /\ told \in [MessageIds -> SUBSET Kinds]
  /\ hook \in [Hooks -> Handler]

MessagesOf(l) == {m \in DOMAIN accepted : accepted[m] = l}

(* A log says sent, delivered or read only if MSG91 accepted a message for  *)
(* it, and delivered or read only if MSG91 said so of such a message,       *)
(* however late or often its reports come.                                  *)
StatusHasReport ==
  \A l \in DOMAIN logs :
    /\ logs[l].status \in {"sent", "delivered", "read"} =>
         logs[l].message \in MessagesOf(l)
    /\ logs[l].status \in {"delivered", "read"} =>
         \E m \in MessagesOf(l) : logs[l].status \in told[m]

(* Sending is not repeated for a log that says it was sent, whatever        *)
(* retries and reports came in between the check and the call, as long as   *)
(* its job has not stalled.  After a stall the worker that lost the job and *)
(* the one that got it may both send, each having read the log before the   *)
(* other wrote it: README, Observations.                                    *)
SendsOnlyUnsent ==
  [][\A m \in DOMAIN accepted' \ DOMAIN accepted :
       LET l == accepted'[m]
       IN logs[l].status \in {"queued", "failed"} \/ jobs[l].stalled]_accepted

(* However attempts fail, whatever of them takes effect unheard, and though *)
(* workers that lost their job run on, a log costs at most one message per  *)
(* attempt and one more if its job stalled.                                 *)
SendsBounded ==
  \A l \in LogIds :
    Cardinality(MessagesOf(l)) <= Attempts + (IF jobs[l].stalled THEN 1 ELSE 0)

(* Reports in any order never take a status back: only a worker that is     *)
(* about to write a log lowers it, and a message that was read stays read.  *)
ReportsNeverLower ==
  [][\A l \in DOMAIN logs :
       (\A w \in Workers : On(w, l) => work[w].pc \notin {"save", "refused"}) =>
         /\ StatusRank[logs[l].status] <= StatusRank[logs'[l].status]
         /\ logs[l].status = "read" => logs'[l].status = "read"]_logs

(* A job counts as done only if MSG91 accepted a message of its log.        *)
DoneIsSent ==
  \A l \in LogIds : jobs[l].state = "done" => MessagesOf(l) # {}

(* Every job that was added is done or given up in the end.                 *)
JobSettles ==
  \A l \in LogIds :
    jobs[l].state = "waiting" ~> jobs[l].state \in {"done", "failed"}
=============================================================================
