--------------------------- MODULE MessagesProofs ---------------------------
(***************************************************************************)
(* Type correctness and safety of the message logs for every number of     *)
(* messages, attempts and webhook handlers, with and without crashes and   *)
(* calls that fail after they took effect.                                 *)
(***************************************************************************)
EXTENDS Messages, TLAPS

(* Only a log has a job, a job that is not at its end has attempts left,    *)
(* and one that counts as done had a message accepted.                      *)
JobEntry(l) ==
  /\ jobs[l].state \notin {"done", "failed"} => jobs[l].tries < Attempts
  /\ jobs[l].state # "none" => l \in DOMAIN logs
  /\ jobs[l].state = "done" => MessagesOf(l) # {}

(* A worker has lost its job only to a stall; without one it is about to    *)
(* send only a log that says queued or failed.  Whoever counts a log as     *)
(* sent does so for a message that MSG91 accepted.                          *)
WorkEntry(w) ==
  work[w] # NoWork =>
    /\ work[w].log \in DOMAIN logs
    /\ jobs[work[w].log].state \notin {"none", "adding"}
    /\ IF work[w].holds THEN jobs[work[w].log].state = "active"
                        ELSE jobs[work[w].log].stalled
    /\ work[w].pc = "send" =>
         \/ jobs[work[w].log].stalled
         \/ logs[work[w].log].status \in {"queued", "failed"}
    /\ work[w].pc = "save" => work[w].message \in MessagesOf(work[w].log)
    /\ work[w].pc = "finish" => MessagesOf(work[w].log) # {}

(* Two workers do not have the same job.                                    *)
OneHolder ==
  \A w, x \in Workers :
    /\ work[w] # NoWork /\ work[w].holds
    /\ work[x] # NoWork /\ work[x].holds
    /\ work[w].log = work[x].log
    => w = x

(* A log that names a message names one accepted for it; it does not go     *)
(* back to queued once it names one.                                        *)
LogEntry(l) ==
  /\ logs[l].message # NoMessage => logs[l].message \in MessagesOf(l)
  /\ logs[l].status = "queued" => logs[l].message = NoMessage
  /\ logs[l].status \in {"sent", "delivered", "read"} => logs[l].message # NoMessage
  /\ logs[l].status \in {"delivered", "read"} =>
       \E m \in MessagesOf(l) : logs[l].status \in told[m]

(* A handler is about to write what MSG91 reported of the log it found.     *)
HandlerEntry(r) ==
  r.pc = "update" =>
    /\ r.log \in DOMAIN logs
    /\ logs[r.log].message # NoMessage
    /\ \E m \in MessagesOf(r.log) : r.kind \in told[m]

(* The strengthening that the theorems rest on.                             *)
MessagesInv ==
  /\ MessagesTypeOK
  /\ \A l \in LogIds : JobEntry(l)
  /\ \A w \in Workers : WorkEntry(w)
  /\ OneHolder
  /\ \A l \in DOMAIN logs : LogEntry(l)
  /\ \A h \in Hooks : HandlerEntry(hook[h])
  /\ \A m \in MessageIds : told[m] # {} => m \in DOMAIN accepted

(* What a worker and a handler hold is given by their program counters.     *)
LEMMA WorkKinds ==
  /\ \A r \in Work : r.pc = "idle" <=> r = NoWork
  /\ \A r \in Work : r.pc = "save" => r.message \in MessageIds
  /\ \A r \in Work : r.pc # "idle" => r.log \in LogIds /\ r.holds \in BOOLEAN
  /\ \A r \in Handler : r.pc = "update" => r.log \in LogIds /\ r.kind \in Kinds
  BY DEF Work, NoWork, Handler

(* How a step of a worker leaves that worker.                               *)
Goes(w) ==
  \/ work' = [work EXCEPT ![w] = NoWork]
  \/ \E step \in {"find", "send", "refused", "finish", "throw"} :
       work' = [work EXCEPT ![w] = [pc |-> step, log |-> work[w].log,
                                    holds |-> work[w].holds]]
  \/ \E m \in MessageIds :
       work' = [work EXCEPT ![w] = [pc |-> "save", log |-> work[w].log,
                                    holds |-> work[w].holds, message |-> m]]

(* A worker that steps had work, and goes on with it or is done.            *)
LEMMA WorkersGo ==
  ASSUME MessagesTypeOK, NEW w \in Workers, WorkStep(w) \/ WorkerDies(w)
  PROVE  /\ work[w] # NoWork /\ work[w].log \in LogIds
         /\ work[w].holds \in BOOLEAN
         /\ Goes(w)
<1>1. work[w] # NoWork
  BY DEF WorkStep, FindLog, Send, SaveSent, SaveFailed, FinishJob, RetryJob,
         WorkerDies, NoWork
<1>2. work[w].log \in LogIds /\ work[w].holds \in BOOLEAN
  BY <1>1, WorkKinds DEF MessagesTypeOK
<1>3. Goes(w)
  <2>1. CASE FindLog(w) \/ SaveSent(w) \/ SaveFailed(w)
    BY <2>1 DEF FindLog, SaveSent, SaveFailed, WorkGoTo, Goes
  <2>2. CASE Send(w)
    BY <2>2 DEF Send, Save, WorkGoTo, Goes
  <2>3. CASE FinishJob(w) \/ RetryJob(w) \/ WorkerDies(w)
    BY <2>3 DEF FinishJob, RetryJob, WorkerDies, WorkEnds, Goes
  <2> QED BY <2>1, <2>2, <2>3 DEF WorkStep
<1> QED BY <1>1, <1>2, <1>3

(* So workers keep their types.                                             *)
LEMMA TypeGoes ==
  ASSUME MessagesTypeOK, NEW w \in Workers, WorkStep(w) \/ WorkerDies(w)
  PROVE  work' \in [Workers -> Work]
<1>1. PICK r \in Work : work' = [work EXCEPT ![w] = r]
  <2>1. NoWork \in Work
    BY DEF NoWork, Work
  <2>2. \A l \in LogIds, b \in BOOLEAN :
          /\ \A step \in {"find", "send", "refused", "finish", "throw"} :
               [pc |-> step, log |-> l, holds |-> b] \in Work
          /\ \A m \in MessageIds :
               [pc |-> "save", log |-> l, holds |-> b, message |-> m] \in Work
    BY DEF Work
  <2> QED BY <2>1, <2>2, WorkersGo DEF Goes
<1> QED BY <1>1 DEF MessagesTypeOK

(* Every step keeps the types.                                              *)
LEMMA TypeMessagesNext ==
  ASSUME MessagesInv, MessagesNext
  PROVE  MessagesTypeOK'
<1> USE MessagesAssumption DEF MessagesInv, MessagesTypeOK, providerVars
<1>1. ASSUME NEW l \in LogIds, Create(l)
      PROVE  MessagesTypeOK'
  <2>1. [status |-> "queued", message |-> NoMessage] \in Row
    BY DEF Row, Statuses
  <2> QED BY <1>1, <2>1 DEF Create, Job
<1>2. ASSUME NEW i \in LogIds,
             NEW s \in {"waiting", "active", "done", "failed"}
      PROVE  /\ [jobs EXCEPT ![i].state = s] \in [LogIds -> Job]
             /\ [jobs EXCEPT ![i].state = s, ![i].stalled = TRUE]
                  \in [LogIds -> Job]
  <2>1. [jobs[i] EXCEPT !.state = s] \in Job
    BY DEF Job
  <2>2. [jobs[i] EXCEPT !.state = s, !.stalled = TRUE] \in Job
    BY ZenonT(60) DEF Job
  <2> QED BY <2>1, <2>2
<1>12. ASSUME NEW l \in LogIds,
              Enqueue(l) \/ EnqueueFails(l) \/ StallJob(l)
                \/ \E w \in Workers : TakeJob(w, l)
       PROVE  MessagesTypeOK'
  <2>1. NoJob \in Job
    BY DEF NoJob, Job
  <2>2. CASE Enqueue(l)
    BY <1>2, <2>2 DEF Enqueue
  <2>3. CASE EnqueueFails(l)
    BY <2>1, <2>3 DEF EnqueueFails
  <2>4. CASE StallJob(l)
    <3>1. \A r \in Work : r # NoWork => [r EXCEPT !.holds = FALSE] \in Work
      <4>1. \A r \in Work : r # NoWork =>
              \/ r \in [pc : {"find", "send", "refused", "finish", "throw"},
                        log : LogIds, holds : BOOLEAN]
              \/ r \in [pc : {"save"}, log : LogIds, holds : BOOLEAN,
                        message : MessageIds]
        BY DEF NoWork, Work
      <4>2. \A r \in [pc : {"find", "send", "refused", "finish", "throw"},
                      log : LogIds, holds : BOOLEAN] :
              [r EXCEPT !.holds = FALSE] \in Work
        BY DEF Work
      <4>3. \A r \in [pc : {"save"}, log : LogIds, holds : BOOLEAN,
                      message : MessageIds] :
              [r EXCEPT !.holds = FALSE] \in Work
        BY DEF Work
      <4> QED BY <4>1, <4>2, <4>3
    <3>2. work' \in [Workers -> Work]
      BY <2>4, <3>1 DEF StallJob, On
    <3>3. jobs' \in [LogIds -> Job]
      BY <1>2, <2>4 DEF StallJob
    <3> QED BY <2>4, <3>2, <3>3 DEF StallJob
  <2>5. ASSUME NEW w \in Workers, TakeJob(w, l)
        PROVE  MessagesTypeOK'
    BY ZenonT(60), <1>2, <2>5 DEF TakeJob, Work
  <2> QED BY <1>12, <2>2, <2>3, <2>4, <2>5
<1>13. ASSUME NEW w \in Workers, FinishJob(w) \/ WorkerDies(w)
       PROVE  MessagesTypeOK'
  <2>1. work' \in [Workers -> Work]
    BY <1>13, TypeGoes DEF WorkStep
  <2>2. PICK l \in LogIds : l = work[w].log
    BY <1>13, WorkersGo DEF WorkStep
  <2>3. UNCHANGED jobs \/ jobs' = [jobs EXCEPT ![l].state = "done"]
    BY <1>13, <2>2 DEF FinishJob, WorkerDies
  <2>4. jobs' \in [LogIds -> Job]
    <3>1. [jobs EXCEPT ![l].state = "done"] \in [LogIds -> Job]
      BY <1>2
    <3> QED BY <2>3, <3>1
  <2> QED BY <1>13, <2>1, <2>4 DEF FinishJob, WorkerDies
<1>3. ASSUME NEW w \in Workers, FindLog(w)
      PROVE  MessagesTypeOK'
  BY <1>3, TypeGoes DEF FindLog, WorkStep
<1>4. ASSUME NEW w \in Workers, Send(w)
      PROVE  MessagesTypeOK'
  <2>1. work[w].log \in LogIds /\ work' \in [Workers -> Work]
    BY <1>4, WorkersGo, TypeGoes DEF WorkStep
  <2>2. /\ DOMAIN accepted' \subseteq MessageIds
        /\ accepted' \in [DOMAIN accepted' -> LogIds]
    BY <1>4, <2>1 DEF Send, Accept
  <2> QED BY <1>4, <2>1, <2>2 DEF Send
<1>5. ASSUME NEW w \in Workers, SaveSent(w)
      PROVE  MessagesTypeOK'
  <2>1. [status |-> "sent", message |-> work[w].message] \in Row
    BY <1>5, WorkKinds DEF SaveSent, Row, Statuses
  <2>2. logs' \in [DOMAIN logs -> Row] /\ DOMAIN logs' = DOMAIN logs
    BY <1>5, <2>1 DEF SaveSent
  <2> QED BY <1>5, <2>2, TypeGoes DEF SaveSent, WorkStep
<1>6. ASSUME NEW w \in Workers, SaveFailed(w)
      PROVE  MessagesTypeOK'
  <2>1. logs' \in [DOMAIN logs -> Row] /\ DOMAIN logs' = DOMAIN logs
    <3>1. \A l \in DOMAIN logs : [logs[l] EXCEPT !.status = "failed"] \in Row
      BY DEF Row, Statuses
    <3> QED BY <1>6, <3>1 DEF SaveFailed, SetStatus
  <2> QED BY <1>6, <2>1, TypeGoes DEF SaveFailed, WorkStep
<1>7. ASSUME NEW w \in Workers, RetryJob(w)
      PROVE  MessagesTypeOK'
  <2>0. work' \in [Workers -> Work] /\ UNCHANGED <<logs, accepted, told, hook>>
    BY <1>7, TypeGoes DEF RetryJob, WorkStep
  <2>1. CASE UNCHANGED jobs
    BY <2>0, <2>1
  <2>2. CASE work[w].holds
    <3>1. PICK l \in LogIds : l = work[w].log
      BY <1>7, WorkersGo DEF WorkStep
    <3>2. jobs[l] \in Job /\ jobs[l].state = "active"
      BY <1>7, <2>2, <3>1, WorkersGo DEF WorkEntry, WorkStep
    <3>3. jobs[l].tries \in 0..Attempts /\ jobs[l].tries < Attempts
      BY <3>2 DEF Job, JobEntry
    <3> DEFINE n == jobs[l].tries + 1
    <3>4. n \in 0..Attempts
      BY <3>3
    <3>5. \E s \in {"waiting", "failed"} :
            jobs' = [jobs EXCEPT ![l] = [jobs[l] EXCEPT !.tries = n, !.state = s]]
      BY ZenonT(60), <1>7, <2>2, <3>1 DEF RetryJob
    <3> HIDE DEF n
    <3>6. \A s \in {"waiting", "failed"} :
            [jobs[l] EXCEPT !.tries = n, !.state = s] \in Job
      BY <3>2, <3>4 DEF Job
    <3>7. jobs' \in [LogIds -> Job]
      BY ZenonT(60), <3>5, <3>6
    <3> QED BY <2>0, <3>7
  <2> QED BY <1>7, <2>1, <2>2 DEF RetryJob
<1>8. ASSUME NEW m \in MessageIds, NEW k \in Kinds, Report(m, k)
      PROVE  MessagesTypeOK'
  BY <1>8 DEF Report
<1>9. ASSUME NEW h \in Hooks, NEW m \in MessageIds, NEW k \in Kinds, HookFind(h, m, k)
      PROVE  MessagesTypeOK'
  BY <1>9 DEF HookFind, LogsOf, Handler
<1>10. ASSUME NEW h \in Hooks, HookUpdate(h)
       PROVE  MessagesTypeOK'
  <2>1. hook[h].kind \in Statuses
    BY <1>10, WorkKinds DEF HookUpdate, Kinds, Statuses
  <2> QED BY <1>10, <2>1 DEF HookUpdate, SetStatus, NoCall, Handler, Row
<1>11. ASSUME NEW h \in Hooks, HookDies(h)
       PROVE  MessagesTypeOK'
  BY <1>11 DEF HookDies, NoCall, Handler
<1> QED
  BY <1>1, <1>2, <1>3, <1>4, <1>5, <1>6, <1>7, <1>8, <1>9, <1>10, <1>11, <1>12,
     <1>13
  DEF MessagesNext, WorkStep, HookStep

-----------------------------------------------------------------------------
(* What MSG91 accepted and reported it does not take back.                  *)
LEMMA ProviderGrows ==
  ASSUME MessagesInv, MessagesNext
  PROVE  /\ \A l : MessagesOf(l) \subseteq MessagesOf(l)'
         /\ \A m \in MessageIds : told[m] \subseteq told'[m]
<1>1. \A m \in DOMAIN accepted : m \in DOMAIN accepted' /\ accepted'[m] = accepted[m]
  BY DEF MessagesNext, WorkStep, HookStep, Create, Enqueue, EnqueueFails, TakeJob,
         FindLog, Send, Accept, SaveSent, SaveFailed, FinishJob, RetryJob,
         WorkerDies, StallJob,
         Report, HookFind, HookUpdate, HookDies, providerVars
<1>2. CASE UNCHANGED told
  BY <1>1, <1>2 DEF MessagesOf
<1>3. ASSUME NEW m \in MessageIds, NEW k \in Kinds, Report(m, k)
      PROVE  \A x \in MessageIds : told[x] \subseteq told'[x]
  BY <1>3 DEF Report, MessagesInv, MessagesTypeOK
<1>4. UNCHANGED told \/ \E m \in MessageIds, k \in Kinds : Report(m, k)
  BY DEF MessagesNext, WorkStep, HookStep, Create, Enqueue, EnqueueFails, TakeJob,
         FindLog, Send, Accept, SaveSent, SaveFailed, FinishJob, RetryJob,
         WorkerDies, StallJob,
         HookFind, HookUpdate, HookDies, providerVars
<1> QED BY <1>1, <1>2, <1>3, <1>4 DEF MessagesOf

(* How a step writes log rows: it creates one, a worker stores an accepted  *)
(* message or marks a refused one failed, or a handler raises the status as *)
(* a report says.                                                           *)
WritesLog ==
  /\ \A l \in DOMAIN logs' \ DOMAIN logs :
       logs'[l] = [status |-> "queued", message |-> NoMessage]
  /\ \A l \in DOMAIN logs :
       /\ l \in DOMAIN logs'
       /\ \/ logs'[l] = logs[l]
          \/ \E w \in Workers :
               /\ work[w].pc = "save" /\ work[w].log = l
               /\ logs'[l] = [status |-> "sent", message |-> work[w].message]
          \/ /\ \E w \in Workers : work[w].pc = "refused" /\ work[w].log = l
             /\ logs'[l].status = "failed"
             /\ logs'[l].message = logs[l].message
          \/ /\ \E h \in Hooks : /\ hook[h].pc = "update" /\ hook[h].log = l
                               /\ logs'[l].status = hook[h].kind
             /\ logs[l].status \in Replaces(logs'[l].status)
             /\ logs'[l].message = logs[l].message

(* Every step writes log rows in one of these ways.                         *)
LEMMA LogsAreWritten ==
  ASSUME MessagesInv, MessagesNext
  PROVE  WritesLog
<1> USE DEF MessagesInv, MessagesTypeOK
<1>1. CASE UNCHANGED logs
  BY <1>1 DEF WritesLog
<1>2. ASSUME NEW l \in LogIds, Create(l)
      PROVE  WritesLog
  BY <1>2 DEF Create, WritesLog
<1>3. ASSUME NEW w \in Workers, SaveSent(w)
      PROVE  WritesLog
  BY <1>1, <1>3 DEF SaveSent, WritesLog
<1>4. ASSUME NEW w \in Workers, SaveFailed(w)
      PROVE  WritesLog
  <2>1. CASE UNCHANGED logs
    BY <1>1, <2>1
  <2>2. CASE SetStatus(work[w].log, "failed")
    <3>1. PICK i : i = work[w].log
      OBVIOUS
    <3>2. logs' = [logs EXCEPT ![i] = [logs[i] EXCEPT !.status = "failed"]]
      BY <2>2, <3>1 DEF SetStatus
    <3>3. i \in DOMAIN logs => /\ logs'[i].status = "failed"
                              /\ logs'[i].message = logs[i].message
      BY <3>2 DEF Row
    <3> QED BY <1>4, <3>1, <3>2, <3>3 DEF SaveFailed, WritesLog
  <2> QED BY <1>4, <2>1, <2>2 DEF SaveFailed
<1>5. ASSUME NEW h \in Hooks, HookUpdate(h)
      PROVE  WritesLog
  <2>1. CASE UNCHANGED logs
    BY <1>1, <2>1
  <2>2. CASE logs[hook[h].log].status \in Replaces(hook[h].kind)
             /\ SetStatus(hook[h].log, hook[h].kind)
    <3>1. PICK i, k : i = hook[h].log /\ k = hook[h].kind
      OBVIOUS
    <3>2. logs' = [logs EXCEPT ![i] = [logs[i] EXCEPT !.status = k]]
      BY <2>2, <3>1 DEF SetStatus
    <3>3. i \in DOMAIN logs => /\ logs'[i].status = k
                              /\ logs'[i].message = logs[i].message
      BY SMTT(60), <3>2 DEF Row
    <3> QED BY <1>5, <2>2, <3>1, <3>2, <3>3 DEF HookUpdate, WritesLog
  <2> QED BY <1>5, <2>1, <2>2 DEF HookUpdate
<1>6. \/ UNCHANGED logs
      \/ \E l \in LogIds : Create(l)
      \/ \E w \in Workers : SaveSent(w) \/ SaveFailed(w)
      \/ \E h \in Hooks : HookUpdate(h)
  BY DEF MessagesNext, WorkStep, HookStep, Enqueue, EnqueueFails, TakeJob,
         FindLog, Send, FinishJob, RetryJob, WorkerDies, StallJob, Report,
         HookFind, HookDies
<1> QED BY <1>1, <1>2, <1>3, <1>4, <1>5, <1>6

(* A log keeps saying only what was accepted and reported.                  *)
LEMMA LogEntriesNext ==
  ASSUME MessagesInv, MessagesNext, NEW l \in DOMAIN logs'
  PROVE  LogEntry(l)'
<1> USE DEF MessagesInv, MessagesTypeOK
<1>1. WritesLog /\ MessagesOf(l) \subseteq MessagesOf(l)'
        /\ \A m \in MessageIds : told[m] \subseteq told'[m]
  BY LogsAreWritten, ProviderGrows
<1>2. MessagesOf(l) \subseteq MessageIds /\ NoMessage \notin MessageIds
  BY MessagesAssumption DEF MessagesOf
<1>3. CASE l \notin DOMAIN logs
  BY <1>1, <1>3 DEF WritesLog, LogEntry
<1>4. CASE l \in DOMAIN logs /\ logs'[l] = logs[l]
  BY <1>1, <1>2, <1>4 DEF LogEntry
<1>5. ASSUME l \in DOMAIN logs, NEW w \in Workers,
             work[w].pc = "save", work[w].log = l,
             logs'[l] = [status |-> "sent", message |-> work[w].message]
      PROVE  LogEntry(l)'
  <2>1. work[w].message \in MessagesOf(l)
    BY <1>5 DEF WorkEntry, NoWork
  <2> QED BY <1>1, <1>2, <1>5, <2>1 DEF LogEntry
<1>6. CASE /\ l \in DOMAIN logs /\ logs'[l].status = "failed"
           /\ logs'[l].message = logs[l].message
  BY <1>1, <1>6 DEF LogEntry
<1>7. ASSUME l \in DOMAIN logs, logs'[l].message = logs[l].message,
             NEW h \in Hooks, hook[h].pc = "update", hook[h].log = l,
             logs'[l].status = hook[h].kind
      PROVE  LogEntry(l)'
  <2>1. /\ logs[l].message # NoMessage /\ hook[h].kind \in Kinds
        /\ \E m \in MessagesOf(l) : hook[h].kind \in told[m]
    BY <1>7, WorkKinds DEF HandlerEntry
  <2>2. \E m \in MessagesOf(l)' : logs'[l].status \in told'[m]
    BY <1>1, <1>2, <1>7, <2>1
  <2> QED BY <1>1, <1>7, <2>1, <2>2 DEF LogEntry, Kinds
<1> QED BY <1>1, <1>3, <1>4, <1>5, <1>6, <1>7 DEF WritesLog

(* What a handler found stays so: a log is not taken from its message.      *)
LEMMA HandlerEntriesNext ==
  ASSUME MessagesInv, MessagesNext, NEW h \in Hooks
  PROVE  HandlerEntry(hook[h])'
<1> USE DEF MessagesInv, MessagesTypeOK
<1>1. /\ WritesLog
      /\ \A l : MessagesOf(l) \subseteq MessagesOf(l)'
      /\ \A m \in MessageIds : told[m] \subseteq told'[m]
  BY LogsAreWritten, ProviderGrows
<1>2. \A l : MessagesOf(l) \subseteq MessageIds
  BY DEF MessagesOf
<1>3. ASSUME NEW l \in DOMAIN logs, logs[l].message # NoMessage
      PROVE  l \in DOMAIN logs' /\ logs'[l].message # NoMessage
  <2>1. \A w \in Workers : work[w].pc = "save" => work[w].message # NoMessage
    BY WorkKinds, MessagesAssumption
  <2>2. CASE \E w \in Workers :
               /\ work[w].pc = "save"
               /\ logs'[l] = [status |-> "sent", message |-> work[w].message]
    BY <1>1, <2>1, <2>2 DEF WritesLog
  <2>3. CASE logs'[l].message = logs[l].message
    BY <1>1, <1>3, <2>3 DEF WritesLog
  <2> QED BY <1>1, <2>2, <2>3 DEF WritesLog
<1>4. CASE hook'[h] = hook[h]
  BY <1>1, <1>2, <1>3, <1>4 DEF HandlerEntry
<1>5. CASE hook'[h] = NoCall
  BY <1>5 DEF HandlerEntry, NoCall
<1>6. ASSUME NEW m \in MessageIds, NEW k \in Kinds, HookFind(h, m, k)
      PROVE  HandlerEntry(hook[h])'
  <2>1. PICK l \in LogsOf(m) :
          hook' = [hook EXCEPT ![h] = [pc |-> "update", log |-> l, kind |-> k]]
    BY <1>6 DEF HookFind
  <2>2. /\ l \in DOMAIN logs /\ logs[l].message = m /\ m # NoMessage
        /\ k \in told[m] /\ UNCHANGED <<logs, accepted, told>>
    BY <1>6, MessagesAssumption DEF HookFind, LogsOf, providerVars
  <2>3. m \in MessagesOf(l)
    BY <2>2 DEF LogEntry
  <2> QED BY <1>1, <2>1, <2>2, <2>3 DEF HandlerEntry
<1>7. \/ hook'[h] = hook[h] \/ hook'[h] = NoCall
      \/ \E m \in MessageIds, k \in Kinds : HookFind(h, m, k)
  <2>1. \/ UNCHANGED hook
        \/ \E x \in Hooks : HookStep(x) \/ HookDies(x)
    BY DEF MessagesNext, WorkStep, Create, Enqueue, EnqueueFails, TakeJob,
           FindLog, Send, SaveSent, SaveFailed, FinishJob, RetryJob, WorkerDies,
           StallJob, Report
  <2>2. ASSUME NEW x \in Hooks, HookStep(x) \/ HookDies(x), x # h
        PROVE  hook'[h] = hook[h]
    BY <2>2 DEF HookStep, HookFind, HookUpdate, HookDies
  <2>3. ASSUME HookUpdate(h) \/ HookDies(h)
        PROVE  hook'[h] = NoCall
    BY <2>3 DEF HookUpdate, HookDies
  <2> QED BY <2>1, <2>2, <2>3 DEF HookStep
<1> QED BY <1>4, <1>5, <1>6, <1>7

(* How a step moves the job of a log: the caller adds it, a worker takes    *)
(* it, the worker that has it ends the attempt, or it stalls.               *)
MovesJob(l) ==
  \/ UNCHANGED jobs[l]
  \/ Create(l) \/ Enqueue(l) \/ EnqueueFails(l)
  \/ \E w \in Workers : TakeJob(w, l)
  \/ \E w \in Workers :
       /\ work[w] # NoWork /\ work[w].log = l /\ work[w].holds
       /\ FinishJob(w) \/ RetryJob(w)
  \/ StallJob(l)

(* Every step moves jobs in one of these ways.                              *)
LEMMA JobsMove ==
  ASSUME MessagesInv, MessagesNext, NEW l \in LogIds
  PROVE  MovesJob(l)
<1> USE DEF MessagesInv, MessagesTypeOK
<1>1. ASSUME NEW x \in LogIds, Create(x)
      PROVE  MovesJob(l)
  BY <1>1 DEF Create, MovesJob
<1>2. ASSUME NEW x \in LogIds,
             Enqueue(x) \/ EnqueueFails(x) \/ StallJob(x)
               \/ \E w \in Workers : TakeJob(w, x)
      PROVE  MovesJob(l)
  BY <1>2 DEF Enqueue, EnqueueFails, StallJob, TakeJob, MovesJob
<1>3. ASSUME NEW w \in Workers, FinishJob(w) \/ RetryJob(w)
      PROVE  MovesJob(l)
  <2>1. work[w] # NoWork
    BY <1>3 DEF FinishJob, RetryJob, NoWork
  <2>2. CASE work[w].holds /\ work[w].log = l
    BY <1>3, <2>1, <2>2 DEF MovesJob
  <2>3. CASE ~work[w].holds \/ work[w].log # l
    BY <1>3, <2>3 DEF FinishJob, RetryJob, MovesJob
  <2> QED BY <2>2, <2>3
<1>4. \/ UNCHANGED jobs
      \/ \E x \in LogIds :
           \/ Create(x) \/ Enqueue(x) \/ EnqueueFails(x) \/ StallJob(x)
           \/ \E w \in Workers : TakeJob(w, x)
      \/ \E w \in Workers : FinishJob(w) \/ RetryJob(w)
  BY DEF MessagesNext, WorkStep, HookStep, FindLog, Send, SaveSent, SaveFailed,
         WorkerDies, Report, HookFind, HookUpdate, HookDies
<1> QED BY <1>1, <1>2, <1>3, <1>4 DEF MovesJob

(* A job that was added stays so, and once stalled it stays stalled.        *)
LEMMA JobsGrow ==
  ASSUME MessagesInv, MessagesNext, NEW l \in LogIds,
         jobs[l].state \notin {"none", "adding"}
  PROVE  /\ jobs'[l].state \notin {"none", "adding"}
         /\ jobs[l].stalled => jobs'[l].stalled
<1> USE DEF MessagesInv, MessagesTypeOK
<1>1. jobs[l] \in Job
  OBVIOUS
<1>2. CASE \E w \in Workers : TakeJob(w, l)
  BY <1>1, <1>2 DEF TakeJob, Job
<1>3. CASE StallJob(l)
  BY <1>1, <1>3 DEF StallJob, Job
<1>4. ASSUME NEW w \in Workers, work[w].log = l, FinishJob(w) \/ RetryJob(w)
      PROVE  /\ jobs'[l].state \notin {"none", "adding"}
             /\ jobs[l].stalled => jobs'[l].stalled
  <2>1. CASE UNCHANGED jobs
    BY <2>1
  <2>2. CASE FinishJob(w) /\ ~UNCHANGED jobs
    <3>1. jobs' = [jobs EXCEPT ![l] = [jobs[l] EXCEPT !.state = "done"]]
      BY <1>4, <2>2 DEF FinishJob
    <3> QED BY <1>1, <3>1 DEF Job
  <2>3. CASE RetryJob(w) /\ ~UNCHANGED jobs
    <3> DEFINE n == jobs[l].tries + 1
    <3>1. \/ jobs' = [jobs EXCEPT ![l] =
                        [jobs[l] EXCEPT !.tries = n, !.state = "waiting"]]
          \/ jobs' = [jobs EXCEPT ![l] =
                        [jobs[l] EXCEPT !.tries = n, !.state = "failed"]]
      BY ZenonT(60), <1>4, <2>3 DEF RetryJob
    <3> HIDE DEF n
    <3>2. \A s \in {"waiting", "failed"} :
            LET r == [jobs[l] EXCEPT !.tries = n, !.state = s]
            IN r.state = s /\ r.stalled = jobs[l].stalled
      BY <1>1 DEF Job
    <3> QED BY <3>1, <3>2
  <2> QED BY <1>4, <2>1, <2>2, <2>3
<1>5. CASE Create(l) \/ Enqueue(l) \/ EnqueueFails(l)
  BY <1>5 DEF Create, Enqueue, EnqueueFails, JobEntry
<1>6. CASE UNCHANGED jobs[l]
  BY <1>6
<1> QED BY <1>2, <1>3, <1>4, <1>5, <1>6, JobsMove DEF MovesJob

(* A job moves on only with what its worker found or did.                   *)
LEMMA JobEntriesNext ==
  ASSUME MessagesInv, MessagesNext, NEW l \in LogIds
  PROVE  JobEntry(l)'
<1> USE DEF MessagesInv, MessagesTypeOK
<1>1. MessagesOf(l) \subseteq MessagesOf(l)'
  BY ProviderGrows
<1>2. l \in DOMAIN logs => l \in DOMAIN logs'
  BY LogsAreWritten DEF WritesLog
<1>3. CASE UNCHANGED jobs[l]
  BY <1>1, <1>2, <1>3 DEF JobEntry
<1>4. CASE Create(l) \/ Enqueue(l) \/ EnqueueFails(l)
  <2>1. 0 < Attempts
    BY MessagesAssumption
  <2>2. CASE Create(l)
    BY <2>2 DEF Create, JobEntry, Job
  <2>3. CASE Enqueue(l)
    BY <1>2, <2>3 DEF Enqueue, JobEntry, Job
  <2>4. CASE EnqueueFails(l)
    BY <2>1, <2>4 DEF EnqueueFails, JobEntry, NoJob
  <2> QED BY <1>4, <2>2, <2>3, <2>4
<1>5. ASSUME NEW w \in Workers, TakeJob(w, l)
      PROVE  JobEntry(l)'
  BY <1>2, <1>5 DEF TakeJob, JobEntry, Job
<1>6. CASE StallJob(l)
  BY <1>2, <1>6 DEF StallJob, JobEntry, Job
<1>7. ASSUME NEW w \in Workers, work[w] # NoWork, work[w].log = l,
             work[w].holds, FinishJob(w) \/ RetryJob(w)
      PROVE  JobEntry(l)'
  <2>1. /\ jobs[l] \in Job /\ jobs[l].state = "active" /\ l \in DOMAIN logs
        /\ work[w].pc = "finish" => MessagesOf(l) # {}
    BY <1>7 DEF WorkEntry
  <2>2. CASE FinishJob(w)
    BY <1>1, <1>2, <1>7, <2>1, <2>2 DEF FinishJob, JobEntry, Job
  <2>3. CASE RetryJob(w)
    <3> DEFINE n == jobs[l].tries + 1
    <3>1. \/ n < Attempts /\ jobs' = [jobs EXCEPT ![l] =
                              [jobs[l] EXCEPT !.tries = n, !.state = "waiting"]]
          \/ jobs' = [jobs EXCEPT ![l] =
                        [jobs[l] EXCEPT !.tries = n, !.state = "failed"]]
      BY <1>7, <2>3 DEF RetryJob
    <3> HIDE DEF n
    <3>2. \/ n < Attempts /\ jobs'[l].tries = n /\ jobs'[l].state = "waiting"
          \/ jobs'[l].state = "failed"
      <4>1. \A s \in {"waiting", "failed"} :
              LET r == [jobs[l] EXCEPT !.tries = n, !.state = s]
              IN r.tries = n /\ r.state = s
        BY <2>1 DEF Job
      <4> QED BY <3>1, <4>1
    <3> QED BY <1>2, <2>1, <3>2 DEF JobEntry
  <2> QED BY <1>7, <2>2, <2>3
<1> QED BY <1>3, <1>4, <1>5, <1>6, <1>7, JobsMove DEF MovesJob

(* A worker that the step leaves alone still knows what it found: as long   *)
(* as its job has not stalled nobody else writes its log, and reports do    *)
(* not make a log that is about to be sent anything but queued or failed.   *)
LEMMA WorkEntryStays ==
  ASSUME MessagesInv, MessagesNext, NEW w \in Workers, work'[w] = work[w],
         work[w] # NoWork,
         work[w].holds => jobs'[work[w].log].state = "active"
  PROVE  WorkEntry(w)'
<1> USE DEF MessagesInv, MessagesTypeOK
<1>1. PICK l \in LogIds : l = work[w].log
  BY WorkKinds
<1>2. /\ l \in DOMAIN logs /\ l \in DOMAIN logs'
      /\ MessagesOf(l) \subseteq MessagesOf(l)'
  BY <1>1, LogsAreWritten, ProviderGrows DEF WorkEntry, WritesLog
<1>3. /\ jobs'[l].state \notin {"none", "adding"}
      /\ jobs[l].stalled => jobs'[l].stalled
  BY <1>1, JobsGrow DEF WorkEntry
<1>4. ASSUME work[w].pc = "send", ~jobs[l].stalled
      PROVE  logs'[l].status \in {"queued", "failed"}
  <2>1. logs[l].status \in {"queued", "failed"}
    BY <1>1, <1>4 DEF WorkEntry
  <2>2. ASSUME NEW x \in Workers, work[x].pc \in {"save", "refused"},
               work[x].log = l
        PROVE  FALSE
    <3>1. work[x] # NoWork
      BY <2>2 DEF NoWork
    <3>2. work[x].holds /\ work[w].holds
      BY <1>1, <1>4, <2>2, <3>1 DEF WorkEntry
    <3> QED BY <1>1, <1>4, <2>2, <3>1, <3>2 DEF OneHolder
  <2>3. CASE logs'[l] = logs[l]
    BY <2>1, <2>3
  <2>4. ASSUME NEW h \in Hooks, hook[h].pc = "update", hook[h].log = l,
               logs[l].status \in Replaces(hook[h].kind)
        PROVE  FALSE
    <3>1. hook[h].kind \in Kinds /\ logs[l].message # NoMessage
      BY <2>4, WorkKinds DEF HandlerEntry
    <3>2. logs[l].status = "failed"
      BY <1>2, <2>1, <3>1 DEF LogEntry
    <3>3. logs[l].status \notin Replaces(hook[h].kind)
      BY <3>1, <3>2 DEF Replaces, Kinds, StatusRank
    <3> QED BY <2>4, <3>3
  <2> QED BY <1>2, <2>2, <2>3, <2>4, LogsAreWritten DEF WritesLog
<1> QED BY <1>1, <1>2, <1>3, <1>4 DEF WorkEntry

(* A worker acts on what it finds in this step or did.                      *)
LEMMA WorkEntriesNext ==
  ASSUME MessagesInv, MessagesNext, NEW w \in Workers
  PROVE  WorkEntry(w)'
<1> USE DEF MessagesInv, MessagesTypeOK
<1>1. CASE work'[w] = NoWork
  BY <1>1 DEF WorkEntry
<1>2. CASE UNCHANGED <<jobs, work>>
  BY <1>1, <1>2, WorkEntryStays DEF WorkEntry
<1>3. ASSUME NEW l \in LogIds, Create(l) \/ Enqueue(l) \/ EnqueueFails(l)
      PROVE  WorkEntry(w)'
  <2>1. UNCHANGED work /\ \A x \in LogIds \ {l} : jobs'[x] = jobs[x]
    BY <1>3 DEF Create, Enqueue, EnqueueFails
  <2>2. jobs[l].state \in {"none", "adding"}
    BY <1>3 DEF Create, Enqueue, EnqueueFails, JobEntry
  <2>3. CASE work[w] # NoWork
    <3>1. work[w].log \in LogIds \ {l}
      BY <2>2, <2>3, WorkKinds DEF WorkEntry
    <3> QED BY <2>1, <2>3, <3>1, WorkEntryStays DEF WorkEntry
  <2> QED BY <1>1, <2>1, <2>3
<1>4. ASSUME NEW l \in LogIds, NEW x \in Workers, TakeJob(x, l)
      PROVE  WorkEntry(w)'
  <2>1. jobs[l].state = "waiting" /\ jobs'[l].state = "active"
    BY <1>4 DEF TakeJob, Job
  <2>2. /\ work'[x] = [pc |-> "find", log |-> l, holds |-> TRUE]
        /\ w # x => work'[w] = work[w]
        /\ l \in DOMAIN logs /\ UNCHANGED logs
        /\ \A i \in LogIds \ {l} : jobs'[i] = jobs[i]
    BY <1>4 DEF TakeJob, JobEntry
  <2>3. CASE w = x
    BY <2>1, <2>2, <2>3 DEF WorkEntry
  <2>4. CASE w # x /\ work[w] # NoWork
    <3>1. work[w].log \in LogIds
      BY <2>4, WorkKinds
    <3>2. work[w].holds => jobs'[work[w].log].state = "active"
      BY <2>1, <2>2, <2>4, <3>1 DEF WorkEntry
    <3> QED BY <2>2, <2>4, <3>2, WorkEntryStays
  <2> QED BY <1>1, <2>2, <2>3, <2>4
<1>5. ASSUME NEW l \in LogIds, StallJob(l)
      PROVE  WorkEntry(w)'
  <2>1. /\ jobs[l].state = "active" /\ jobs'[l].stalled
        /\ jobs'[l].state \in {"waiting", "failed"}
        /\ \A i \in LogIds \ {l} : jobs'[i] = jobs[i]
        /\ UNCHANGED <<logs, accepted, told>>
    BY <1>5 DEF StallJob, Job, providerVars
  <2>2. CASE On(w, l)
    <3>1. work'[w] = [work[w] EXCEPT !.holds = FALSE]
      BY <1>5, <2>2 DEF StallJob
    <3>2. \/ work[w] \in [pc : {"find", "send", "refused", "finish", "throw"},
                          log : LogIds, holds : BOOLEAN]
          \/ work[w] \in [pc : {"save"}, log : LogIds, holds : BOOLEAN,
                          message : MessageIds]
      BY <2>2 DEF On, Work, NoWork
    <3>3. /\ work'[w].pc = work[w].pc /\ work'[w].log = l /\ ~work'[w].holds
          /\ work[w].pc = "save" => work'[w].message = work[w].message
      BY <2>2, <3>1, <3>2 DEF On
    <3>4. MessagesOf(l)' = MessagesOf(l)
      BY <2>1 DEF MessagesOf
    <3>5. l \in DOMAIN logs
      BY <2>2 DEF On, WorkEntry
    <3>6. /\ work[w].pc = "save" => work[w].message \in MessagesOf(l)
          /\ work[w].pc = "finish" => MessagesOf(l) # {}
      BY <2>2 DEF On, WorkEntry
    <3> QED BY <2>1, <3>3, <3>4, <3>5, <3>6 DEF WorkEntry
  <2>3. CASE ~On(w, l) /\ work[w] # NoWork
    <3>1. work'[w] = work[w] /\ work[w].log \in LogIds \ {l}
      BY <1>5, <2>3, WorkKinds DEF StallJob, On
    <3> QED BY <2>1, <2>3, <3>1, WorkEntryStays DEF WorkEntry
  <2>4. CASE work[w] = NoWork
    BY <1>1, <1>5, <2>4 DEF StallJob, On
  <2> QED BY <2>2, <2>3, <2>4
<1>6. ASSUME NEW x \in Workers, x # w, WorkStep(x) \/ WorkerDies(x)
      PROVE  WorkEntry(w)'
  <2>1. work'[w] = work[w]
    BY <1>6, WorkersGo DEF Goes
  <2>2. CASE work[w] # NoWork
    <3>1. PICK l \in LogIds : l = work[w].log
      BY <2>2, WorkKinds
    <3>2. ASSUME work[w].holds, jobs'[l] # jobs[l]
          PROVE  FALSE
      <4>1. work[x] # NoWork /\ work[x].holds /\ work[x].log = l
        <5>1. work[x] # NoWork
          BY <1>6, WorkersGo
        <5>2. FinishJob(x) \/ RetryJob(x)
          BY <1>6, <3>2
          DEF WorkStep, FindLog, Send, SaveSent, SaveFailed, WorkerDies
        <5> QED BY <3>2, <5>1, <5>2 DEF FinishJob, RetryJob
      <4> QED BY <1>6, <2>2, <3>1, <3>2, <4>1 DEF OneHolder
    <3>3. work[w].holds => jobs'[work[w].log].state = "active"
      BY <2>2, <3>1, <3>2 DEF WorkEntry
    <3> QED BY <2>1, <2>2, <3>3, WorkEntryStays
  <2> QED BY <1>1, <2>1, <2>2
<1>7. CASE WorkStep(w) \/ WorkerDies(w)
  <2>1. work[w] # NoWork /\ work[w].holds \in BOOLEAN
    BY <1>7, WorkersGo
  <2>2. PICK l \in LogIds : l = work[w].log
    BY <1>7, WorkersGo
  <2>3. /\ l \in DOMAIN logs /\ jobs[l].state \notin {"none", "adding"}
        /\ IF work[w].holds THEN jobs[l].state = "active" ELSE jobs[l].stalled
        /\ LogEntry(l)
    BY <2>1, <2>2 DEF WorkEntry
  <2>4. ASSUME NEW r, work' = [work EXCEPT ![w] = r], UNCHANGED jobs,
               r.log = l, r.holds = work[w].holds,
               r.pc = "send" =>
                 jobs[l].stalled \/ logs'[l].status \in {"queued", "failed"},
               r.pc = "save" => r.message \in MessagesOf(l)',
               r.pc = "finish" => MessagesOf(l)' # {}
        PROVE  WorkEntry(w)'
    <3>1. l \in DOMAIN logs'
      BY <2>3, LogsAreWritten DEF WritesLog
    <3>2. work'[w] = r
      BY <2>4
    <3> QED BY <2>3, <2>4, <3>1, <3>2 DEF WorkEntry
  <2> DEFINE At(step) == [pc |-> step, log |-> l, holds |-> work[w].holds]
  <2>10. ASSUME NEW step \in {"refused", "throw"},
                work' = [work EXCEPT ![w] = At(step)], UNCHANGED jobs
         PROVE  WorkEntry(w)'
    <3>1. PICK r : r = At(step)
      OBVIOUS
    <3>2. /\ r.log = l /\ r.holds = work[w].holds
          /\ r.pc \in {"refused", "throw"}
      BY <3>1
    <3> HIDE DEF At
    <3> QED BY <2>4, <2>10, <3>1, <3>2
  <2>5. CASE FindLog(w)
    <3>1. \/ work' = [work EXCEPT ![w] = At("throw")]
          \/ /\ work' = [work EXCEPT ![w] = At("finish")]
             /\ logs[l].status \in {"sent", "delivered", "read"}
          \/ /\ work' = [work EXCEPT ![w] = At("send")]
             /\ logs[l].status \in {"queued", "failed"}
      BY <2>2, <2>3, <2>5 DEF FindLog, WorkGoTo, Row, Statuses
    <3>2. UNCHANGED <<logs, jobs, accepted>>
      BY <2>5 DEF FindLog, providerVars
    <3>3. logs[l].status \in {"sent", "delivered", "read"} => MessagesOf(l)' # {}
      BY <2>3, <3>2 DEF LogEntry, MessagesOf
    <3> QED BY <2>4, <3>1, <3>2, <3>3
  <2>6. CASE Send(w)
    <3>1. UNCHANGED <<logs, jobs>>
      BY <2>6 DEF Send
    <3>2. CASE work' = [work EXCEPT ![w] = At("refused")]
      BY <2>10, <3>1, <3>2
    <3>3. ASSUME NEW m \in MessageIds, Accept(m, l), Save(w, m)
          PROVE  WorkEntry(w)'
      <4> DEFINE r == [pc |-> "save", log |-> l, holds |-> work[w].holds,
                       message |-> m]
      <4>1. m \in MessagesOf(l)'
        BY <3>3 DEF Accept, MessagesOf
      <4>2. work' = [work EXCEPT ![w] = r]
        BY <2>2, <3>3 DEF Save
      <4>3. r.log = l /\ r.holds = work[w].holds /\ r.pc = "save" /\ r.message = m
        OBVIOUS
      <4> HIDE DEF r
      <4> QED BY <2>4, <3>1, <4>1, <4>2, <4>3
    <3> QED BY <2>2, <2>6, <3>2, <3>3 DEF Send, WorkGoTo
  <2>7. CASE SaveSent(w)
    <3>1. work' = [work EXCEPT ![w] = At("refused")]
            \/ work' = [work EXCEPT ![w] = At("finish")]
      BY <2>2, <2>7 DEF SaveSent, WorkGoTo
    <3>2. UNCHANGED jobs /\ MessagesOf(l)' # {}
      BY <2>2, <2>7, ProviderGrows DEF SaveSent, WorkEntry, NoWork
    <3> QED BY <2>4, <3>1, <3>2
  <2>8. CASE SaveFailed(w)
    <3>1. work' = [work EXCEPT ![w] = At("throw")] /\ UNCHANGED jobs
      BY <2>2, <2>8 DEF SaveFailed, WorkGoTo
    <3> QED BY <2>10, <3>1
  <2>9. CASE FinishJob(w) \/ RetryJob(w) \/ WorkerDies(w)
    BY <1>1, <2>9 DEF FinishJob, RetryJob, WorkerDies, WorkEnds
  <2> QED BY <1>7, <2>5, <2>6, <2>7, <2>8, <2>9 DEF WorkStep
<1>8. \/ UNCHANGED <<jobs, work>>
      \/ \E l \in LogIds :
           \/ Create(l) \/ Enqueue(l) \/ EnqueueFails(l) \/ StallJob(l)
           \/ \E x \in Workers : TakeJob(x, l)
      \/ \E x \in Workers : WorkStep(x) \/ WorkerDies(x)
  BY DEF MessagesNext, HookStep, Report, HookFind, HookUpdate, HookDies
<1> QED BY <1>2, <1>3, <1>4, <1>5, <1>6, <1>7, <1>8

(* A job is given to a worker only when no other has it.                    *)
LEMMA OneHolderNext ==
  ASSUME MessagesInv, MessagesNext
  PROVE  OneHolder'
<1> USE DEF MessagesInv, MessagesTypeOK
<1> DEFINE Holds(w, l) == work[w] # NoWork /\ work[w].holds /\ work[w].log = l
<1>1. ASSUME \A w \in Workers : \A l : Holds(w, l)' => Holds(w, l)
      PROVE  OneHolder'
  BY <1>1 DEF OneHolder
<1>2. CASE UNCHANGED work
  BY <1>1, <1>2
<1>3. ASSUME NEW x \in Workers, WorkStep(x) \/ WorkerDies(x)
      PROVE  OneHolder'
  <2>1. Goes(x) /\ work[x] # NoWork
    BY <1>3, WorkersGo
  <2>2. \A w \in Workers : \A l : Holds(w, l)' => Holds(w, l)
    BY <2>1 DEF Goes
  <2> QED BY <1>1, <2>2
<1>4. ASSUME NEW l \in LogIds, StallJob(l)
      PROVE  OneHolder'
  <2>1. ASSUME NEW w \in Workers, NEW i, Holds(w, i)'
        PROVE  Holds(w, i)
    <3>1. CASE On(w, l)
      <4>1. work'[w] = [work[w] EXCEPT !.holds = FALSE]
        BY <1>4, <3>1 DEF StallJob
      <4>2. \/ work[w] \in [pc : {"find", "send", "refused", "finish", "throw"},
                            log : LogIds, holds : BOOLEAN]
            \/ work[w] \in [pc : {"save"}, log : LogIds, holds : BOOLEAN,
                            message : MessageIds]
        BY <3>1 DEF On, Work, NoWork
      <4>3. ~work'[w].holds
        BY <4>1, <4>2
      <4> QED BY <2>1, <4>3
    <3>2. CASE ~On(w, l)
      BY <1>4, <2>1, <3>2 DEF StallJob
    <3> QED BY <3>1, <3>2
  <2> QED BY <1>1, <2>1
<1>5. ASSUME NEW l \in LogIds, NEW x \in Workers, TakeJob(x, l)
      PROVE  OneHolder'
  <2>1. /\ jobs[l].state = "waiting"
        /\ work'[x] = [pc |-> "find", log |-> l, holds |-> TRUE]
        /\ \A w \in Workers \ {x} : work'[w] = work[w]
    BY <1>5 DEF TakeJob
  <2>2. \A w \in Workers : ~Holds(w, l)
    BY <2>1 DEF WorkEntry
  <2> QED BY <2>1, <2>2 DEF OneHolder
<1>6. \/ UNCHANGED work
      \/ \E l \in LogIds : StallJob(l) \/ \E x \in Workers : TakeJob(x, l)
      \/ \E x \in Workers : WorkStep(x) \/ WorkerDies(x)
  BY DEF MessagesNext, HookStep, Report, HookFind, HookUpdate, HookDies, Create,
         Enqueue, EnqueueFails
<1> QED BY <1>2, <1>3, <1>4, <1>5, <1>6

(* Every step keeps MessagesInv.                                            *)
LEMMA MessagesInvNext ==
  ASSUME MessagesInv, [MessagesNext]_messagesVars
  PROVE  MessagesInv'
<1>1. CASE MessagesNext
  <2>1. \A m \in MessageIds : told'[m] # {} => m \in DOMAIN accepted'
    <3>1. ASSUME NEW m \in MessageIds, told'[m] # told[m]
          PROVE  m \in DOMAIN accepted
      BY <1>1, <3>1
      DEF MessagesInv, MessagesTypeOK, MessagesNext, WorkStep, HookStep, Create,
          Enqueue, EnqueueFails, TakeJob, FindLog, Send, SaveSent, SaveFailed,
          FinishJob, RetryJob, WorkerDies, StallJob, HookFind, HookUpdate,
          HookDies, Report, providerVars
    <3>2. \A m \in DOMAIN accepted : m \in DOMAIN accepted'
      <4>1. \A m \in DOMAIN accepted : m \in MessagesOf(accepted[m])
        BY DEF MessagesOf
      <4>2. \A m : m \in MessagesOf(accepted[m])' => m \in DOMAIN accepted'
        BY DEF MessagesOf
      <4>3. ASSUME NEW m \in DOMAIN accepted
            PROVE  m \in DOMAIN accepted'
        <5>1. PICK l : l = accepted[m]
          OBVIOUS
        <5>2. m \in MessagesOf(l)
          BY <5>1 DEF MessagesOf
        <5> QED BY <1>1, <5>2, ProviderGrows DEF MessagesOf
      <4> QED BY <4>3
    <3> QED BY SMTT(60), <3>1, <3>2 DEF MessagesInv
  <2> QED
    BY <1>1, <2>1, TypeMessagesNext, JobEntriesNext, WorkEntriesNext,
       OneHolderNext, LogEntriesNext, HandlerEntriesNext
    DEF MessagesInv
<1>2. CASE UNCHANGED messagesVars
  BY <1>2
  DEF MessagesInv, MessagesTypeOK, JobEntry, WorkEntry, OneHolder, LogEntry,
      HandlerEntry, MessagesOf, messagesVars, providerVars
<1> QED BY <1>1, <1>2

(* The service starts without logs, jobs and handlers.                      *)
LEMMA MessagesCorrect == MessagesSpec => []MessagesInv
<1>1. MessagesInit => MessagesInv
  BY MessagesAssumption
  DEF MessagesInit, MessagesInv, MessagesTypeOK, JobEntry, WorkEntry, OneHolder,
      LogEntry, HandlerEntry, NoJob, NoWork, NoCall, Job, Work, Handler
<1> QED BY <1>1, MessagesInvNext, PTL DEF MessagesSpec

(* Every log, job, worker and handler keeps its shape, and no job is        *)
(* attempted more often than its producer asked for.                        *)
THEOREM MessagesTypeCorrect == MessagesSpec => []MessagesTypeOK
<1>1. MessagesInv => MessagesTypeOK
  BY DEF MessagesInv
<1> QED BY <1>1, MessagesCorrect, PTL

(* A log says sent, delivered or read only if MSG91 accepted or reported it *)
(* so, for any number of attempts and handlers, crashes and lost answers.   *)
THEOREM StatusIsReported == MessagesSpec => []StatusHasReport
<1>1. MessagesInv => StatusHasReport
  BY DEF MessagesInv, LogEntry, StatusHasReport
<1> QED BY <1>1, MessagesCorrect, PTL

(* A job counts as done only if a message of its log was accepted.          *)
THEOREM DoneIsAccepted == MessagesSpec => []DoneIsSent
<1>1. MessagesInv => DoneIsSent
  BY DEF MessagesInv, JobEntry, DoneIsSent
<1> QED BY <1>1, MessagesCorrect, PTL

(* A log that says it was sent is not sent again, whatever retries and      *)
(* reports come between a worker's check and its call, unless its job has   *)
(* stalled; for any number of workers, with those that run on after a stall.*)
THEOREM SentIsNotRepeated == MessagesSpec => SendsOnlyUnsent
<1> DEFINE Unsent == \A m \in DOMAIN accepted' \ DOMAIN accepted :
                       LET l == accepted'[m]
                       IN logs[l].status \in {"queued", "failed"}
                            \/ jobs[l].stalled
<1>1. ASSUME MessagesInv, [MessagesNext]_messagesVars
      PROVE  Unsent
  <2>1. CASE UNCHANGED accepted
    BY <2>1
  <2>2. ASSUME NEW w \in Workers, Send(w)
        PROVE  Unsent
    <3>1. \/ logs[work[w].log].status \in {"queued", "failed"}
          \/ jobs[work[w].log].stalled
      BY <1>1, <2>2 DEF Send, MessagesInv, WorkEntry, NoWork
    <3>2. \A m \in DOMAIN accepted' \ DOMAIN accepted : accepted'[m] = work[w].log
      BY <2>2 DEF Send, Accept
    <3> QED BY <3>1, <3>2
  <2>3. UNCHANGED accepted \/ \E w \in Workers : Send(w)
    BY <1>1
    DEF MessagesNext, WorkStep, HookStep, Create, Enqueue, EnqueueFails, TakeJob,
        FindLog, SaveSent, SaveFailed, FinishJob, RetryJob, WorkerDies, StallJob,
        HookFind, HookUpdate, HookDies, Report, messagesVars, providerVars
  <2> QED BY <2>1, <2>2, <2>3
<1>2. MessagesSpec => [][Unsent]_accepted
  BY <1>1, MessagesCorrect, PTL DEF MessagesSpec
<1> QED BY <1>2 DEF SendsOnlyUnsent

(* A report only raises the rank of a status that no worker is about to     *)
(* write, and a message that was read stays read.                           *)
THEOREM ReportsRaise == MessagesSpec => ReportsNeverLower
<1> DEFINE Raised ==
      \A l \in DOMAIN logs :
        (\A w \in Workers : On(w, l) => work[w].pc \notin {"save", "refused"}) =>
          /\ StatusRank[logs[l].status] <= StatusRank[logs'[l].status]
          /\ logs[l].status = "read" => logs'[l].status = "read"
<1>1. ASSUME MessagesInv, [MessagesNext]_messagesVars
      PROVE  Raised
  <2>1. SUFFICES ASSUME NEW l \in DOMAIN logs,
                        \A w \in Workers :
                          On(w, l) => work[w].pc \notin {"save", "refused"}
                 PROVE  /\ StatusRank[logs[l].status] <= StatusRank[logs'[l].status]
                        /\ logs[l].status = "read" => logs'[l].status = "read"
    OBVIOUS
  <2>2. logs[l].status \in Statuses
    BY <1>1 DEF MessagesInv, MessagesTypeOK, Row
  <2>3. CASE logs'[l] = logs[l]
    BY <2>2, <2>3 DEF StatusRank, Statuses
  <2>4. CASE logs'[l] # logs[l]
    <3>1. MessagesNext
      BY <1>1, <2>4 DEF messagesVars
    <3>4. \A w \in Workers :
            work[w].log = l => work[w].pc \notin {"save", "refused"}
      BY <2>1 DEF On, NoWork
    <3>2. PICK h \in Hooks : /\ hook[h].pc = "update"
                            /\ logs'[l].status = hook[h].kind
                            /\ logs[l].status \in Replaces(hook[h].kind)
      BY ZenonT(60), <1>1, <2>4, <3>1, <3>4, LogsAreWritten DEF WritesLog
    <3>3. hook[h].kind \in Kinds
      BY <1>1, <3>2, WorkKinds DEF MessagesInv, MessagesTypeOK
    <3> QED BY <2>2, <3>2, <3>3 DEF Replaces, StatusRank, Statuses, Kinds
  <2> QED BY <2>3, <2>4
<1>2. MessagesSpec => [][Raised]_logs
  BY <1>1, MessagesCorrect, PTL DEF MessagesSpec
<1> QED BY <1>2 DEF ReportsNeverLower

=============================================================================
