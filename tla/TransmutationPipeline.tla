------------------------ MODULE TransmutationPipeline ------------------------
(* The path of a transmutation through the back end: the HTTP handlers of     *)
(* transmutation_handlers.go, the Redis list of task_queue.go, the one worker *)
(* goroutine and the rows of Postgres they share.                             *)
(*                                                                            *)
(* A request runs in a goroutine of its own and is one operation: create,     *)
(* edit or delete. It reads, writes and enqueues in separate steps, so other  *)
(* requests and the worker run in between. Infrastructure failures are        *)
(* explicit actions drawn from a budget. Stock is the subject of Inventory,   *)
(* delivery of events to browsers of EventHub, sockets of RedisClient.        *)
EXTENDS Naturals, Sequences, Functions

CONSTANTS
  Transmutations,   \* primary keys of table transmutations
  Requests,         \* HTTP requests; each is served once
  Seeded,           \* rows init.sql inserts, for which nobody enqueues a task
  SeedStatuses,     \* the status strings init.sql gives them
  EditStatuses,     \* status strings a client may send to Edit
  Failures,         \* the kinds of failure that may strike
  MaxFaults,        \* bound: how many failures strike in a behaviour
  None              \* the target of a request that has not arrived

Statuses == {"PENDING", "PROCESSING", "COMPLETED", "FAILED", "completed"}

FailureKinds == {"db", "push", "pop", "hang", "crash", "redis"}

ASSUME ConstantsOK ==
  /\ Seeded \subseteq Transmutations
  /\ SeedStatuses \subseteq Statuses
  /\ EditStatuses \subseteq Statuses
  /\ Failures \subseteq FailureKinds
  /\ MaxFaults \in Nat
  /\ None \notin Transmutations

\* Definitions named ...Mutant are broken on purpose, the way a slip in the
\* code would break them; each shows that some property notices the slip.

IsCompletedMutant(s) == s = "completed"
\* strings.EqualFold(status, "COMPLETED")
IsCompleted(s) == s \in {"COMPLETED", "completed"}

Operations == {"create", "edit", "delete"}

\* What a request still has to enqueue: the task itself, or the async_error
\* audit asyncErrorReporter sends when enqueueing the task returned an error.
EnqueueSteps == {"process", "process_error", "audit", "audit_error"}
NoAuditMutant == [process |-> "announce", process_error |-> "audit",
                  audit |-> "announce", audit_error |-> "announce"]
OnSuccess == [process |-> "audit", process_error |-> "audit",
              audit |-> "announce", audit_error |-> "announce"]
RetryMutant == [process |-> "process", process_error |-> "audit",
                audit |-> "audit_error", audit_error |-> "announce"]
OnError == [process |-> "process_error", process_error |-> "audit",
            audit |-> "audit_error", audit_error |-> "announce"]

Committed == EnqueueSteps \cup {"announce", "replied", "hung", "gone"}
RequestSteps == {"idle", "read", "rejected"} \cup Committed

\* An element of the list alchemy:tasks. Its payload is the request it came
\* from, whose target and user it carries.
Task == [job : EnqueueSteps, by : Requests]
TaskOf(j, r) == [job |-> j, by |-> r]

WorkerSteps == {"pop", "spin", "dispatch", "start", "announceStart", "work",
                "announceDone", "auditProcessed", "fail", "announceFail",
                "recordError"}

\* handleTransmutation: the status each Save writes, and what follows it.
NotFinalMutant == [start |-> "PROCESSING", work |-> "PROCESSING", fail |-> "FAILED"]
StatusSaved == [start |-> "PROCESSING", work |-> "COMPLETED", fail |-> "FAILED"]
SilentMutant == [start |-> "announceStart", work |-> "auditProcessed",
                 fail |-> "announceFail"]
AfterSave == [start |-> "announceStart", work |-> "announceDone",
              fail |-> "announceFail"]
AfterAnnounce == [announceStart |-> "work", announceDone |-> "auditProcessed",
                  announceFail |-> "recordError"]

\* A row of table audits, as far as this module tells rows apart: a row
\* written for a task, and by which of the three writers.
AuditRow == [action : {"registered", "processed", "worker_error"}, task : Task]

VARIABLES
  row,          \* table transmutations: soft-deletion state and status column
  trail,        \* table audits
  queue,        \* the Redis list; LPUSH appends, BRPOP takes the head
  saved,        \* the list in Redis's last snapshot on disk
  pc, op, target, seen,   \* per request: step, operation, row id, status read
  wpc, inHand,  \* the worker's step and the task it is executing, if any
  unannounced,  \* history: rows changed since they were last broadcast
  touched,      \* history: rows an Edit has written
  settled,      \* history: tasks whose dispatch returned
  dropped,      \* history: tasks a failure kept from (all of) their effect
  restored,     \* history: Redis came back from a snapshot
  faults        \* failures so far

database == <<row, trail>>
redis == <<queue, saved>>
requests == <<pc, op, target, seen>>
worker == <<wpc, inHand>>
history == <<unannounced, touched, settled, dropped, restored>>
vars == <<database, redis, requests, worker, history, faults>>

Init ==
  /\ \E s \in [Transmutations -> SeedStatuses] :
       row = [t \in Transmutations |->
                IF t \in Seeded THEN [life |-> "live", status |-> s[t]]
                ELSE [life |-> "absent", status |-> "PENDING"]]
  /\ trail = {}
  /\ queue = <<>> /\ saved = <<>>
  /\ pc = [r \in Requests |-> "idle"]
  /\ op = [r \in Requests |-> "create"]
  /\ target = [r \in Requests |-> None]
  /\ seen = [r \in Requests |-> "PENDING"]
  /\ wpc = "pop" /\ inHand = {}
  /\ unannounced = {} /\ touched = {}
  /\ settled = {} /\ dropped = {} /\ restored = FALSE
  /\ faults = 0

-----------------------------------------------------------------------------
(* Postgres and failures.                                                     *)

Fault(kind) ==
  /\ kind \in Failures
  /\ faults < MaxFaults
  /\ faults' = faults + 1

VisibleMutant(t) == row[t].life # "absent"
\* What First(&t, id) finds: rows with deleted_at IS NULL.
Visible(t) == row[t].life = "live"

\* gorm's Save of a loaded row: UPDATE of every column and, when the UPDATE
\* finds no row because it was soft-deleted meanwhile, INSERT ... ON CONFLICT
\* DO UPDATE of every column, deleted_at included.
SaveRow(t, s) ==
  /\ row' = [row EXCEPT ![t] = [life |-> "live", status |-> s]]
  /\ unannounced' = unannounced \cup {t}

-----------------------------------------------------------------------------
(* The handlers.                                                              *)

\* Create, up to the commit of Repo.Create's transaction.
CreateCommit(r, t) ==
  /\ pc[r] = "idle" /\ row[t].life = "absent"
  /\ SaveRow(t, "PENDING")
  /\ pc' = [pc EXCEPT ![r] = "process"]
  /\ op' = [op EXCEPT ![r] = "create"]
  /\ target' = [target EXCEPT ![r] = t]
  /\ UNCHANGED <<trail, redis, seen, worker, touched, settled, dropped,
                 restored, faults>>

\* Edit and Delete: FindById returns a copy of the row.
Find(r, o, t) ==
  /\ pc[r] = "idle" /\ Visible(t)
  /\ pc' = [pc EXCEPT ![r] = "read"]
  /\ op' = [op EXCEPT ![r] = o]
  /\ target' = [target EXCEPT ![r] = t]
  /\ seen' = [seen EXCEPT ![r] = row[t].status]
  /\ UNCHANGED <<database, redis, worker, history, faults>>

\* Edit writes the copy back, with the status the client sent if it sent one.
EditSave(r) ==
  /\ pc[r] = "read" /\ op[r] = "edit"
  /\ \E s \in EditStatuses \cup {seen[r]} : SaveRow(target[r], s)
  /\ touched' = touched \cup {target[r]}
  /\ pc' = [pc EXCEPT ![r] = "audit"]
  /\ UNCHANGED <<trail, redis, op, target, seen, worker, settled, dropped,
                 restored, faults>>

\* Delete soft-deletes; a row already deleted is no error.
DeleteRow(r) ==
  /\ pc[r] = "read" /\ op[r] = "delete"
  /\ row' = [row EXCEPT ![target[r]].life = "deleted"]
  /\ unannounced' = unannounced \cup {target[r]}
  /\ pc' = [pc EXCEPT ![r] = "audit"]
  /\ UNCHANGED <<trail, redis, op, target, seen, worker, touched, settled,
                 dropped, restored, faults>>

\* An early return after the row was found: an undecodable body, a statement
\* that failed. It leaves no change behind. (Earlier ones, such as validation
\* or a row that does not exist, touch nothing, as if the request never came.)
Reject(r) ==
  /\ pc[r] = "read"
  /\ pc' = [pc EXCEPT ![r] = "rejected"]
  /\ UNCHANGED <<database, redis, op, target, seen, worker, history, faults>>

\* The tasks request r has not yet tried to enqueue.
Carried(r) ==
  CASE pc[r] = "process" -> {TaskOf("process", r), TaskOf("audit", r)}
    [] pc[r] \in {"process_error", "audit"} -> {TaskOf("audit", r)}
    [] OTHER -> {}

InHandlers == {t \in Task : t \in Carried(t.by)}

\* enqueue: one LPUSH on a connection of its own.
Enqueue(r) ==
  /\ pc[r] \in EnqueueSteps
  /\ queue' = Append(queue, TaskOf(pc[r], r))
  /\ pc' = [pc EXCEPT ![r] = OnSuccess[pc[r]]]
  /\ UNCHANGED <<database, saved, op, target, seen, worker, history, faults>>

\* LPUSH returns an error: Redis unreachable, or the list was extended and
\* the reply was lost. The handler reports it and goes on.
EnqueueFails(r) ==
  /\ pc[r] \in EnqueueSteps
  /\ Fault("push")
  /\ \/ UNCHANGED queue /\ dropped' = dropped \cup {TaskOf(pc[r], r)}
     \/ queue' = Append(queue, TaskOf(pc[r], r)) /\ UNCHANGED dropped
  /\ pc' = [pc EXCEPT ![r] = OnError[pc[r]]]
  /\ UNCHANGED <<database, saved, op, target, seen, worker, unannounced,
                 touched, settled, restored>>

\* Redis closes the connection before it replies: parseRESP reads EOF for
\* ever, and the handler never goes on.
EnqueueHangs(r) ==
  /\ pc[r] \in EnqueueSteps
  /\ Fault("hang")
  /\ \/ /\ UNCHANGED queue
        /\ dropped' = dropped \cup Carried(r) \cup {TaskOf(pc[r], r)}
     \/ /\ queue' = Append(queue, TaskOf(pc[r], r))
        /\ dropped' = dropped \cup (Carried(r) \ {TaskOf(pc[r], r)})
  /\ pc' = [pc EXCEPT ![r] = "hung"]
  /\ UNCHANGED <<database, saved, op, target, seen, worker, unannounced,
                 touched, settled, restored>>

\* The broadcast of transmutation.updated or transmutation.deleted; the reply
\* to the client follows.
Announce(r) ==
  /\ pc[r] = "announce"
  /\ unannounced' = unannounced \ {target[r]}
  /\ pc' = [pc EXCEPT ![r] = "replied"]
  /\ UNCHANGED <<database, redis, op, target, seen, worker, touched, settled,
                 dropped, restored, faults>>

-----------------------------------------------------------------------------
(* The worker.                                                                *)

\* BRPOP returns the oldest task.
Pop ==
  /\ wpc = "pop" /\ queue # <<>>
  /\ inHand' = {Head(queue)}
  /\ queue' = Tail(queue)
  /\ wpc' = "dispatch"
  /\ UNCHANGED <<database, saved, requests, history, faults>>

\* Redis popped the task but the reply never arrived. A reset connection
\* makes BRPOP return an error and the worker retries after two seconds; a
\* closed one leaves parseRESP reading EOF for ever.
PopLost ==
  /\ wpc = "pop" /\ queue # <<>>
  /\ \/ Fault("pop") /\ UNCHANGED wpc
     \/ Fault("hang") /\ wpc' = "spin"
  /\ queue' = Tail(queue)
  /\ dropped' = dropped \cup {Head(queue)}
  /\ UNCHANGED <<database, saved, requests, inHand, unannounced, touched,
                 settled, restored>>

\* dispatch returned, recording audit rows `rows` on the way: back to BRPOP.
Finish(rows) ==
  /\ trail' = trail \cup rows
  /\ settled' = settled \cup inHand
  /\ inHand' = {}
  /\ wpc' = "pop"

RowsMutant(action) ==
  {[action |-> action, task |-> t] : t \in {k \in inHand : action # "worker_error"}}
\* The audit row handleAudit or recordWorkerError writes for the task in hand.
Rows(action) == {[action |-> action, task |-> t] : t \in inHand}

\* The row of the task in hand, when that task is process_transmutation.
Processing(t) == \E k \in inHand : k.job = "process" /\ target[k.by] = t

\* handleAudit: save the audit row, broadcast audit.created.
HandleAudit ==
  /\ wpc = "dispatch" /\ \E k \in inHand : k.job # "process"
  /\ Finish(Rows("registered"))
  /\ UNCHANGED <<row, redis, requests, unannounced, touched, dropped,
                 restored, faults>>

\* handleTransmutation: FindById finds no row.
RowMissing(t) ==
  /\ wpc = "dispatch" /\ Processing(t) /\ ~Visible(t)
  /\ wpc' = "recordError"
  /\ UNCHANGED <<database, redis, requests, inHand, history, faults>>

\* handleTransmutation: the row is already COMPLETED.
AlreadyCompleted(t) ==
  /\ wpc = "dispatch" /\ Processing(t)
  /\ Visible(t) /\ IsCompleted(row[t].status)
  /\ Finish({})
  /\ UNCHANGED <<row, redis, requests, unannounced, touched, dropped,
                 restored, faults>>

\* handleTransmutation: FindById returns a copy to work on.
Load(t) ==
  /\ wpc = "dispatch" /\ Processing(t)
  /\ Visible(t) /\ ~IsCompleted(row[t].status)
  /\ wpc' = "start"
  /\ UNCHANGED <<database, redis, requests, inHand, history, faults>>

\* The three Saves of the copy: PROCESSING, COMPLETED, and FAILED when
\* COMPLETED could not be saved.
SaveStatus(t) ==
  /\ Processing(t) /\ wpc \in DOMAIN StatusSaved
  /\ SaveRow(t, StatusSaved[wpc])
  /\ wpc' = AfterSave[wpc]
  /\ UNCHANGED <<trail, redis, requests, inHand, touched, settled, dropped,
                 restored, faults>>

\* The broadcast of transmutation.updated that follows each Save.
WorkerAnnounce(t) ==
  /\ Processing(t) /\ wpc \in DOMAIN AfterAnnounce
  /\ wpc' = AfterAnnounce[wpc]
  /\ unannounced' = unannounced \ {t}
  /\ UNCHANGED <<database, redis, requests, inHand, touched, settled, dropped,
                 restored, faults>>

\* The direct call of handleAudit at the end of handleTransmutation.
AuditProcessed ==
  /\ wpc = "auditProcessed"
  /\ Finish(Rows("processed"))
  /\ UNCHANGED <<row, redis, requests, unannounced, touched, dropped,
                 restored, faults>>

\* recordWorkerError.
RecordError ==
  /\ wpc = "recordError"
  /\ Finish(Rows("worker_error"))
  /\ UNCHANGED <<row, redis, requests, unannounced, touched, dropped,
                 restored, faults>>

\* A statement of the worker fails. The task is not put back on the list.
WorkerDbError ==
  /\ Fault("db")
  /\ \/ /\ wpc \in {"dispatch", "start", "auditProcessed"}
        /\ wpc' = "recordError" /\ UNCHANGED <<inHand, settled>>
     \/ wpc = "work" /\ wpc' = "fail" /\ UNCHANGED <<inHand, settled>>
     \/ wpc = "fail" /\ wpc' = "announceFail" /\ UNCHANGED <<inHand, settled>>
     \/ /\ wpc = "recordError"
        /\ wpc' = "pop" /\ inHand' = {} /\ settled' = settled \cup inHand
  /\ dropped' = dropped \cup inHand
  /\ UNCHANGED <<database, redis, requests, unannounced, touched, restored>>

-----------------------------------------------------------------------------
(* Crashes and restarts.                                                      *)

\* The back end dies and Docker starts it again. Requests in flight are cut
\* off, event streams close, the list and the tables stay.
BackendCrash ==
  /\ Fault("crash")
  /\ pc' = [r \in Requests |->
              CASE pc[r] = "read" -> "rejected"
                [] pc[r] \in EnqueueSteps \cup {"announce", "hung"} -> "gone"
                [] OTHER -> pc[r]]
  /\ dropped' = dropped \cup inHand \cup InHandlers
  /\ inHand' = {} /\ wpc' = "pop"
  /\ unannounced' = {}
  /\ UNCHANGED <<database, redis, op, target, seen, touched, settled, restored>>

\* Redis writes its snapshot.
RedisSave ==
  /\ "redis" \in Failures /\ faults < MaxFaults
  /\ saved # queue
  /\ saved' = queue
  /\ UNCHANGED <<database, queue, requests, worker, history, faults>>

\* Redis dies and comes back with the list of its snapshot.
RedisRestart ==
  /\ Fault("redis")
  /\ queue' = saved
  /\ dropped' = dropped \cup (Range(queue) \ Range(saved))
  /\ restored' = TRUE
  /\ \/ UNCHANGED wpc
     \/ wpc = "pop" /\ "hang" \in Failures /\ wpc' = "spin"
  /\ UNCHANGED <<database, saved, requests, inHand, unannounced, touched,
                 settled>>

-----------------------------------------------------------------------------
Arrive(r) ==
  \E t \in Transmutations :
    CreateCommit(r, t) \/ \E o \in {"edit", "delete"} : Find(r, o, t)

\* What a request does by itself once it has read or committed.
Proceed(r) == EditSave(r) \/ DeleteRow(r) \/ Enqueue(r) \/ Announce(r)

\* What the worker does by itself.
Work ==
  \/ Pop \/ HandleAudit \/ AuditProcessed \/ RecordError
  \/ \E t \in Transmutations :
       \/ RowMissing(t) \/ AlreadyCompleted(t) \/ Load(t)
       \/ SaveStatus(t) \/ WorkerAnnounce(t)

Failure ==
  \/ \E r \in Requests : EnqueueFails(r) \/ EnqueueHangs(r)
  \/ PopLost \/ WorkerDbError \/ BackendCrash \/ RedisRestart

Next ==
  \/ \E r \in Requests : Arrive(r) \/ Reject(r) \/ Proceed(r)
  \/ Work
  \/ Failure
  \/ RedisSave

Spec == Init /\ [][Next]_vars

\* The Go scheduler runs every goroutine that can run. Nothing makes requests
\* arrive, or failures strike.
FairSpec ==
  /\ Spec
  /\ WF_vars(Work)
  /\ \A r \in Requests : WF_vars(Proceed(r) \/ Reject(r))

-----------------------------------------------------------------------------
(* Safety.                                                                    *)

TypeOK ==
  /\ row \in [Transmutations ->
       [life : {"absent", "live", "deleted"}, status : Statuses]]
  /\ trail \subseteq AuditRow
  /\ queue \in Seq(Task) /\ saved \in Seq(Task)
  /\ pc \in [Requests -> RequestSteps]
  /\ op \in [Requests -> Operations]
  /\ target \in [Requests -> Transmutations \cup {None}]
  /\ \A r \in Requests :
       pc[r] \in Committed \cup {"read"} => target[r] \in Transmutations
  /\ seen \in [Requests -> Statuses]
  /\ wpc \in WorkerSteps /\ inHand \subseteq Task
  /\ unannounced \subseteq Transmutations /\ touched \subseteq Transmutations
  /\ settled \subseteq Task /\ dropped \subseteq Task
  /\ restored \in BOOLEAN
  /\ faults \in Nat

\* The tasks the committed operations must lead to: the processing of a new
\* transmutation, and the audit row of every operation.
Owed ==
  {t \in Task :
     /\ pc[t.by] \in Committed
     /\ t.job = "audit" \/ (t.job = "process" /\ op[t.by] = "create")}

Outstanding == InHandlers \cup Range(queue) \cup inHand

\* Bookkeeping of handlers, list and worker together: what a committed
\* operation owes is still on its way, or was executed, or was hit by a
\* failure. No interleaving of handlers and worker loses it (task_queue.go
\* 185-227, transmutation_handlers.go 122-133).
NothingForgotten == Owed \subseteq Outstanding \cup settled \cup dropped

\* The tasks request r may still enqueue, the reports of failures included.
Future(r) ==
  {t \in Task : t.by = r /\
     t.job \in CASE pc[r] \in {"idle", "read", "process"} -> EnqueueSteps
                 [] pc[r] = "process_error" -> EnqueueSteps \ {"process"}
                 [] pc[r] = "audit" -> {"audit", "audit_error"}
                 [] pc[r] = "audit_error" -> {"audit_error"}
                 [] OTHER -> {}}

\* Unless Redis came back from a snapshot, a task is in one place only: to be
\* enqueued, listed (once), executing or executed. So the worker executes it at
\* most once, although an LPUSH may report an error for a task that is listed
\* (BRPOP removes the task, and a handler never enqueues again what failed).
AtMostOnce ==
  ~restored =>
    /\ \A i, j \in DOMAIN queue : queue[i] = queue[j] => i = j
    /\ Range(queue) \cap (inHand \cup settled) = {}
    /\ inHand \cap settled = {}
    /\ \A r \in Requests : Future(r) \cap (Range(queue) \cup inHand \cup settled) = {}

\* A transmutation the API accepted and nobody edited is open (PENDING or
\* PROCESSING) only while its task is on its way to the worker or in its
\* hands, or a failure hit that task: the status column never says "coming"
\* for work that has been done or forgotten (task_queue.go 250-288).
OpenRowHasTask ==
  \A r \in Requests :
    /\ pc[r] \in Committed /\ op[r] = "create"
    /\ target[r] \notin touched
    /\ row[target[r]].life = "live"
    /\ row[target[r]].status \in {"PENDING", "PROCESSING"}
    => TaskOf("process", r) \in Outstanding \cup dropped

\* Somebody who will broadcast row t, or who hangs in enqueue before he can.
Announcer(t) ==
  \/ \E r \in Requests :
       target[r] = t /\ pc[r] \in EnqueueSteps \cup {"announce", "hung"}
  \/ Processing(t) /\ wpc \in {"announceStart", "announceDone", "announceFail"}

\* A change of a row that has not been broadcast since has an actor that will
\* broadcast it, or one that hangs in enqueue: a page that reloads on every
\* transmutation.* event ends up with the last state (task_queue.go 271-288,
\* transmutation_handlers.go 146, 268, 335).
ChangeWillBeAnnounced == \A t \in unannounced : Announcer(t)

\* Task t left an audit row: its own, transmutation_processed or worker_error.
Traced(t) ==
  \E a \in {"registered", "processed", "worker_error"} :
    [action |-> a, task |-> t] \in trail

\* Every task the worker is done with left an audit row. Exceptions: a failure
\* hit it, or an Edit had written the row, perhaps as COMPLETED, and there was
\* nothing to do (task_queue.go 261-263).
SettledLeavesTrace ==
  \A t \in settled : Traced(t) \/ t \in dropped \/ target[t.by] \in touched

\* A task delivered again never reopens a completed transmutation: only an
\* Edit takes COMPLETED back (task_queue.go 261-263).
CompletionIsFinal ==
  [][\A t \in Transmutations :
       (row[t].status = "COMPLETED" /\ t \notin touched')
         => row'[t].status = "COMPLETED"]_vars

\* Somebody who will write back a copy of row t.
HoldsCopy(t) ==
  \/ \E r \in Requests : pc[r] = "read" /\ op[r] = "edit" /\ target[r] = t
  \/ Processing(t) /\ wpc \in {"start", "announceStart", "work", "fail"}

Gone(t) == row[t].life = "deleted" /\ ~HoldsCopy(t)

\* A deleted transmutation comes back only when somebody loaded it before the
\* deletion and saves it after. Once no such copy is around, the deletion is
\* final, whatever is still queued for the row (transmutation_handlers.go
\* 242-252 against 282-308 and task_queue.go 254-283).
DeletionIsFinal ==
  [][\A t \in Transmutations : Gone(t) => Gone(t)']_vars

-----------------------------------------------------------------------------
(* What else holds in every reachable state and makes the properties above    *)
(* inductive; TransmutationPipelineProofs proves it.                          *)

\* The worker has at most one task, none while it waits for one, and a
\* completion that could not be saved counts as hit by a failure.
WorkerInv ==
  /\ wpc \in {"pop", "spin"} => inHand = {}
  /\ \A j, k \in inHand : j = k
  /\ wpc \in {"fail", "announceFail"} => inHand \subseteq dropped

\* Whatever is listed, executing or executed was enqueued by a request that had
\* committed; only a Create enqueues processing.
OriginInv ==
  /\ \A r \in Requests : pc[r] \in {"process", "process_error"} => op[r] = "create"
  /\ \A t \in Range(queue) \cup Range(saved) \cup inHand \cup settled :
       pc[t.by] \in Committed /\ (t.job = "process" => op[t.by] = "create")

\* Found and created rows are in the table, and a row has one creator.
CreatorInv ==
  /\ \A t \in Transmutations : row[t].life = "absent" => row[t].status = "PENDING"
  /\ \A r \in Requests :
       pc[r] \in Committed \cup {"read"} => row[target[r]].life # "absent"
  /\ \A q, r \in Requests :
       (/\ pc[q] \in Committed /\ op[q] = "create"
        /\ pc[r] \in Committed /\ op[r] = "create"
        /\ target[q] = target[r]) => q = r

\* The worker has got past the completion of task t.
Executed(t) ==
  \/ t \in settled
  \/ t \in inHand /\ wpc \in {"announceDone", "auditProcessed", "recordError",
                              "announceFail"}

\* The row's status is the business of the failures or the editors of r's
\* transmutation, not of the worker alone.
Excused(r) == TaskOf("process", r) \in dropped \/ target[r] \in touched

\* An executed processing task left its row completed or deleted, and the
\* worker does not process it again.
ExecutedAs(r) ==
  /\ Executed(TaskOf("process", r)) /\ ~Excused(r) =>
       row[target[r]].life # "live" \/ IsCompleted(row[target[r]].status)
  /\ (/\ TaskOf("process", r) \in inHand \cap settled
      /\ wpc \in {"start", "announceStart", "work", "fail"}) => Excused(r)

ExecutedInv == \A r \in Requests : ExecutedAs(r)

\* While the worker processes a row, only an Edit can make it COMPLETED.
UncompletedInv ==
  \A t \in Transmutations :
    (/\ Processing(t) /\ wpc \in {"start", "announceStart", "work", "fail"}
     /\ t \notin touched) => row[t].status # "COMPLETED"

\* A completed row left its audit row, or is about to.
TracedOnce(r) ==
  (/\ pc[r] \in Committed /\ op[r] = "create" /\ ~Excused(r)
   /\ IsCompleted(row[target[r]].status)) =>
    \/ Traced(TaskOf("process", r))
    \/ TaskOf("process", r) \in inHand /\ wpc \in {"announceDone", "auditProcessed"}

TraceInv == \A r \in Requests : TracedOnce(r)

\* Wherever a task may be that a request has tried to enqueue.
Places == Range(queue) \cup Range(saved) \cup inHand \cup settled \cup dropped

\* What a request has not tried to enqueue has not been anywhere yet.
FreshInv == \A r \in Requests : Future(r) \cap Places = {}

\* What is in the snapshot was listed, so it is still on its way or was executed
\* or hit by a failure.
SavedInv == Range(saved) \subseteq Outstanding \cup settled \cup dropped

Inv == /\ TypeOK /\ WorkerInv /\ OriginInv /\ CreatorInv /\ ExecutedInv
       /\ UncompletedInv /\ TraceInv /\ AtMostOnce
       /\ NothingForgotten /\ ChangeWillBeAnnounced /\ SettledLeavesTrace

-----------------------------------------------------------------------------
(* Liveness, under FairSpec.                                                  *)

\* Every committed operation ends up in table audits, unless a failure hits
\* its audit task or leaves the worker or the handler spinning (the audit is
\* written by the worker, after the client has its reply).
OperationIsAudited ==
  \A r \in Requests :
    pc[r] \in {"process", "audit"} ~>
      \/ [action |-> "registered", task |-> TaskOf("audit", r)] \in trail
      \/ TaskOf("audit", r) \in dropped
      \/ wpc = "spin" \/ pc[r] = "hung"

\* An accepted transmutation is completed, unless it is deleted, edited, or its
\* task is hit by a failure, or the worker or its handler hangs.
AcceptedIsCompleted ==
  \A r \in Requests, t \in Transmutations :
    (pc[r] = "process" /\ target[r] = t) ~>
      \/ row[t].life = "deleted" \/ row[t].status = "COMPLETED"
      \/ t \in touched \/ TaskOf("process", r) \in dropped
      \/ wpc = "spin" \/ pc[r] = "hung"

-----------------------------------------------------------------------------
(* Refinement.                                                                *)

Board ==
  INSTANCE Jobs WITH
    Tasks <- Task, Outcomes <- {"registered", "processed", "worker_error"},
    Optional <- {t \in Task : t.job = "process"},
    open <- Outstanding, done <- settled, lost <- dropped

\* Handlers, Redis list and worker are one board of jobs: each task enters it
\* once, is done at most once, with one audit row, and leaves it no other way
\* than done or hit by a failure, until Redis comes back from a snapshot
\* (task_queue.go 185-322, transmutation_handlers.go 122-133).
JobsAreKept == Board!Spec
=============================================================================
