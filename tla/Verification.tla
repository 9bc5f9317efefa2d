----------------------------- MODULE Verification -----------------------------
(* The daily verification: how the back end starts (server.go), the scheduler *)
(* and its ticker, and the worker's handleDailyVerification (task_queue.go).  *)
(*                                                                            *)
(* The ticker's channel holds one tick; those it has no room for are dropped. *)
(* A verification is three queries and the INSERT of an audit row, between    *)
(* which rows change and age. Its task waits among those of requests. Time is *)
(* not counted: a row grows old at any moment, a tick comes at any moment.    *)
(* RedisClient shows why an LPUSH or BRPOP may fail or never return.          *)
(* Definitions named ...Mutant are broken on purpose: they show that some     *)
(* property notices.                                                          *)
EXTENDS Naturals, Sequences, FiniteSets

CONSTANTS
  Transmutations, Missions, Materials,  \* ids of the rows of the three tables
  Seed,          \* the rows of init.sql: a function from ids to rows
  MaxListed,     \* bound: verifications in the list
  MaxOthers,     \* bound: other tasks in the list
  MaxChanges,    \* bound: changes of rows by requests and the worker
  MaxFaults      \* bound: failures of all kinds

Rows == Transmutations \cup Missions \cup Materials

\* What the queries ask of a row: its status and whether the date they compare
\* is older than pending_transmutation_hours. Of a material: whether its
\* quantity is at most the low-stock threshold. (IN_PROGRESS is as PENDING; Edit
\* lets a mission be completed in any spelling, and stores the status of a
\* transmutation as it was sent: "pending" stands for what no query selects.)
Statuses(r) ==
  CASE r \in Transmutations -> {"PENDING", "PROCESSING", "COMPLETED", "FAILED", "pending"}
    [] r \in Missions -> {"PENDING", "COMPLETED", "completed", "ARCHIVED"}
    [] OTHER -> {"scarce", "plenty"}

Row ==
  [status : {"absent", "deleted", "PENDING", "PROCESSING", "COMPLETED", "FAILED",
             "pending", "completed", "ARCHIVED", "scarce", "plenty"},
   old : BOOLEAN]

ASSUME ConstantsOK ==
  /\ Transmutations \cap Missions = {}
  /\ (Transmutations \cup Missions) \cap Materials = {}
  /\ DOMAIN Seed \subseteq Rows
  /\ \A r \in DOMAIN Seed : Seed[r] \in Row /\ Seed[r].status \in Statuses(r)
  /\ MaxListed \in Nat /\ MaxOthers \in Nat /\ MaxChanges \in Nat /\ MaxFaults \in Nat

VARIABLES
  row,           \* the tables
  server,        \* how far the back end has started
  scheduler,     \* where the scheduler's goroutine is
  tick,          \* the ticker's channel holds a tick
  list,          \* alchemy:tasks, the next task first
  worker,        \* where the worker is
  found,         \* the rows the verification under way has counted
  changes, faults,  \* how many changes and failures there were
  touched,       \* history: rows that became or ceased to be a finding since
                 \* the verification under way began
  reported       \* history: findings an audit row has counted

process == <<server, scheduler, tick, worker, found>>
history == <<touched, reported>>
vars == <<row, process, list, changes, faults, history>>

Queries == {"transmutations", "missions", "materials"}

TypeOK ==
  /\ row \in [Rows -> Row]
  /\ \A r \in Rows : row[r].status \in Statuses(r) \cup {"absent", "deleted"}
  /\ server \in {"down", "prepared", "working", "serving", "hung"}
  /\ scheduler \in {"none", "enqueue", "select", "stuck"}
  /\ scheduler = "none" <=> server # "serving"
  /\ tick \in BOOLEAN
  /\ list \in Seq({"verification", "other"})
  /\ worker \in {"none", "pop", "other", "save", "record", "stuck"} \cup Queries
  /\ worker = "none" <=> server \notin {"working", "serving"}
  /\ found \subseteq Rows
  /\ changes \in 0..MaxChanges /\ faults \in 0..MaxFaults
  /\ touched \subseteq Rows /\ reported \subseteq Rows

Init ==
  /\ row = [r \in Rows |-> [status |-> "absent", old |-> FALSE]]
  /\ server = "down" /\ scheduler = "none" /\ tick = FALSE /\ worker = "none"
  /\ list = <<>> /\ found = {}
  /\ changes = 0 /\ faults = 0
  /\ touched = {} /\ reported = {}

-----------------------------------------------------------------------------
(* The tables.                                                                *)

\* Row r of content x waits for somebody: the verification is to report it.
Waits(r, x) ==
  \/ r \in Transmutations /\ x.status \in {"PENDING", "PROCESSING"} /\ x.old
  \/ r \in Missions /\ x.status \in Statuses(r) \ {"COMPLETED"} /\ x.old
  \/ r \in Materials /\ x.status = "scarce"

Finding(r) == Waits(r, row[r])

\* The rows become those of `new`.
Rewrite(new) ==
  LET flipped == {r \in Rows : Waits(r, new[r]) # Finding(r)}
  IN /\ row' = new
     /\ touched' = touched \cup flipped
     /\ reported' = reported \ flipped

\* A request or the worker's other tasks insert a row or give it a new status.
\* Every Save refreshes updated_at, which is the date of a mission, and keeps
\* created_at, which is that of a transmutation.
Change(r, s) ==
  /\ server = "serving" \/ worker = "other"
  /\ changes < MaxChanges
  /\ row[r].status = "absent" => s # "deleted" /\ (r \notin Materials => s = "PENDING")
  /\ changes' = changes + 1
  /\ Rewrite([row EXCEPT ![r] =
       [status |-> s, old |-> r \in Transmutations /\ row[r].old]])
  /\ UNCHANGED <<process, list, faults>>

\* The threshold passes the row's date.
Age(r) ==
  /\ r \notin Materials /\ row[r].status # "absent" /\ ~row[r].old
  /\ Rewrite([row EXCEPT ![r].old = TRUE])
  /\ UNCHANGED <<process, list, changes, faults>>

-----------------------------------------------------------------------------
(* StartServer, and the end of the process.                                   *)

Fault == faults < MaxFaults /\ faults' = faults + 1

\* INSERT ... ON CONFLICT (id) DO NOTHING: only rows that never existed.
Seeded ==
  [r \in Rows |-> IF r \in DOMAIN Seed /\ row[r].status = "absent" THEN Seed[r] ELSE row[r]]

\* initDB. A seed file that cannot be read or executed is only logged.
InitDB ==
  /\ server = "down"
  /\ server' = "prepared"
  /\ \/ Rewrite(Seeded) /\ UNCHANGED faults
     \/ Fault /\ UNCHANGED <<row, history>>
  /\ UNCHANGED <<scheduler, tick, worker, found, list, changes>>

\* TaskQueue.Start: Redis answers the PING, the worker is started.
StartQueue ==
  /\ server = "prepared"
  /\ server' = "working"
  /\ worker' = "pop"
  /\ UNCHANGED <<row, scheduler, tick, found, list, changes, faults, history>>

\* Fatal ends the process: Postgres or Redis is not there. Docker starts it
\* again.
StartFails ==
  /\ Fault /\ server \in {"down", "prepared"}
  /\ server' = "down"
  /\ UNCHANGED <<row, scheduler, tick, worker, found, list, changes, history>>

\* The PING is answered by EOF, which parseRESP reads for ever.
StartHangs ==
  /\ Fault /\ server = "prepared"
  /\ server' = "hung"
  /\ UNCHANGED <<row, scheduler, tick, worker, found, list, changes, history>>

\* ScheduleDailyVerification, called after Start, begins with a verification.
FirstStep == "enqueue"

\* ScheduleDailyVerification, then ListenAndServe.
Serve ==
  /\ server = "working"
  /\ server' = "serving"
  /\ scheduler' = FirstStep
  /\ tick' = FALSE
  /\ UNCHANGED <<row, worker, found, list, changes, faults, history>>

\* The process ends, be it of itself or restarted by its operator.
Crash ==
  /\ Fault /\ server # "down"
  /\ server' = "down" /\ scheduler' = "none" /\ tick' = FALSE /\ worker' = "none"
  /\ found' = {}
  /\ UNCHANGED <<row, list, changes, history>>

-----------------------------------------------------------------------------
(* The scheduler and the list.                                                *)

Listed(task) == Cardinality({i \in DOMAIN list : list[i] = task})

\* LPUSH and BRPOP work on opposite ends.
Pushed(task) == Append(list, task)

\* The ticker sends without waiting; a second tick finds no room.
Tick ==
  /\ server = "serving" /\ ~tick
  /\ tick' = TRUE
  /\ UNCHANGED <<row, server, scheduler, worker, found, list, changes, faults, history>>

TakeTick ==
  /\ scheduler = "select" /\ tick
  /\ tick' = FALSE
  /\ scheduler' = "enqueue"
  /\ UNCHANGED <<row, server, worker, found, list, changes, faults, history>>

GiveUpMutant == "none"
\* Where the scheduler goes on after an enqueue, also one that failed.
AfterEnqueue == "select"

\* enqueueDailyVerification.
Enqueue ==
  /\ scheduler = "enqueue" /\ Listed("verification") < MaxListed
  /\ list' = Pushed("verification")
  /\ scheduler' = "select"
  /\ UNCHANGED <<row, server, tick, worker, found, changes, faults, history>>

\* LPUSH returns an error, be the task listed or not.
EnqueueFails ==
  /\ Fault /\ scheduler = "enqueue" /\ Listed("verification") < MaxListed
  /\ list' \in {list, Pushed("verification")}
  /\ scheduler' = AfterEnqueue
  /\ UNCHANGED <<row, server, tick, worker, found, changes, history>>

\* LPUSH does not return.
EnqueueHangs ==
  /\ Fault /\ scheduler = "enqueue" /\ Listed("verification") < MaxListed
  /\ list' \in {list, Pushed("verification")}
  /\ scheduler' = "stuck"
  /\ UNCHANGED <<row, server, tick, worker, found, changes, history>>

\* A handler enqueues a task.
EnqueueOther ==
  /\ server = "serving" /\ Listed("other") < MaxOthers
  /\ list' = Pushed("other")
  /\ UNCHANGED <<row, process, changes, faults, history>>

\* Redis comes back with the list of a snapshot.
RedisRestored ==
  /\ Fault
  /\ list' \in {<<>>, <<"verification">>, <<"other">>}
  /\ UNCHANGED <<row, process, changes, history>>

-----------------------------------------------------------------------------
(* The worker.                                                                *)

KeptDetailsMutant == found
\* The details with which handleDailyVerification begins.
NoDetails == {}

\* BRPOP returns a task, and dispatch looks at its type.
Pop ==
  /\ worker = "pop" /\ list # <<>>
  /\ list' = Tail(list)
  /\ IF Head(list) = "verification"
       THEN worker' = "transmutations" /\ found' = NoDetails /\ touched' = {}
       ELSE worker' = "other" /\ UNCHANGED <<found, touched>>
  /\ UNCHANGED <<row, server, scheduler, tick, changes, faults, reported>>

\* BRPOP returns an error, and a task it took is lost.
PopFails ==
  /\ Fault /\ worker = "pop" /\ list # <<>>
  /\ list' = Tail(list)
  /\ UNCHANGED <<row, process, changes, history>>

\* BRPOP does not return.
PopHangs ==
  /\ Fault /\ worker = "pop"
  /\ list' \in {list} \cup (IF list = <<>> THEN {} ELSE {Tail(list)})
  /\ worker' = "stuck"
  /\ UNCHANGED <<row, server, scheduler, tick, found, changes, history>>

\* Another task has been executed, with success or not.
OtherDone ==
  /\ worker = "other"
  /\ worker' = "pop"
  /\ UNCHANGED <<row, server, scheduler, tick, found, list, changes, faults, history>>

\* One query of handleDailyVerification has these results.
Query(here, result, next) ==
  /\ worker = here
  /\ found' = found \cup result
  /\ worker' = next
  /\ UNCHANGED <<row, server, scheduler, tick, list, changes, faults, history>>

PendingOnlyMutant == {r \in Transmutations : row[r].status = "PENDING" /\ row[r].old}
PendingBefore ==
  {r \in Transmutations : row[r].status \in {"PENDING", "PROCESSING"} /\ row[r].old}

\* Whatever is not COMPLETED in capitals is open, also what is ARCHIVED.
OpenBefore ==
  {r \in Missions : row[r].status \notin {"absent", "deleted", "COMPLETED"} /\ row[r].old}

Scarce == {r \in Materials : row[r].status = "scarce"}

FindPending == Query("transmutations", PendingBefore, "missions")
FindOpen == Query("missions", OpenBefore, "materials")
FindScarce == Query("materials", Scarce, "save")

\* The audit row, which says "Sin hallazgos" if nothing was found, and its
\* broadcast.
SaveReport ==
  /\ worker = "save"
  /\ worker' = "pop"
  /\ reported' = reported \cup (found \ touched)
  /\ UNCHANGED <<row, server, scheduler, tick, found, list, changes, faults, touched>>

\* A statement fails: the verification ends.
StatementFails ==
  /\ Fault /\ worker \in Queries \cup {"save"}
  /\ worker' = "record"
  /\ UNCHANGED <<row, server, scheduler, tick, found, list, changes, history>>

\* recordWorkerError, whether or not it succeeds.
RecordError ==
  /\ worker = "record"
  /\ worker' = "pop"
  /\ UNCHANGED <<row, server, scheduler, tick, found, list, changes, faults, history>>

-----------------------------------------------------------------------------
Start == InitDB \/ StartQueue \/ Serve
Schedule == TakeTick \/ Enqueue
Work == Pop \/ OtherDone \/ FindPending \/ FindOpen \/ FindScarce \/ SaveReport \/ RecordError

Fail ==
  \/ StartFails \/ StartHangs \/ Crash
  \/ EnqueueFails \/ EnqueueHangs \/ RedisRestored
  \/ PopFails \/ PopHangs \/ StatementFails

Next ==
  \/ Start \/ Tick \/ Schedule \/ EnqueueOther \/ Work \/ Fail
  \/ \E r \in Rows : Age(r) \/ \E s \in Statuses(r) \cup {"deleted"} : Change(r, s)

Spec == Init /\ [][Next]_vars

\* Docker starts the back end whenever it has ended (restart: unless-stopped),
\* its goroutines run, and the ticker ticks for ever. Nothing makes a request
\* come, a row change or grow old.
FairSpec == Spec /\ WF_vars(Start) /\ WF_vars(Tick) /\ WF_vars(Schedule) /\ WF_vars(Work)

-----------------------------------------------------------------------------
(* Safety.                                                                    *)

\* The audit row about to be written is exact for every row that nobody changed
\* and that did not grow old while the queries ran: it is counted if and only if
\* it is a finding. Nothing of an earlier verification that failed half-way is
\* in it (task_queue.go 324-370).
ReportIsTrue ==
  worker = "save" => \A r \in Rows \ touched : r \in found <=> Finding(r)

\* What an audit row has counted still waits: the report is not outdated by what
\* it did not see (task_queue.go 324-370).
ReportedStillWaits == \A r \in reported : Finding(r)

\* An audit row is written "si detecta misiones abiertas, transmutaciones
\* pendientes o materiales criticos" (README.md 139). It is written in any case
\* (task_queue.go 357-370).
OnlyFindingsAreReported == [][SaveReport => found # {}]_vars

-----------------------------------------------------------------------------
(* What else holds in every reachable state and makes ReportIsTrue inductive; *)
(* VerificationProofs proves it.                                              *)

\* The rows whose table the verification under way has been asked for.
Asked ==
  CASE worker = "missions" -> Transmutations
    [] worker = "materials" -> Transmutations \cup Missions
    [] worker = "save" -> Rows
    [] OTHER -> {}

\* What was counted so far is exact for the tables asked for, and nothing of the
\* others is counted.
ReportInv ==
  worker \in Queries \cup {"save"} =>
    /\ found \subseteq Asked
    /\ \A r \in Asked \ touched : r \in found <=> Finding(r)

Inv == TypeOK /\ ReportInv /\ ReportedStillWaits

-----------------------------------------------------------------------------
(* Liveness, under FairSpec.                                                  *)

\* A call of Redis has not returned; only a restart of the back end helps.
Halted == server = "hung" \/ scheduler = "stuck" \/ worker = "stuck"

\* Whatever leaves a transmutation open, a mission unfinished or a material
\* scarce - a lost task, a crash in the middle of the work, a row of init.sql
\* that never had a task - is reported, or comes to an end. The verification
\* itself may be lost or fail: the next tick makes up for it
\* (task_queue.go 146-160, 324-378).
FindingIsReported ==
  \A r \in Rows : Finding(r) ~> (r \in reported \/ ~Finding(r) \/ Halted)

\* Verifications go on for ever, however the back end was restarted and however
\* many tasks of requests there are, unless a call of Redis never returns.
ScheduleGoesOn == <>[]Halted \/ []<><<SaveReport>>_vars
=============================================================================
