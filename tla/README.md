# Formal models of the Amestris platform

TLA+ models of the Go back end (`src/backend`) of the alchemy platform and of
the React pages that follow it live (`src/frontend`). TLC checks them on small
instances; TLAPS proves their safety properties and refinements for every
instance. Line numbers refer to the files under `src/`; `PROJECT.json` maps
every definition to the lines it translates.

## 1. The system

One Go process serves a REST API, runs one worker goroutine and streams events.
It shares Postgres with itself only, through gorm, and a Redis list
`alchemy:tasks` between its handlers and its worker.

```
 browser --HTTP--> handlers --gorm--> Postgres <--gorm-- worker (task_queue.go)
    ^                 |  \--LPUSH--> Redis list --BRPOP-->  |
    |                 |                                     |
    +--SSE-- handleEvents <--channel-- EventHub <--Broadcast+ (worker, handlers)
```

| Component | State it keeps | Operations | What makes it correct |
|---|---|---|---|
| Transmutation handlers (`transmutation_handlers.go`) | rows of `transmutations` | Create, Edit, Delete, GetAll, GetByID | a committed operation is audited, and a created row processed; a deleted row stays deleted; every change is broadcast |
| Task queue and worker (`task_queue.go`) | the Redis list, the task in hand | enqueue, worker, dispatch, handleTransmutation, handleAudit, handleDailyVerification, recordWorkerError | no task is lost or executed twice without a failure; the status column agrees with what was executed |
| Redis client (`redis_client.go`) | one connection per call | Ping, LPUSH, BRPOP, parseRESP | a call takes effect at most once, returns, and says what happened |
| Material stock (`material_handlers.go`, `transmutation_repository.go`) | rows of `materials` | Create, Edit, Delete, the drawing transaction | never negative; what was set minus what was drawn |
| Event hub and streams (`events.go`, `server.go` 223-284) | map of channels, RWMutex, 16-element buffers | Broadcast, Subscribe, Unsubscribe, the stream loop | no send to a closed channel; nobody waits for a slow browser; order per sender |
| Missions (`mission_handlers.go`) | rows of `missions` | Create, Edit, UpdateStatus, Delete | a closing is noticed, and reported as `mission_closed`, once; the last request stands |
| Accounts (`auth_handlers.go`) | `users`, alchemist profiles, tokens | Register, Login | one account per address, each alchemist account with its profile |
| Audit rows (`audit_handlers.go`) | rows of `audits` | Create, Edit, Delete | the last request stands; changes are broadcast |
| Daily verification (`task_queue.go` 138-160, 324-378) | ticker, scheduler goroutine | ScheduleDailyVerification, enqueueDailyVerification, handleDailyVerification | every finding is reported in the end, a report is true, the schedule goes on |
| Routing and roles (`router.go`, `middleware.go`) | none | AuthMiddleware per route | each operation is open to its roles only |
| Alchemists (`alchemist_handlers.go`) | rows of `alchemists` | Create, Edit, Delete | plain records |
| Pages with live data (`Dashboard.tsx`, `Transmutations.tsx`, ...) | the lists last loaded, an EventSource | load, reload on an event or after an own request | what is shown ends up as the database has it |
| Session (`AuthContext.tsx`, `AppRouter.tsx`, `api.ts`) | token in local storage | login, logout, reload, expiry | a page offers what the back end admits its token to |
| Start-up (`main.go`, `server.go` 77-216) | how far it has come | initDB, loadSeedData, initAsyncInfrastructure, ListenAndServe | it is repeated until it succeeds, then worker and scheduler run |
| Configuration, logging, DTOs | environment, files | - | plain input and output |

What is hard here, and hard to test:

* A handler reads, writes, enqueues and broadcasts in separate steps. There is
  no transaction around them, and no lock between a read and the Save of the
  whole row that follows.
* gorm's `Save` is an UPDATE of all columns; when it finds no row, because the
  row was soft-deleted in between, it inserts the row again with `deleted_at`
  cleared. An overtaken deletion is thereby undone.
* The worker takes a task off the list before it executes it. A crash, an error
  of Postgres or a lost reply therefore loses it.
* Redis may come back from an older snapshot and deliver tasks again.
* The Redis client has no deadline and reads EOF again and again.
* A verification is three queries and an INSERT without a transaction; its task
  may be lost or fail half-way, and waits behind those of requests.
* Start-up may fail, hang or be killed at each step, and Docker repeats it.
* Events are dropped when a browser is 16 events behind, and are sent by
  several goroutines at once.
* A page starts its first load and its subscription at the same time, and loads
  that events start may finish in another order.
* The tabs of a browser share its local storage, but each keeps its own copy of
  token and user until it is reloaded.

The complete list, each item at its line with the properties that would notice
it going wrong, is `hazards` in `PROJECT.json`.

## 2. The modules

| Module | Models | State and actions |
|---|---|---|
| `TransmutationPipeline` | handlers, list, worker and rows of a transmutation from request to audit row | `row` is the table, `queue` the list, `pc` where each request is, `wpc` and `inHand` the worker. One action per statement with an effect: `CreateCommit`, `Find`, `EditSave`, `DeleteRow`, `Reject`, `Enqueue`, `Announce` for the handlers; `Pop`, `Load`, `RowMissing`, `AlreadyCompleted`, `SaveStatus`, `WorkerAnnounce`, `AuditProcessed`, `HandleAudit`, `RecordError` for the worker; the ways Postgres, Redis and the process fail. |
| `Jobs` | what `TransmutationPipeline` promises, abstractly: a board of jobs without handlers, list and worker | the `open`, `done` and `lost` tasks and the audit `trail`; `Accept`, `Do`, `Fail`, `Restore`. |
| `Inventory` | `materials` and the transactions on it | `material` and its row `lock`; `DrawBegin`, `DrawLock`, `DrawRefused`, `DrawCommit`, `DrawRollback` are the transaction of `TransmutationRepository.Create`, the other actions the handlers of `material_handlers.go`. |
| `EventHub` | `events.go` and `handleEvents` | `clients`, the RWMutex (`writer`, `readers`), one `buffer` per stream; one action per lock operation, channel operation and turn of a loop. |
| `EventFeed` | what `EventHub` promises to one browser, abstractly: a queue without map, locks and goroutines | the events `due`, the `link` and the `stream`; each event is decided once, by `Put` or, for a reason, by `Miss`; `Open`, `Take`, `Close`. |
| `Stock` | what `Inventory` promises, abstractly: a draw is one step | `material` and the `grants` given out. |
| `RedisClient` | `redis_client.go` and the worker's loop around it | per call `pc`, `conn`, `wire`, `reply`; Redis with its list and snapshot. |
| `TaskList` | what `RedisClient` promises, abstractly: a list without sockets | what became of each `call`, the `list`, the task in `hand`. |
| `Verification` | start-up, scheduler and `handleDailyVerification` | `server` is how far StartServer has come, `scheduler` and `worker` where the goroutines are, `tick` the ticker's channel, `found` what the queries have counted. `InitDB`, `StartQueue`, `Serve`; `Tick`, `TakeTick`, `Enqueue`; `Pop`, `FindPending`, `FindOpen`, `FindScarce`, `SaveReport`, `RecordError`; `Change` and `Age` of rows; the ways each fails or hangs. |
| `Records` | missions, alchemists and audit rows | `life` and `row` are the tables, `pc`, `copy` and `action` a request: `Find`, then `Edit`, `UpdateStatus`, `StatusIsThere`, `Delete` or `Reject`, then `Report`; `Create`. The history variables `meant`, `outdated`, `overtaken` and `rewritten` say what was asked for and which copies were stale. |
| `Accounts` | registration, log-in, the session of a browser, roles | `users`, `profiles`; per registration `RegisterCheck`, `InsertUser`, `InsertProfile` and their failures; per tab `LoginFind`, `LoginDone`, `Logout`, `Reload`. `Permitted` is the table of `router.go`, `PagesOf` and `Calls` what the front end offers. |
| `LivePage` | Dashboard, Transmutations or Audits in a browser | `version` counts the changes of a table, `due` those not broadcast yet, `stream` the events on their way, `loads` the GETs on their way, `shown` what the page shows. Its stream moves by the actions of `EventFeed`. |
| `TransmutationPipelineProofs`, `InventoryProofs`, `EventHubProofs`, `RedisClientProofs`, `RecordsProofs`, `AccountsProofs`, `LivePageProofs`, `VerificationProofs` | - | the theorems. |
| `MC...` | - | model values for TLC. |

`RedisClient` justifies the outcomes `TransmutationPipeline` gives an LPUSH or
BRPOP in one step: done; reported as an error, whether it took effect or not;
never answered. `TaskList` states these outcomes, `RedisClient!KeepsPromise` that
the client has no others, and `Verification` takes them over for the scheduler.
`Stock` states what `CreateCommit` takes for granted, that a draw is one step,
and `Inventory!DrawsAreAtomic` that the locking transaction is one.
`Jobs` states what `RedisClient`'s failures leave of a task's life from request to
audit row, and `TransmutationPipeline!JobsAreKept` that there is no more to it.
`EventHub` takes over where `Announce` and `WorkerAnnounce` end; it implements one
`EventFeed` per stream (`EventHub!StreamsAreFeeds`), of which `LivePage` takes one
as its stream and follows events to what a user sees. `Records` and
`Inventory` end where a handler enqueues its audit, which `TransmutationPipeline`
models; of that call they keep that it may fail or never return (`unreported`,
`hung`).

### External behaviour

Code outside `src/` is modelled from how the code uses it:

* Postgres: a statement is atomic; `SELECT ... FOR UPDATE` and `UPDATE` wait for
  the row's lock and then see the row as last committed (read committed). A
  statement that returns an error has had no effect: losing the acknowledgement
  of a commit is left out. This is an assumption, and the pipeline's properties
  need it: if the Save of COMPLETED (`task_queue.go` 278) took effect and still
  returned an error, the Save of FAILED that follows (281) would take COMPLETED
  back, against `CompletionIsFinal`; after such a Save of PROCESSING (268) the
  change would not be announced, against `ChangeWillBeAnnounced`.
* gorm: `First` ignores soft-deleted rows; `Save` as described above.
* Redis: LPUSH and BRPOP are atomic and work on opposite ends; the list in a
  snapshot may be older than the list; a stop in order saves it.
* TCP: a connection ends for both sides at the same time, either by EOF, after
  what was sent has arrived, or by a reset. A write after the EOF succeeds and
  reaches nobody, a write after a reset fails. A reply is small and arrives whole
  or not at all. (A peer that vanishes silently, so that Redis would still serve
  a BRPOP nobody waits for, is left out.)
* Go: a `time.Ticker` holds one tick and drops those it has no room for;
  `sync.RWMutex` prefers writers; `select` chooses among ready cases.

### Abstractions

In `TransmutationPipeline` a row is its status and whether it was soft-deleted;
formula, result, owner, texts and times are left out. A task's payload is the
request it came from. The back end's restart is one step: cut-off requests, an
idle worker, streams closed. `init.sql` runs again at each start and changes
nothing then (`ON CONFLICT DO NOTHING`). Quantities are whole numbers. In
`Records` a status is a word and its spelling, because `EqualFold` and
`ToUpper`/`TrimSpace` differ on spellings; all other columns are one. In
`Accounts` a token is reused once no tab keeps it, and whoever logs in knows the
password. In `LivePage` the content of a table is the number of changes
committed to it. In `Verification` time is not counted: a row is older than the
threshold or not, and grows old at any moment; a tick may come at any moment; a
material is scarce or not. All tasks of requests are `other`. An ARCHIVED
mission counts as open, and so does one completed in another spelling, since
`FindOpenBefore` compares with COMPLETED only; a transmutation whose status Edit
stored in another spelling (`pending`) counts as nothing, since
`FindPendingBefore` compares with PENDING and PROCESSING only.

## 3. What TLC checks

| Run | Question | Bounds |
|---|---|---|
| `pipeline_failures` | Do status, audit trail and events agree with what was executed, for every interleaving and any two failures, and is every step one of `Jobs`? | 2 requests, 2 rows (1 seeded), 2 failures of 6 kinds |
| `pipeline_progress` | Is every committed operation audited and every accepted transmutation completed? | 2 requests, 2 rows, 1 failure, Redis not restarted |
| `inventory` | Is a draw one step from what is there (`Stock`), is stock conserved, and does nobody wait for a row for ever? | 3 requests, 2 materials, quantities 0, 2, 3 |
| `event_hub` | Are sends safe, ordered and complete while streams come and go, is each stream an `EventFeed`, and does no broadcast wait for a browser? | 2 goroutines with 2 and 1 events, 2 streams (1 never read), buffer of 2 |
| `redis_client` | Are calls applied at most once and in order, do they do what `TaskList` promises, and does service resume after resets? | 2 tasks, 2 failures, connections ending either way |
| `redis_restart` (violated) | Does it resume if Redis closes connections in order? | 2 tasks, 1 failure |
| `records` | Does every mission that becomes completed have a request that noticed, and only one, does the last request stand, do deleted rows stay deleted? | 3 requests, 1 mission and 1 audit row, 3 words in 3 spellings, 2 texts |
| `accounts` | One account per address, profiles for alchemists, pages that work? | 2 registrations, 2 addresses, 2 seeded accounts, 2 tabs, 2 tokens |
| `live_page` | Does a page end up showing what it follows, or is there a reason? | any of 3 pages, 2 changes, 1 failure of 5 kinds, a stream with a buffer of 1 |
| `live_page_missions` (violated) | Does the Dashboard follow the missions? | 1 change, no failures |
| `verification` | Is a report true, is every finding reported in the end, do verifications go on for ever? | 1 row of each table, 1 change, 2 failures, 2 verifications and 1 other task in the list |
| `verification_empty` (violated) | Is an audit row written only if there is a finding? | no failures |

Why the bounds are enough for what they are asked: two requests and the worker
are three actors on one row, so each pair of stale copies can overlap with a
third writer; two failures allow a loss and a redelivery, or a failed COMPLETED
followed by a failed FAILED. Three requests on one material let two draws
overlap with an edit. A stream overflows with more events than its buffer holds,
and two streams make two writers compete for the lock while a reader waits.
Three requests on a mission are a reader, a writer that overtakes it and a third
that sees the result. Two tabs and two tokens let one tab log in anew while the
other keeps its session. Two changes make two loads of one table overtake each
other, and overflow a stream with a buffer of one while another event is being
written. Two failures let a verification fail after the one before it was lost,
or a restart hit a report under way; rows of different tables do not interact,
and one change of a row between two queries suffices to make a count outdated.
The theorems below remove the bounds for the safety properties of all modules.

All type invariants are proved; of the runs only `redis_client` checks its own
(which says, besides types, that a connection is closed exactly when its call is
over).

Deadlock is checked for `accounts` only, where tabs never stop; the other modules
come to rest when their requests are served, events broadcast or tasks taken, or
(`Verification`) when a start-up hangs.

Each property has a mutant in `PROJECT.json`: a definition of the module
altered as a slip in the code would alter it, under which TLC finds the
property violated. The altered definitions are the operators named `...Mutant`.

### Fairness

Weak fairness of what a goroutine does by itself, since the Go scheduler runs
every goroutine that can run, and the browser every callback; of Redis serving
what has reached it, and of its restart (`restart: unless-stopped` in
`docker-compose.yml`). None of arrivals, edits, rejections, disconnections or
failures. In `Inventory` it is the statements of a request that are fair, not its
reply, which comes after an EnqueueAudit that may never return; so
`StatementsEnd` says that requests get through their statements, also while
others hang, and does not say that they are answered. A stalled browser's `Write` is disabled rather than unfair, so no
property rests on browsers reading. Locks and selects would need strong fairness
if events and requests were unlimited, which `sync.Mutex` (waiters are served in
turn) and the random choice of `select` provide. In `Verification` the ticker
ticks for ever, and the start is repeated for ever (`restart: unless-stopped`);
where a call of Redis never returns (`Halted`) nothing is promised.

### Findings

* `redis_restart`: `parseRESP` (`redis_client.go` 137) reads again after EOF.
  When Redis is stopped in order, the BRPOP that waits for a task sees EOF and
  the worker spins until the back end is restarted; listed tasks stay. The
  advice of `README.md` 135 and `backend/README.md` 106, `docker compose restart
  redis`, brings this about.
* `live_page_missions`: `frontend/README.md` 50 says the Dashboard follows
  `mission_*` events, and `Dashboard.tsx` 232-235 waits for `mission_updated` and
  `mission_created`, but no handler broadcasts them: a mission somebody else
  changes stays as it was loaded.
* `verification_empty`: `README.md` 139 says a verification writes an audit row if
  it finds something; `task_queue.go` 362-372 writes one in any case, with `Sin
  hallazgos críticos`.

What the properties except, because the code allows it: an Edit overtaken by
another writer overwrites it (`touched`, `overlapped`), or revives a row deleted
in between (`HoldsCopy`); a task hit by a failure is not executed again
(`dropped`); a restored Redis delivers again (`restored`); a Save writes back
columns it read before another request set them (`outdated`), and two requests
may both report the same closing if one had read an overtaken status
(`overtaken`, `rewritten`); an alchemist's account may stay without a profile
(`half`); a page stays behind after a lost event, a broken stream, a failed
load or replies that overtake each other (`excused`); a report counts what a row
was when its table was queried (`touched`).

## 4. What is proved

`TransmutationPipelineProofs` proves `Spec => []TypeOK`, `[]Inv` and from `Inv`
the eight properties of run `pipeline_failures`, for any numbers of
requests, rows and failures. The argument:

* A task is the pair of a job and the request it comes from, so "executed
  twice" is visible. `AtMostOnce` is inductive once it also speaks of the tasks
  a request may still enqueue (`Future`).
* `NothingForgotten` follows from the way each step moves a task from handler
  to list, to the worker, to `settled`, or records it in `dropped`.
* `OpenRowHasTask` is not inductive: it needs that an executed processing task
  left the row completed or deleted (`ExecutedInv`), that the worker holds one
  task, from a committed Create (`WorkerInv`, `OriginInv`), and that a row has
  one creator (`CreatorInv`), so no other Create resets the status.
* `SettledLeavesTrace` needs `TraceInv`: the early return for COMPLETED leaves no
  audit row, so a completed row must already have one.
* `CompletionIsFinal` needs `UncompletedInv`: while the worker holds a copy of a
  row nobody edited, that row is not COMPLETED, so its Saves take nothing back.
* `DeletionIsFinal` follows from who may hold a copy.
* `PipelineImplementsJobs` proves `Spec => Board!Spec`, the refinement of `Jobs`
  with the tasks outstanding anywhere as `open`, `settled` as `done` and
  `dropped` as `lost`. One lemma per kind of step says which step of the board it is
  (`AcceptStep`, `EnqueueStep`, `EnqueueFailStep`, `PopStep`, `FinishStep`,
  `WorkerFailStep`, `CrashStep`, `RestartStep`), and `BoardStep` puts them together.
  It needs two facts that `Inv` does not give. `FreshInv`: what a handler is
  still to enqueue is in no other place and never was, or accepting it would not
  be the first acceptance. `SavedInv`: whatever a snapshot lists was outstanding,
  done or hit, or a restart of Redis would put unknown tasks on the board.
  Both rest on a request never going back to an earlier enqueue (`FutureFacts`).
* `AuditedOnce` (`[]Board!RecordedOnce`) uses nothing of the pipeline but that it
  is a board: `RecordedOnce` is made inductive by "what is open has not been done"
  and "a row's task has been done" (`OnceInv`), and carries over by the refinement.

`InventoryProofs` proves type correctness, `NonNegative`, `Ledger` and
`DeletionIsFinal` of `Inventory` for any requests, materials and quantities. The
strengthening is `LockInv` (the transaction that holds a lock still has the
row's current quantity in hand, and enough of it), `CopyInv` (copies are not
negative) and `AbsentInv` (rows that do not exist yet have an empty account).
`InventoryImplementsStock` proves the refinement of `Stock`: every step maps to a
step or a stutter, where `DrawInv` says that a request that draws has not drawn
before.

`RecordsProofs` proves type correctness, `CompletedWasClosed`, `ClosedOnce`,
`LastRequestStands` and `DeletionIsFinal` of `Records` for any tables and requests.
`CompletedWasClosed` says that a mission that reads COMPLETED was inserted so, or
that a request reports it as closed, or lost that report in EnqueueAudit. It needs
the same of every copy that reads COMPLETED (`CopyInv`); `ClosedOnce` needs that a
closing by a request that was not overtaken stands until the mission is given
another status (`CloserInv`). `Edit` and
`UpdateStatus` are both instances of one lemma about saving a copy, `SavesInv`.

`AccountsProofs` proves type correctness, `OneAccount`, `ConfirmedExists` and
`PagesWork` of `Accounts` for any registrations, tabs and tokens. `ConfirmedExists`
needs `InsertedExists` (the user stays after InsertUser); `PagesWork` needs
`SessionsSigned` (a session's user is the one in its token), after which it is
a fact about the table of routes (`RolesFit`).

`EventHubProofs` proves `SendsToOpenChannels`, `InOrder`, `Accounted` and
`MissIsFollowed` of `EventHub`, and its types, for any goroutines, streams, events
and buffers. `LockInv` says who holds the lock and
which streams are registered; `CurrentInv` says where the event being broadcast
is: on every stream the loop has reached, or missed there, and on no other, and
no later event is anywhere. `InOrder` then follows because what a loop appends is
newer than all its goroutine sent before.

`HubImplementsFeeds` and `EachStreamIsAFeed` prove that the hub implements an
`EventFeed` for each stream. `due` is mapped to the events of the goroutines
that are in Broadcast and have not reached the stream. `DecideFacts` says that
deciding one event takes exactly that one from `due`, since events of different
goroutines differ. A goroutine that begins its loop misses the streams that are
not in the map (`BeginStep`); that such a stream is not open for its browser
either takes `LeaveInv`: only streams whose browser has left unsubscribe. What a
stream in the middle of a write holds is one event more than its buffer, hence
`Capacity + 1` in `Put`.

`RedisClientProofs` proves type correctness, `SuccessIsKept`, `OnceInOrder` and the
refinement `KeepsPromise` of `TaskList`, for any tasks and failures. `CallInv` ties
commands and replies to the caller that waits for them, `PushedInv` says that
who pushed a task will not push it again, `KeptInv` that what was pushed is
somewhere, `OrderInv` that what was taken, is on its way and is listed comes in
the order of the pushes unless Redis went back to a snapshot. Lost connections
and restarts are one lemma, `HangupFacts`.

`LivePageProofs` proves type correctness and `StaleHasReason` of `LivePage` for any
numbers of changes and failures. `FollowInv` is the strengthening: a table that is
behind without a reason has a GET under way that saw, or will see, the last
change, or a change that will be heard; an event on the stream is replaced by
the GET it starts (`FollowedIsHeard`), and a reply that replaces a newer one is a
reason.

`VerificationProofs` proves type correctness, `ReportIsTrue` and
`ReportedStillWaits` of `Verification` for any rows. `ReportInv` says that what was
counted is exact for the tables already asked for (`Asked`), and that nothing of
the others is in it.

Each of the 28 properties of the passing runs that is not a liveness property
(invariants, action properties, refinements) is stated by one of the theorems.
Assumptions: `ConstantsOK` of each module, which TLC evaluates in every run.

Model-checked only: liveness under fairness (`OperationIsAudited`,
`AcceptedIsCompleted`, `StatementsEnd`, `BroadcastReturns`, `GoneIsRemoved`,
`SentIsWritten`, `TakenUnlessEOF`, `PushReturns`, `CatchesUp`, `FindingIsReported`,
`ScheduleGoesOn`), which is outside what the proof system's backends can do, and
the three violations.

## 5. Not modelled, and what could follow

Could follow: the recursion of `parseRESP` on nested replies, and replies that
arrive in parts; an abstract record store for `Records`, whose stale Saves make
it a list of exceptions rather than a specification; the forms of the pages,
which send back a row as it was when they were opened.

Left out for good: the bytes of RESP replies beyond what decides between success,
error and EOF; constraints of the schema other than the unique address (a mission
without an assignee is refused by its foreign key); schema migrations; JWT and
bcrypt (libraries); logging, formatting and layout;
floating-point rounding of quantities.
