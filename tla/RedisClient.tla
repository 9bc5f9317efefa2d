----------------------------- MODULE RedisClient ------------------------------
(* redis_client.go and the loop of TaskQueue.worker, down to connections.     *)
(*                                                                            *)
(* Every call dials a connection of its own, writes one command and parses    *)
(* one reply: LPUSH for a task a handler enqueues, BRPOP for the worker. No   *)
(* read or write has a deadline, and Stop, which would cancel the context, is *)
(* never called. A connection ends by EOF, after which parseRESP reads EOF    *)
(* for ever, or by a reset, which every caller returns as an error.           *)
(*                                                                            *)
(* Redis and TCP are external: a reply is small enough to arrive whole or not *)
(* at all, both ends lose a connection at the same time, and the sockets of a *)
(* dying process end with a reset when they hold a command it has not read.   *)
(* Definitions named ...Mutant are broken on purpose: they show that some     *)
(* property notices.                                                          *)
EXTENDS Naturals, Sequences, Functions

CONSTANTS
  Tasks,         \* the tasks handlers enqueue, one LPUSH each
  Worker,        \* the worker, whose calls are BRPOP
  Endings,       \* how connections may end: a subset of {"eof", "reset"}
  MaxFaults      \* bound: connections cut, restarts and snapshots of Redis

ASSUME ConstantsOK ==
  /\ Worker \notin Tasks
  /\ Endings \subseteq {"eof", "reset"}
  /\ MaxFaults \in Nat

Callers == Tasks \cup {Worker}

VARIABLES
  pc,            \* per caller: where it is in its call
  conn,          \* per caller: its connection, as it sees it
  wire,          \* per caller: its command, on the way to Redis or being served
  reply,         \* per caller: a reply is on the way
  popped,        \* the task in the reply of BRPOP, as a sequence
  up,            \* Redis accepts connections
  list,          \* alchemy:tasks, in the order of the pushes
  saved,         \* the list in Redis's last snapshot on disk
  taken,         \* history: the tasks BRPOP returned, in order
  pushed,        \* history: the tasks LPUSH added, in order
  lost,          \* history: tasks whose reply was lost, or a restart forgot
  restored,      \* history: Redis came back with an older list
  faults         \* failures so far

sockets == <<conn, wire, reply, popped>>
redis == <<up, list, saved>>
history == <<taken, pushed, lost, restored>>
vars == <<pc, sockets, redis, history, faults>>

TypeOK ==
  /\ pc \in [Callers -> {"idle", "dialed", "waiting", "spin", "ok", "error"}]
  /\ conn \in [Callers -> {"none", "open", "eof", "reset"}]
  /\ wire \in [Callers -> {"none", "sent", "served"}]
  /\ reply \in [Callers -> BOOLEAN]
  /\ popped \in Seq(Tasks) /\ Len(popped) <= 1
  /\ popped # <<>> <=> reply[Worker]
  /\ up \in BOOLEAN
  /\ list \in Seq(Tasks) /\ saved \in Seq(Tasks)
  /\ taken \in Seq(Tasks) /\ pushed \in Seq(Tasks)
  /\ lost \subseteq Tasks
  /\ restored \in BOOLEAN
  /\ faults \in 0..MaxFaults
  /\ \A c \in Callers : conn[c] = "none" <=> pc[c] \in {"idle", "ok", "error"}

Init ==
  /\ pc = [c \in Callers |-> "idle"]
  /\ conn = [c \in Callers |-> "none"]
  /\ wire = [c \in Callers |-> "none"]
  /\ reply = [c \in Callers |-> FALSE]
  /\ popped = <<>>
  /\ up = TRUE  \* Start has had its PONG
  /\ list = <<>> /\ saved = <<>>
  /\ taken = <<>> /\ pushed = <<>> /\ lost = {} /\ restored = FALSE
  /\ faults = 0

-----------------------------------------------------------------------------
(* A call.                                                                    *)

KeptOpenMutant(c) == conn
\* The deferred Close.
Closed(c) == [conn EXCEPT ![c] = "none"]

SwallowMutant == "ok"
\* How a call ends whose connection was reset.
ResetResult == "error"

\* The call returns, pc[c] becomes `result` and the connection is closed.
Return(c, result) ==
  /\ pc' = [pc EXCEPT ![c] = result]
  /\ conn' = Closed(c)
  /\ wire' = [wire EXCEPT ![c] = "none"]
  /\ reply' = [reply EXCEPT ![c] = FALSE]

Dial(c) ==
  /\ pc[c] = "idle" /\ up
  /\ pc' = [pc EXCEPT ![c] = "dialed"]
  /\ conn' = [conn EXCEPT ![c] = "open"]
  /\ UNCHANGED <<wire, reply, popped, redis, history, faults>>

DialFails(c) ==
  /\ pc[c] = "idle" /\ ~up
  /\ pc' = [pc EXCEPT ![c] = "error"]
  /\ UNCHANGED <<sockets, redis, history, faults>>

\* writeCommand, one write. To a connection the other side has closed it
\* succeeds as well, but the command reaches nobody; the read then finds the EOF.
WriteCommand(c) ==
  /\ pc[c] = "dialed" /\ conn[c] \in {"open", "eof"}
  /\ wire' = IF conn[c] = "open" THEN [wire EXCEPT ![c] = "sent"] ELSE wire
  /\ pc' = [pc EXCEPT ![c] = "waiting"]
  /\ UNCHANGED <<conn, reply, popped, redis, history, faults>>

\* A write to a connection that was reset fails.
WriteFails(c) ==
  /\ pc[c] = "dialed" /\ conn[c] = "reset"
  /\ Return(c, ResetResult)
  /\ UNCHANGED <<popped, redis, history, faults>>

\* LPUSH: the reply is read.
Pushed(t) ==
  /\ pc[t] = "waiting" /\ reply[t]
  /\ Return(t, "ok")
  /\ UNCHANGED <<popped, redis, history, faults>>

\* BRPOP returns the task; the worker executes it.
Popped ==
  /\ pc[Worker] = "waiting" /\ reply[Worker]
  /\ taken' = taken \o popped
  /\ popped' = <<>>
  /\ Return(Worker, "ok")
  /\ UNCHANGED <<redis, pushed, lost, restored, faults>>

ReadsAgainMutant == {"eof", "reset"}
\* The endings on which parseRESP tries to read again, and again.
ReadsAgain == {"eof"}

\* parseRESP: reading the prefix of the reply fails.
ReadFails(c) ==
  /\ pc[c] = "waiting" /\ ~reply[c]
  /\ \/ /\ conn[c] \in ReadsAgain
        /\ pc' = [pc EXCEPT ![c] = "spin"] /\ UNCHANGED <<conn, wire, reply>>
     \/ conn[c] \in {"eof", "reset"} \ ReadsAgain /\ Return(c, ResetResult)
  /\ UNCHANGED <<popped, redis, history, faults>>

AgainMutant == {"ok"}
\* When the worker calls again: after an error it sleeps for two
\* seconds first.
Again == {"ok", "error"}

NextCall ==
  /\ pc[Worker] \in Again
  /\ pc' = [pc EXCEPT ![Worker] = "idle"]
  /\ UNCHANGED <<sockets, redis, history, faults>>

-----------------------------------------------------------------------------
(* Redis.                                                                     *)

\* Redis reads the command.
Serve(c) ==
  /\ wire[c] = "sent" /\ conn[c] = "open"
  /\ wire' = [wire EXCEPT ![c] = "served"]
  /\ UNCHANGED <<pc, conn, reply, popped, redis, history, faults>>

PushEndMutant(t) == <<t>> \o list
\* LPUSH and BRPOP work on opposite ends of the list.
PushEnd(t) == Append(list, t)

ServePush(t) ==
  /\ wire[t] = "served" /\ conn[t] = "open" /\ ~reply[t]
  /\ list' = PushEnd(t)
  /\ pushed' = Append(pushed, t)
  /\ reply' = [reply EXCEPT ![t] = TRUE]
  /\ UNCHANGED <<pc, conn, wire, popped, up, saved, taken, lost, restored, faults>>

\* BRPOP waits until there is a task.
ServePop ==
  /\ wire[Worker] = "served" /\ conn[Worker] = "open" /\ ~reply[Worker]
  /\ list # <<>>
  /\ popped' = <<Head(list)>>
  /\ list' = Tail(list)
  /\ reply' = [reply EXCEPT ![Worker] = TRUE]
  /\ UNCHANGED <<pc, conn, wire, up, saved, history, faults>>

Fault == faults < MaxFaults /\ faults' = faults + 1

\* The connections of C end, each in one of the ways possible for it; replies
\* on the way may be lost, and popped tasks with them.
Hangup(C) ==
  \E how \in [C -> Endings], arrives \in [C -> BOOLEAN] :
    /\ \A c \in C : wire[c] = "sent" => how[c] = "reset"
    /\ conn' = [c \in Callers |-> IF c \in C THEN how[c] ELSE conn[c]]
    /\ wire' = [c \in Callers |-> IF c \in C THEN "none" ELSE wire[c]]
    /\ reply' = [c \in Callers |-> reply[c] /\ (c \in C => arrives[c])]
    /\ popped' = IF reply'[Worker] THEN popped ELSE <<>>

Connected == {c \in Callers : conn[c] = "open"}

\* One connection is lost while Redis goes on.
Cut(c) ==
  /\ Fault /\ c \in Connected
  /\ Hangup({c})
  /\ lost' = lost \cup (Range(popped) \ Range(popped'))
  /\ UNCHANGED <<pc, redis, taken, pushed, restored>>

\* Redis stops. Stopped in order it saves the list; killed, it goes back to the
\* last snapshot.
Stop ==
  /\ Fault /\ up
  /\ up' = FALSE
  /\ Hangup(Connected)
  /\ list' \in {list, saved}
  /\ saved' = list'
  /\ restored' = (restored \/ list' # list)
  /\ lost' = lost \cup (Range(popped) \ Range(popped')) \cup (Range(list) \ Range(list'))
  /\ UNCHANGED <<pc, taken, pushed>>

Restart ==
  /\ ~up
  /\ up' = TRUE
  /\ UNCHANGED <<pc, sockets, list, saved, history, faults>>

Snapshot ==
  /\ Fault /\ up /\ saved # list
  /\ saved' = list
  /\ UNCHANGED <<pc, sockets, up, list, history>>

-----------------------------------------------------------------------------
Step(c) ==
  \/ Dial(c) \/ DialFails(c) \/ WriteCommand(c) \/ WriteFails(c) \/ ReadFails(c)
  \/ c \in Tasks /\ Pushed(c)
  \/ (c = Worker /\ Popped) \/ (c = Worker /\ NextCall)

Command(c) == Serve(c) \/ (c \in Tasks /\ ServePush(c)) \/ (c = Worker /\ ServePop)

Next ==
  \/ \E c \in Callers : Step(c) \/ Command(c) \/ Cut(c)
  \/ Stop \/ Restart \/ Snapshot

Spec == Init /\ [][Next]_vars

\* Goroutines run, Redis serves what reaches it, and Docker restarts it
\* (restart: unless-stopped). Nothing makes a handler enqueue.
FairSpec ==
  /\ Spec
  /\ WF_vars(Step(Worker))
  /\ \A t \in Tasks : WF_vars(Step(t) /\ pc[t] # "idle")
  /\ \A c \in Callers : WF_vars(Command(c))
  /\ WF_vars(Restart)

-----------------------------------------------------------------------------
(* Properties.                                                                *)

\* A push that reported success is not lost by the client: the task is listed,
\* on its way to the worker or taken, unless the reply of BRPOP was lost or
\* Redis went back to a snapshot.
SuccessIsKept ==
  \A t \in Tasks :
    pc[t] = "ok" => t \in Range(list \o popped \o taken) \cup lost

\* What the worker took, what it is about to get and what is listed.
Onward == taken \o popped \o list

\* a comes before b in p.
Before(p, a, b) == \E i, j \in DOMAIN p : i < j /\ p[i] = a /\ p[j] = b

\* Unless Redis came back with an older list, the worker takes no task twice and
\* takes them in the order in which they were pushed, across lost replies,
\* errors and retries: the processing a Create enqueues comes before its audit
\* (redis_client.go 58-114, task_queue.go 201-227).
OnceInOrder ==
  ~restored =>
    \A i, j \in DOMAIN Onward :
      i < j => Onward[i] # Onward[j] /\ Before(pushed, Onward[i], Onward[j])

\* What is listed is taken, however often Redis restarts (README.md 135), unless
\* a restart loses it. It is not: the worker reads EOF again and again
\* (redis_client.go 137).
ListedIsTaken ==
  \A t \in Tasks : t \in Range(list) ~> t \in Range(taken) \cup lost

\* The caller reads EOF again and again.
Spins(c) == pc[c] = "spin" /\ conn[c] = "eof"

\* It is taken after resets and errors: the worker's retry finds Redis again.
TakenUnlessEOF ==
  \A t \in Tasks : t \in Range(list) ~> t \in Range(taken) \cup lost \/ Spins(Worker)

\* A handler that enqueues gets an answer, unless its connection ends by EOF.
PushReturns ==
  \A t \in Tasks : pc[t] # "idle" ~> pc[t] \in {"ok", "error"} \/ Spins(t)

-----------------------------------------------------------------------------
(* What else holds in every reachable state and makes the safety properties   *)
(* inductive; RedisClientProofs proves it.                                    *)

\* Commands and replies are on their way only while the caller waits, and there
\* is a reply only to a command that was executed.
CallInv ==
  /\ \A c \in Callers : wire[c] # "none" => conn[c] = "open" /\ pc[c] = "waiting"
  /\ \A c \in Callers : reply[c] => pc[c] = "waiting"
  /\ \A t \in Tasks : reply[t] \/ pc[t] = "ok" => t \in Range(pushed)

\* Who pushed a task will not push it again.
PushedInv ==
  /\ \A t \in Tasks : t \in Range(pushed) =>
       pc[t] \notin {"idle", "dialed"} /\ (wire[t] # "none" => wire[t] = "served" /\ reply[t])
  /\ \A i, j \in DOMAIN pushed : pushed[i] = pushed[j] => i = j

\* What was pushed is somewhere.
KeptInv == Range(pushed) \subseteq Range(list) \cup Range(popped) \cup Range(taken) \cup lost

\* The elements of s come in the order of p.
Sorted(p, s) == \A i, j \in DOMAIN s : i < j => Before(p, s[i], s[j])

OrderInv ==
  /\ Range(taken) \cup Range(popped) \cup Range(list) \cup Range(saved) \subseteq Range(pushed)
  /\ ~restored => Sorted(pushed, Onward)

Inv == TypeOK /\ CallInv /\ PushedInv /\ KeptInv /\ OrderInv

-----------------------------------------------------------------------------
(* Refinement.                                                                *)

\* What a caller of LPUSH knows of its call.
Call(t) ==
  CASE pc[t] \in {"dialed", "waiting", "spin"} -> "begun"
    [] OTHER -> pc[t]

Promise == INSTANCE TaskList WITH
  call <- [t \in Tasks |-> Call(t)],
  entered <- Range(pushed),
  hand <- popped

\* The client keeps the promise of TaskList across lost connections, replies and
\* restarts: no call takes effect twice or after it returned, LPUSH reports
\* success only of a task that was listed, and BRPOP returns the oldest task,
\* which is lost only on its way (redis_client.go 58-114).
KeepsPromise == Promise!Spec
=============================================================================
