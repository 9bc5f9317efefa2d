------------------------------- MODULE EventHub -------------------------------
(* The EventHub of events.go and the loop of handleEvents (server.go) that    *)
(* serves one Server-Sent-Events stream.                                      *)
(*                                                                            *)
(* Any number of goroutines (the worker, HTTP handlers) broadcast at the same *)
(* time under the read lock; a stream registers and unregisters its channel   *)
(* under the write lock. The lock is Go's sync.RWMutex: the first Lock to     *)
(* announce itself keeps later RLocks out, and its Unlock lets all of those   *)
(* in. The welcome message and the pings change nothing and are left out.     *)
(* Definitions named ...Mutant are broken on purpose: they show that some     *)
(* property notices.                                                          *)
EXTENDS Naturals, Sequences, Functions

CONSTANTS
  Broadcasters,  \* goroutines that call Broadcast
  Streams,       \* GET /events requests; each opens one stream
  Stalled,       \* streams whose browser never reads: writes to them block
  Capacity,      \* the channel's buffer (16 in the code)
  MaxEvents,     \* bound: how often a goroutine broadcasts
  None           \* no writer has announced itself

ASSUME ConstantsOK ==
  /\ Stalled \subseteq Streams
  /\ Capacity \in Nat \ {0}
  /\ MaxEvents \in [Broadcasters -> Nat]
  /\ None \notin Streams

\* The n-th event of goroutine `by`.
Event == UNION {[by : {b}, n : 1..MaxEvents[b]] : b \in Broadcasters}

VARIABLES
  clients,       \* h.clients: the registered streams
  writer,        \* h.mu: the stream whose Lock has announced itself
  readers,       \* h.mu: the goroutines that hold the read lock
  bpc,           \* per goroutine: where it is in Broadcast
  made,          \* per goroutine: broadcasts that returned
  pending,       \* per goroutine: streams its range loop has not reached
  spc,           \* per stream: where it is in handleEvents
  buffer,        \* per stream: the channel's contents
  writing,       \* per stream: the event being written, as a sequence
  gone,          \* streams whose browser has disconnected
  log,           \* history, per stream: the events written
  missed,        \* history, per stream: the events dropped
  behind,        \* history: streams to which nothing was written since a drop
  since          \* history, per stream: `made` when it registered

mutex == <<writer, readers>>
senders == <<bpc, made, pending>>
streams == <<spc, buffer, writing, gone>>
history == <<log, missed, behind, since>>
vars == <<clients, mutex, senders, streams, history>>

TypeOK ==
  /\ clients \subseteq Streams
  /\ writer \in Streams \cup {None}
  /\ readers \subseteq Broadcasters
  /\ bpc \in [Broadcasters -> {"idle", "rlock", "locked", "sending"}]
  /\ made \in [Broadcasters -> Nat]
  /\ pending \in [Broadcasters -> SUBSET Streams]
  /\ spc \in [Streams -> {"off", "subscribe", "select", "write", "unsubscribe", "closed"}]
  /\ buffer \in [Streams -> Seq(Event)]
  /\ \A s \in Streams : Len(buffer[s]) <= Capacity
  /\ writing \in [Streams -> Seq(Event)]
  /\ \A s \in Streams : Len(writing[s]) = IF spc[s] = "write" THEN 1 ELSE 0
  /\ gone \subseteq Streams
  /\ log \in [Streams -> Seq(Event)]
  /\ missed \in [Streams -> SUBSET Event]
  /\ behind \subseteq Streams
  /\ since \in [Streams -> [Broadcasters -> Nat]]

Init ==
  /\ clients = {} /\ writer = None /\ readers = {}
  /\ bpc = [b \in Broadcasters |-> "idle"]
  /\ made = [b \in Broadcasters |-> 0]
  /\ pending = [b \in Broadcasters |-> {}]
  /\ spc = [s \in Streams |-> "off"]
  /\ buffer = [s \in Streams |-> <<>>]
  /\ writing = [s \in Streams |-> <<>>]
  /\ gone = {}
  /\ log = [s \in Streams |-> <<>>]
  /\ missed = [s \in Streams |-> {}]
  /\ behind = {}
  /\ since = [s \in Streams |-> [b \in Broadcasters |-> 0]]

-----------------------------------------------------------------------------
(* Broadcast.                                                                 *)

\* The event goroutine b is broadcasting.
Current(b) == [by |-> b, n |-> made[b] + 1]

\* RLock: granted at once unless a Lock has announced itself.
RLock(b) ==
  /\ bpc[b] = "idle" /\ made[b] < MaxEvents[b]
  /\ IF writer = None
       THEN readers' = readers \cup {b} /\ bpc' = [bpc EXCEPT ![b] = "locked"]
       ELSE UNCHANGED readers /\ bpc' = [bpc EXCEPT ![b] = "rlock"]
  /\ UNCHANGED <<clients, writer, made, pending, streams, history>>

\* Nobody listens: return; otherwise start the loop over the map.
Begin(b) ==
  /\ bpc[b] = "locked"
  /\ pending' = [pending EXCEPT ![b] = clients]
  /\ bpc' = [bpc EXCEPT ![b] = "sending"]
  /\ UNCHANGED <<clients, mutex, made, streams, history>>

LossyMutant(s) == TRUE
\* The channel does not accept another element.
Full(s) == Len(buffer[s]) = Capacity

BlockingMutant(s) == FALSE
\* The default case of the select applies.
Overflow(s) == Full(s)

DuplicateMutant(b, s) ==
  /\ bpc[b] = "sending" /\ s \in pending[b] /\ ~Full(s)
  /\ buffer' = [buffer EXCEPT ![s] = Append(@, Current(b))]
  /\ UNCHANGED <<clients, mutex, senders, spc, writing, gone, history>>
\* The select of the loop, for the channel the loop has reached (the order of
\* a Go map is random).
Send(b, s) ==
  /\ bpc[b] = "sending" /\ s \in pending[b] /\ ~Full(s)
  /\ buffer' = [buffer EXCEPT ![s] = Append(@, Current(b))]
  /\ pending' = [pending EXCEPT ![b] = @ \ {s}]
  /\ UNCHANGED <<clients, mutex, bpc, made, spc, writing, gone, history>>

Drop(b, s) ==
  /\ bpc[b] = "sending" /\ s \in pending[b] /\ Overflow(s)
  /\ missed' = [missed EXCEPT ![s] = @ \cup {Current(b)}]
  /\ behind' = behind \cup {s}
  /\ pending' = [pending EXCEPT ![b] = @ \ {s}]
  /\ UNCHANGED <<clients, mutex, bpc, made, streams, log, since>>

\* The deferred RUnlock.
Return(b) ==
  /\ bpc[b] = "sending" /\ pending[b] = {}
  /\ readers' = readers \ {b}
  /\ made' = [made EXCEPT ![b] = @ + 1]
  /\ bpc' = [bpc EXCEPT ![b] = "idle"]
  /\ UNCHANGED <<clients, writer, pending, streams, history>>

-----------------------------------------------------------------------------
(* handleEvents, Subscribe and Unsubscribe.                                   *)

\* A request with a valid token, up to its Lock in Subscribe.
Connect(s) ==
  /\ spc[s] = "off"
  /\ spc' = [spc EXCEPT ![s] = "subscribe"]
  /\ UNCHANGED <<clients, mutex, senders, buffer, writing, gone, history>>

\* Lock, first half: one writer at a time announces itself. It then waits for
\* the goroutines that hold the read lock.
Announce(s) ==
  /\ spc[s] \in {"subscribe", "unsubscribe"} /\ writer = None
  /\ writer' = s
  /\ UNCHANGED <<clients, readers, senders, streams, history>>

HasLockMutant(s) == writer = s
HasLock(s) == writer = s /\ readers = {}

\* Unlock: every RLock that waited is granted before another Lock can announce
\* itself.
Unlock ==
  /\ writer' = None
  /\ readers' = readers \cup {b \in Broadcasters : bpc[b] = "rlock"}
  /\ bpc' = [b \in Broadcasters |-> IF bpc[b] = "rlock" THEN "locked" ELSE bpc[b]]

Subscribe(s) ==
  /\ spc[s] = "subscribe" /\ HasLock(s)
  /\ clients' = clients \cup {s}
  /\ Unlock
  /\ spc' = [spc EXCEPT ![s] = "select"]
  /\ since' = [since EXCEPT ![s] = made]
  /\ UNCHANGED <<made, pending, buffer, writing, gone, log, missed, behind>>

\* What a receive from the channel returns.
NextEvent(s) == Head(buffer[s])

\* The receive case of handleEvents' select can be taken.
Ready(s) == buffer[s] # <<>>

\* The select of the loop takes an event from the channel ...
Receive(s) ==
  /\ spc[s] = "select" /\ Ready(s)
  /\ writing' = [writing EXCEPT ![s] = <<NextEvent(s)>>]
  /\ buffer' = [buffer EXCEPT ![s] = Tail(@)]
  /\ spc' = [spc EXCEPT ![s] = "write"]
  /\ UNCHANGED <<clients, mutex, senders, gone, history>>

\* ... and writes it. The write ends when the browser reads or has gone.
Write(s) ==
  /\ spc[s] = "write" /\ (s \in gone \/ s \notin Stalled)
  /\ IF s \in gone THEN UNCHANGED <<log, behind>>
     ELSE /\ log' = [log EXCEPT ![s] = @ \o writing[s]]
          /\ behind' = behind \ {s}
  /\ writing' = [writing EXCEPT ![s] = <<>>]
  /\ spc' = [spc EXCEPT ![s] = "select"]
  /\ UNCHANGED <<clients, mutex, senders, buffer, gone, missed, since>>

\* The browser closes the stream: the request's context is cancelled.
Disconnect(s) ==
  /\ spc[s] \in {"subscribe", "select", "write"} /\ s \notin gone
  /\ gone' = gone \cup {s}
  /\ UNCHANGED <<clients, mutex, senders, spc, buffer, writing, history>>

LeaveMutant(s) ==
  /\ spc[s] = "select"
  /\ spc' = [spc EXCEPT ![s] = "unsubscribe"]
  /\ UNCHANGED <<clients, mutex, senders, buffer, writing, gone, history>>
\* The loop sees the cancelled context and returns: the deferred Unsubscribe.
Leave(s) ==
  /\ spc[s] = "select" /\ s \in gone
  /\ spc' = [spc EXCEPT ![s] = "unsubscribe"]
  /\ UNCHANGED <<clients, mutex, senders, buffer, writing, gone, history>>

\* The channel is removed and closed.
Unsubscribe(s) ==
  /\ spc[s] = "unsubscribe" /\ HasLock(s)
  /\ clients' = clients \ {s}
  /\ Unlock
  /\ spc' = [spc EXCEPT ![s] = "closed"]
  /\ UNCHANGED <<made, pending, buffer, writing, gone, history>>

-----------------------------------------------------------------------------
Broadcast(b) ==
  \/ Begin(b) \/ Return(b)
  \/ \E s \in Streams : Send(b, s) \/ Drop(b, s)

Lock(s) == Announce(s) \/ Subscribe(s) \/ Unsubscribe(s)

Next ==
  \/ \E b \in Broadcasters : RLock(b) \/ Broadcast(b)
  \/ \E s \in Streams :
       Connect(s) \/ Lock(s) \/ Receive(s) \/ Write(s) \/ Disconnect(s) \/ Leave(s)

Spec == Init /\ [][Next]_vars

\* Goroutines that can run do. Nothing makes goroutines broadcast, or browsers
\* come and go. (Without MaxEvents, Lock and Leave would need strong fairness:
\* sync.Mutex serves waiters in turn and select picks a ready case at random.)
FairSpec ==
  /\ Spec
  /\ \A b \in Broadcasters : WF_vars(Broadcast(b))
  /\ \A s \in Streams : WF_vars(Lock(s) \/ Receive(s) \/ Write(s) \/ Leave(s))

-----------------------------------------------------------------------------
(* Safety.                                                                    *)

\* What Broadcast is about to send to is registered, so its channel is open: a
\* send never panics on a channel closed by Unsubscribe (events.go 35-40
\* against 53-56).
SendsToOpenChannels == \A b \in Broadcasters : pending[b] \subseteq clients

\* Everything stream s received or will receive, in order.
Feed(s) == log[s] \o writing[s] \o buffer[s]

\* The events of each goroutine come in the order of its broadcasts.
Ordered(f) == \A i, j \in DOMAIN f : i < j /\ f[i].by = f[j].by => f[i].n < f[j].n

\* A stream gets the events of one goroutine in the order they were broadcast,
\* each once, so the worker's PROCESSING never arrives after its COMPLETED.
InOrder == \A s \in Streams \ gone : Ordered(Feed(s))

\* From its registration on, a stream gets every event whose broadcast has
\* returned, or finds it dropped: none is lost between Subscribe and Broadcast
\* (events.go 36-39, 43-49).
Accounted ==
  \A s \in clients \ gone : \A b \in Broadcasters :
    \A n \in since[s][b] + 1 .. made[b] :
      [by |-> b, n |-> n] \in Range(Feed(s)) \cup missed[s]

\* A stream that missed an event is still to be written another one, so a page
\* that reloads its data on whatever event it gets does so after the change it
\* was not told of (events.go 36-39).
MissIsFollowed ==
  \A s \in behind \ gone : writing[s] \o buffer[s] # <<>>

-----------------------------------------------------------------------------
(* What else holds in every reachable state and makes the properties above    *)
(* inductive; EventHubProofs proves it.                                       *)

\* Who is between RLock and RUnlock holds the read lock, and only the loop has
\* streams to reach. The map has the streams between their two Locks.
LockInv ==
  /\ \A b \in Broadcasters :
       /\ b \in readers <=> bpc[b] \in {"locked", "sending"}
       /\ bpc[b] # "sending" => pending[b] = {}
       /\ bpc[b] # "idle" => made[b] < MaxEvents[b]
  /\ \A s \in Streams : s \in clients <=> spc[s] \in {"select", "write", "unsubscribe"}

\* The event being broadcast is on the streams the loop has reached, or was
\* dropped, and on no other; later events are nowhere.
CurrentInv ==
  /\ \A s \in Streams \ gone : \A e \in Range(Feed(s)) :
       \/ e.n <= made[e.by]
       \/ e = Current(e.by) /\ bpc[e.by] = "sending" /\ s \notin pending[e.by]
  /\ \A s \in clients \ gone, b \in Broadcasters :
       bpc[b] = "sending" /\ s \notin pending[b] =>
         Current(b) \in Range(Feed(s)) \cup missed[s]

\* Only streams whose browser has gone are unsubscribed.
LeaveInv == \A s \in Streams : spc[s] \in {"unsubscribe", "closed"} => s \in gone

Inv ==
  /\ TypeOK /\ LockInv /\ CurrentInv
  /\ SendsToOpenChannels /\ InOrder /\ Accounted /\ MissIsFollowed

-----------------------------------------------------------------------------
(* Liveness, under FairSpec.                                                  *)

\* Broadcast returns, whatever browsers do: one that never reads delays neither
\* the worker nor a handler, and streams that come and go do not lock them out.
BroadcastReturns == \A b \in Broadcasters : bpc[b] # "idle" ~> bpc[b] = "idle"

\* The channel of a browser that left is removed from the map, also when the
\* browser had stopped reading: streams do not pile up.
GoneIsRemoved ==
  \A s \in Streams : s \in gone ~> spc[s] = "closed" /\ s \notin clients

\* A stream whose browser reads gets every event it was sent.
SentIsWritten ==
  \A s \in Streams \ Stalled, e \in Event :
    e \in Range(buffer[s]) ~> e \in Range(log[s]) \/ s \in gone

-----------------------------------------------------------------------------
(* Refinement.                                                                *)

\* Goroutine b is in Broadcast and has not reached stream s.
Undecided(b, s) ==
  bpc[b] \in {"rlock", "locked"} \/ (bpc[b] = "sending" /\ s \in pending[b])

Due(s) == {Current(b) : b \in {x \in Broadcasters : Undecided(x, s)}}

\* The stream as its browser knows it.
Link(s) ==
  IF s \in gone THEN "closed"
  ELSE IF spc[s] \in {"off", "subscribe"} THEN "connecting" ELSE "open"

\* The events on their way to a browser that has not left.
OnTheWay(s) == IF s \in gone THEN <<>> ELSE writing[s] \o buffer[s]

Stream(s) ==
  INSTANCE EventFeed WITH Events <- Event, due <- Due(s), link <- Link(s), stream <- OnTheWay(s)

\* Each stream is the feed a page relies on, whatever other streams and
\* goroutines do meanwhile: an event is put on it once, in the order of the
\* decisions, or missed because the stream is not there or its buffer is full
\* (events.go 20-58, server.go 249-283).
StreamsAreFeeds ==
  /\ \A s \in Streams : Stream(s)!Init
  /\ [][\A s \in Streams : [Stream(s)!Next]_(Stream(s)!vars)]_vars
=============================================================================
