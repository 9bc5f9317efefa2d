------------------------------- MODULE LivePage -------------------------------
(* A page of the front end that shows tables of the database and loads them   *)
(* again when the event stream names them: Dashboard.tsx, Transmutations.tsx  *)
(* and Audits.tsx. The stream is the EventFeed that EventHub implements, and  *)
(* may break.                                                                 *)
(*                                                                            *)
(* The content of a table is the number of changes committed to it. Several   *)
(* GETs of one table may be on their way; fetch delivers them in any order.   *)
EXTENDS Naturals, Sequences

CONSTANTS
  Pages,         \* the pages to consider, of the three
  Roles,         \* the roles their user may have
  Capacity,      \* the buffer of the stream
  MaxChanges,    \* bound: changes committed while the page is open
  MaxFailures    \* bound: GETs that fail, streams that break

ASSUME ConstantsOK ==
  /\ Pages \subseteq {"dashboard", "transmutations", "audits"}
  /\ Roles \subseteq {"alchemist", "supervisor"}
  /\ Capacity \in Nat \ {0} /\ MaxChanges \in Nat /\ MaxFailures \in Nat

Tables == {"transmutations", "audits", "missions"}
Changes == [table : Tables, kind : {"created", "updated", "deleted"}]

\* What is broadcast: the change, and which of all changes it is.
Events == [change : Changes, number : 1 .. MaxChanges]

VARIABLES
  page, role,    \* which page, whose; chosen once
  version,       \* per table: the changes committed
  due,           \* changes committed and not broadcast yet
  link,          \* the EventSource: connecting, open or closed
  stream,        \* the events on their way to the page
  loads,         \* the GETs on their way: their number and what they saw
  started,       \* the number of the next GET
  owed,          \* the page's own requests awaiting their reply
  shown,         \* per table: what the page shows
  failures,      \* how many failures there were
  last,          \* history: per table, the last change the page is to follow
  excused        \* history: tables with a reason to be out of date

backend == <<version, due, last>>
vars == <<page, role, backend, link, stream, loads, started, owed, shown,
          failures, excused>>

Unanswered == MaxChanges + 1   \* what a GET saw before it was served

TypeOK ==
  /\ page \in Pages /\ role \in Roles
  /\ version \in [Tables -> 0 .. MaxChanges]
  /\ due \subseteq Events
  /\ link \in {"connecting", "open", "closed"}
  /\ stream \in Seq(Events) /\ Len(stream) <= Capacity + 1
  /\ \A l \in loads : l.table \in Tables /\ l.number < started
                      /\ l.saw \in (0 .. version[l.table]) \cup {Unanswered}
  /\ started \in Nat /\ owed \in 0 .. MaxChanges
  /\ shown \in [Tables -> 0 .. MaxChanges] /\ \A t \in Tables : shown[t] <= version[t]
  /\ failures \in 0 .. MaxFailures
  /\ last \in [Tables -> 0 .. MaxChanges]
  /\ excused \subseteq Tables

-----------------------------------------------------------------------------
(* What a page loads, and which events make it load again.                    *)

\* The tables a page loads when it opens. Only a supervisor's has audits.
Loaded ==
  CASE page = "transmutations" -> {"transmutations"}
    [] page = "audits" -> {"audits"}
    [] page = "dashboard" -> {"transmutations", "missions"}
         \cup (IF role = "supervisor" THEN {"audits"} ELSE {})

BroadcastsMutant(c) == c.table # "missions" /\ c.kind # "deleted"
\* The changes the back end broadcasts: all of transmutations and audits.
Broadcasts(c) == c.table # "missions"

\* What the page is to follow: the transmutations (frontend/README.md 42, 48),
\* and of the audits a supervisor sees, those created (44, 49) or, on their own
\* page, updated. Nobody follows the deletion of an audit row.
Follows(c) ==
  \/ page # "audits" /\ c.table = "transmutations"
  \/ /\ c.table = "audits" /\ role = "supervisor"
     /\ <<page, c.kind>> \in {<<"dashboard", "created">>, <<"audits", "created">>,
                             <<"audits", "updated">>}

HeardMutant(c) == c.table \in Loaded /\ c.kind # "deleted"
\* The events a page loads a table for: any of transmutations, some of audits.
Heard(c) ==
  /\ c.table \in Loaded
  /\ c.table = "audits" => (c.kind = "created" \/ (page = "audits" /\ c.kind = "updated"))

Init ==
  /\ page \in Pages /\ role \in Roles
  /\ page = "audits" => role = "supervisor"
  /\ version = [t \in Tables |-> 0]
  /\ due = {} /\ stream = <<>> /\ link = "connecting"
  /\ loads = {[table |-> t, number |-> 0, saw |-> Unanswered] : t \in Loaded}
  /\ started = 1
  /\ owed = 0
  /\ shown = [t \in Tables |-> 0]
  /\ last = version
  /\ failures = 0 /\ excused = {}

\* loadTransmutations, loadAudits or loadMissions.
StartLoad(t) ==
  /\ loads' = loads \cup {[table |-> t, number |-> started, saw |-> Unanswered]}
  /\ started' = started + 1
  /\ excused' = excused \ {t}

-----------------------------------------------------------------------------
(* The back end.                                                              *)

Total == version["transmutations"] + version["audits"] + version["missions"]

\* Somebody commits a change and is then to broadcast it.
Commit(c) ==
  /\ Total < MaxChanges
  /\ version' = [version EXCEPT ![c.table] = @ + 1]
  /\ due' = IF Broadcasts(c) THEN due \cup {[change |-> c, number |-> Total + 1]} ELSE due
  /\ last' = IF Follows(c) THEN [last EXCEPT ![c.table] = version[c.table] + 1] ELSE last

\* It is somebody else: the worker, a handler for another browser.
OthersChange(c) ==
  /\ Commit(c)
  /\ UNCHANGED <<page, role, link, stream, loads, started, owed, shown, failures, excused>>

Feed == INSTANCE EventFeed

\* Broadcast: the event is put on the stream, or its table has a reason to be
\* out of date.
Broadcast(d) ==
  /\ \/ Feed!Put(d) /\ UNCHANGED excused
     \/ Feed!Miss(d) /\ excused' = excused \cup {d.change.table}
  /\ UNCHANGED <<page, role, version, last, loads, started, owed, shown, failures>>

\* A change is not broadcast after all: the back end is restarted before, or the
\* LPUSH that comes first never returns.
NeverBroadcast(d) ==
  /\ d \in due /\ failures < MaxFailures
  /\ due' = due \ {d}
  /\ failures' = failures + 1
  /\ excused' = excused \cup {d.change.table}
  /\ UNCHANGED <<page, role, version, last, link, stream, loads, started, owed, shown>>

\* handleEvents subscribes the stream; what was broadcast before is not sent.
Subscribe ==
  /\ Feed!Open
  /\ UNCHANGED <<page, role, version, last, loads, started, owed, shown, failures, excused>>

\* A GET is served from the rows of that moment.
Serve(l) ==
  /\ l \in loads /\ l.saw = Unanswered
  /\ loads' = (loads \ {l}) \cup {[l EXCEPT !.saw = version[l.table]]}
  /\ UNCHANGED <<page, role, backend, link, stream, started, owed, shown, failures, excused>>

-----------------------------------------------------------------------------
(* The page.                                                                  *)

\* onmessage.
OnMessage ==
  /\ Feed!Take
  /\ LET c == Head(stream).change
     IN IF Heard(c) THEN StartLoad(c.table) ELSE UNCHANGED <<loads, started, excused>>
  /\ UNCHANGED <<page, role, version, last, owed, shown, failures>>

\* A reply arrives and is shown, be it older than what is shown or not.
Show(l) ==
  /\ l \in loads /\ l.saw # Unanswered
  /\ loads' = loads \ {l}
  /\ shown' = [shown EXCEPT ![l.table] = l.saw]
  /\ excused' = IF l.saw < shown[l.table] THEN excused \cup {l.table} ELSE excused
  /\ UNCHANGED <<page, role, backend, link, stream, started, owed, failures>>

\* A GET fails: the page shows what it showed.
LoadFails(l) ==
  /\ l \in loads /\ failures < MaxFailures
  /\ loads' = loads \ {l}
  /\ failures' = failures + 1
  /\ excused' = excused \cup {l.table}
  /\ UNCHANGED <<page, role, backend, link, stream, started, owed, shown>>

\* onerror closes the EventSource for good: whatever is on its way is lost.
OnError ==
  /\ failures < MaxFailures
  /\ Feed!Close
  /\ failures' = failures + 1
  /\ excused' = excused \cup {stream[i].change.table : i \in 1 .. Len(stream)}
  /\ UNCHANGED <<page, role, version, last, loads, started, owed, shown>>

\* handleSubmit and handleDelete of the page of transmutations: the request is
\* served; its reply makes the page load the table.
Submit(k) ==
  /\ page = "transmutations"
  /\ k = "created" \/ role = "supervisor"
  /\ Commit([table |-> "transmutations", kind |-> k])
  /\ owed' = owed + 1
  /\ UNCHANGED <<page, role, link, stream, loads, started, shown, failures, excused>>

Submitted ==
  /\ owed > 0
  /\ owed' = owed - 1
  /\ StartLoad("transmutations")
  /\ UNCHANGED <<page, role, backend, link, stream, shown, failures>>

\* The reply is an error or does not come: nothing is loaded.
SubmitFails ==
  /\ owed > 0 /\ failures < MaxFailures
  /\ owed' = owed - 1
  /\ failures' = failures + 1
  /\ UNCHANGED <<page, role, backend, link, stream, loads, started, shown, excused>>

-----------------------------------------------------------------------------
Settle ==
  \/ \E d \in due : Broadcast(d)
  \/ Subscribe \/ OnMessage \/ Submitted
  \/ \E l \in loads : Serve(l) \/ Show(l)

Disturb ==
  \/ \E c \in Changes : OthersChange(c)
  \/ \E k \in {"created", "deleted"} : Submit(k)
  \/ \E d \in due : NeverBroadcast(d)
  \/ \E l \in loads : LoadFails(l)
  \/ SubmitFails \/ OnError

Next == Settle \/ Disturb

Spec == Init /\ [][Next]_vars

\* Broadcasts, replies and callbacks come; changes and failures need not.
FairSpec == Spec /\ WF_vars(Settle)

-----------------------------------------------------------------------------
(* Properties.                                                                *)

\* Nothing that is under way would make the page load table t again.
Quiet(t) ==
  /\ \A l \in loads : l.table # t
  /\ \A d \in due : d.change.table # t
  /\ \A i \in 1 .. Len(stream) : stream[i].change.table # t
  /\ t = "transmutations" => owed = 0

\* When nothing is under way, the page shows every change it is to follow,
\* unless a change was not broadcast, the stream broke, overflowed or was
\* subscribed too late, a GET failed, or replies overtook each other: a
\* broadcast comes after the commit it tells of, and a GET after the event
\* (transmutation_handlers.go 146, events.go 31-43, Dashboard.tsx 213-249,
\* Transmutations.tsx 64-92).
StaleHasReason ==
  \A t \in Tables : Quiet(t) /\ t \notin excused => shown[t] >= last[t]

\* A page that is behind catches up, or there is such a reason.
CatchesUp ==
  \A t \in Tables : shown[t] < last[t] ~> shown[t] >= last[t] \/ t \in excused

\* The Dashboard follows the missions as well (frontend/README.md 50). It does
\* not: no handler broadcasts mission_created or mission_updated, which the
\* page waits for (Dashboard.tsx 232-235, mission_handlers.go 123-352).
MissionsAreFollowed ==
  shown["missions"] < version["missions"] ~> shown["missions"] = version["missions"]
-----------------------------------------------------------------------------
(* What else holds in every reachable state and makes StaleHasReason          *)
(* inductive; LivePageProofs proves it.                                       *)

LoadInv == loads \subseteq [table : Tables, number : Nat, saw : Nat]

\* Neither what the page is to follow nor its own requests exceed the changes.
CountInv ==
  /\ Total <= MaxChanges
  /\ owed <= version["transmutations"]
  /\ \A t \in Tables : last[t] <= version[t]

\* A GET of table t under way has seen, or will see, the last change to follow.
WillShow(t) == \E l \in loads : l.table = t /\ l.saw >= last[t]

\* A change of t the page follows is to be broadcast, or on the stream.
WillHear(t) ==
  \/ \E d \in due : d.change.table = t /\ Follows(d.change)
  \/ \E i \in DOMAIN stream : stream[i].change.table = t /\ Follows(stream[i].change)

FollowInv == \A t \in Tables : t \in excused \/ shown[t] >= last[t] \/ WillShow(t) \/ WillHear(t)

Inv == TypeOK /\ LoadInv /\ CountInv /\ FollowInv
=============================================================================
