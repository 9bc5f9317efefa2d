------------------------------- MODULE TaskList -------------------------------
(* What the calls of RedisClient promise to the handlers that enqueue tasks   *)
(* and to the worker, whatever happens to connections: the list alchemy:tasks *)
(* without sockets, commands and replies. A call that enqueues takes effect   *)
(* at most once, and only while it is under way; one that reports success has *)
(* taken effect. The worker gets what is at the head of the list, or it is    *)
(* lost on the way. RedisClient implements this specification.                *)
EXTENDS Sequences

CONSTANT
  Tasks          \* the tasks handlers enqueue, one call each

VARIABLES
  call,          \* per task: what became of the call that enqueues it
  entered,       \* the tasks whose call took effect
  list,          \* the list, the next task first
  saved,         \* the list as Redis would come back with it
  hand,          \* the task on its way to the worker, as a sequence
  taken          \* the tasks the worker got, in order

vars == <<call, entered, list, saved, hand, taken>>

Init ==
  /\ call = [t \in Tasks |-> "idle"]
  /\ entered = {}
  /\ list = <<>> /\ saved = <<>> /\ hand = <<>> /\ taken = <<>>

Begin(t) ==
  /\ call[t] = "idle"
  /\ call' = [call EXCEPT ![t] = "begun"]
  /\ UNCHANGED <<entered, list, saved, hand, taken>>

Enter(t) ==
  /\ call[t] = "begun" /\ t \notin entered
  /\ entered' = entered \cup {t}
  /\ list' = Append(list, t)
  /\ UNCHANGED <<call, saved, hand, taken>>

Succeed(t) ==
  /\ call[t] = "begun" /\ t \in entered
  /\ call' = [call EXCEPT ![t] = "ok"]
  /\ UNCHANGED <<entered, list, saved, hand, taken>>

\* An error does not tell whether the call took effect.
Fail(t) ==
  /\ call[t] \in {"idle", "begun"}
  /\ call' = [call EXCEPT ![t] = "error"]
  /\ UNCHANGED <<entered, list, saved, hand, taken>>

Remove ==
  /\ hand = <<>> /\ list # <<>>
  /\ hand' = <<Head(list)>>
  /\ list' = Tail(list)
  /\ UNCHANGED <<call, entered, saved, taken>>

Deliver ==
  /\ hand # <<>>
  /\ taken' = taken \o hand
  /\ hand' = <<>>
  /\ UNCHANGED <<call, entered, list, saved>>

\* What was on its way to the worker is lost.
Lose ==
  /\ hand' = <<>>
  /\ UNCHANGED <<call, entered, list, saved, taken>>

\* Redis writes a snapshot.
Save ==
  /\ saved' = list
  /\ UNCHANGED <<call, entered, list, hand, taken>>

\* Redis ends, and will come back with the list or the snapshot.
Fallback ==
  /\ list' \in {list, saved}
  /\ saved' = list'
  /\ hand' \in {hand, <<>>}
  /\ UNCHANGED <<call, entered, taken>>

Next ==
  \/ \E t \in Tasks : Begin(t) \/ Enter(t) \/ Succeed(t) \/ Fail(t)
  \/ Remove \/ Deliver \/ Lose \/ Save \/ Fallback

Spec == Init /\ [][Next]_vars
=============================================================================
