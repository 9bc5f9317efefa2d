--------------------------------- MODULE Jobs ---------------------------------
(* What the back end promises of the work a request leaves behind: a board of *)
(* jobs, without handlers, Redis list and worker. A job is accepted once and  *)
(* leaves the board by being done or by a failure; when it is done it leaves  *)
(* a row in the audit trail. TransmutationPipeline implements this            *)
(* specification.                                                             *)

CONSTANTS
  Tasks,         \* what may be accepted, once each
  Outcomes,      \* what an audit row may say of a task
  Optional       \* the tasks for which there may be nothing to do

VARIABLES
  open,          \* the tasks that are still to be done
  done,          \* the tasks that have been done
  lost,          \* the tasks a failure hit
  trail,         \* the audit rows: what became of which task
  restored       \* whether the board was ever restored from a backup

vars == <<open, done, lost, trail, restored>>

Init == open = {} /\ done = {} /\ lost = {} /\ trail = {} /\ restored = FALSE

Fresh == Tasks \ (open \cup done \cup lost)

\* A request leaves new tasks behind, or a failure is reported by one.
Accept ==
  /\ open \subseteq open' /\ open' \ open \subseteq Fresh
  /\ UNCHANGED <<done, lost, trail, restored>>

\* A restored board may list a task twice.
Remove(k) == open' = open \ {k} \/ (restored /\ open' = open)

Record(k) ==
  \E a \in Outcomes : trail' = trail \cup {[action |-> a, task |-> k]}

\* A task is done, once unless the board was restored, and leaves one row; none
\* if there was nothing to do or the row could not be written.
Do(k) ==
  /\ k \in open
  /\ done' = done \cup {k}
  /\ Remove(k)
  /\ \/ Record(k) /\ UNCHANGED lost
     \/ UNCHANGED trail /\ k \in Optional /\ UNCHANGED lost
     \/ UNCHANGED trail /\ lost' = lost \cup {k}
  /\ UNCHANGED restored

\* A failure hits tasks that are open or about to be accepted. Some leave the
\* board, others are tried all the same.
Fail ==
  /\ lost \subseteq lost' /\ lost' \ lost \subseteq open \cup Fresh
  /\ open \ open' \subseteq lost' /\ open' \ open \subseteq Fresh
  /\ UNCHANGED <<done, trail, restored>>

\* The board is restored from a backup, on which tasks may be listed that have
\* been done or hit meanwhile.
Restore ==
  /\ open' \subseteq open \cup done \cup lost
  /\ open \ open' \subseteq lost'
  /\ lost \subseteq lost' /\ lost' \ lost \subseteq open
  /\ restored' = TRUE
  /\ UNCHANGED <<done, trail>>

Next == Accept \/ (\E k \in open : Do(k)) \/ Fail \/ Restore

Spec == Init /\ [][Next]_vars

-----------------------------------------------------------------------------
\* Until the board is restored, a task leaves at most one audit row. (The same
\* row twice would take doing the task twice, which OnceInv rules out.)
RecordedOnce ==
  ~restored => \A x, y \in trail : x.task = y.task => x = y

\* It is inductive together with what a row says of its task.
OnceInv ==
  /\ RecordedOnce
  /\ ~restored => open \cap done = {}
  /\ ~restored => \A x \in trail : x.task \in done
=============================================================================
