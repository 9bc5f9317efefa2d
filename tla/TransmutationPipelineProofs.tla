---------------------- MODULE TransmutationPipelineProofs ----------------------
(* Proofs about TransmutationPipeline, for any number of requests, rows and   *)
(* failures.                                                                  *)
EXTENDS TransmutationPipeline, SequenceTheorems, TLAPS

-----------------------------------------------------------------------------
(* Lists as sets of tasks.                                                    *)

LEMMA RangeOfAppend ==
  ASSUME NEW S, NEW q \in Seq(S), NEW x \in S
  PROVE  /\ Append(q, x) \in Seq(S)
         /\ Range(Append(q, x)) = Range(q) \cup {x}
<1>1. /\ Append(q, x) \in Seq(S) /\ Len(Append(q, x)) = Len(q) + 1
      /\ Len(q) \in Nat
      /\ \A i \in 1 .. Len(q) : Append(q, x)[i] = q[i]
      /\ Append(q, x)[Len(q) + 1] = x
  BY AppendProperties, LenProperties
<1>2. DOMAIN q = 1 .. Len(q) /\ DOMAIN Append(q, x) = 1 .. Len(q) + 1
  BY <1>1, LenProperties
<1>3. 1 .. Len(q) + 1 = (1 .. Len(q)) \cup {Len(q) + 1}
  BY <1>1
<1>4. Range(Append(q, x)) = {Append(q, x)[i] : i \in 1 .. Len(q) + 1}
      /\ Range(q) = {q[i] : i \in 1 .. Len(q)}
  BY <1>2 DEF Range
<1>5. Range(Append(q, x)) \subseteq Range(q) \cup {x}
  BY <1>1, <1>3, <1>4
<1>6. Range(q) \cup {x} \subseteq Range(Append(q, x))
  BY <1>1, <1>3, <1>4
<1> QED BY <1>1, <1>5, <1>6

LEMMA RangeOfTail ==
  ASSUME NEW S, NEW q \in Seq(S), q # <<>>
  PROVE  /\ Head(q) \in S /\ Tail(q) \in Seq(S)
         /\ Range(q) = {Head(q)} \cup Range(Tail(q))
<1>1. Head(q) \in S /\ Tail(q) \in Seq(S) /\ Len(q) \in Nat \ {0}
  BY HeadTailProperties, EmptySeq
<1>2. Head(q) = q[1] /\ Len(Tail(q)) = Len(q) - 1
      /\ \A i \in 1 .. Len(q) - 1 : Tail(q)[i] = q[i + 1]
  BY <1>1
<1>3. DOMAIN q = 1 .. Len(q) /\ DOMAIN Tail(q) = 1 .. Len(q) - 1
  BY <1>1, <1>2
<1>4. ASSUME NEW i \in 1 .. Len(q), i # 1
      PROVE  \E j \in 1 .. Len(q) - 1 : q[i] = Tail(q)[j]
  <2>1. i - 1 \in 1 .. Len(q) - 1 /\ (i - 1) + 1 = i
    BY <1>1, <1>4
  <2> QED BY <1>2, <2>1
<1>5. ASSUME NEW y \in Range(q)
      PROVE  y \in {Head(q)} \cup Range(Tail(q))
  <2>1. PICK i \in 1 .. Len(q) : y = q[i]
    BY <1>3, <1>5 DEF Range
  <2>2. CASE i = 1
    BY <1>2, <2>1, <2>2
  <2>3. CASE i # 1
    BY <1>3, <1>4, <2>1, <2>3 DEF Range
  <2> QED BY <2>2, <2>3
<1>6. \A i \in 1 .. Len(q) - 1 : i + 1 \in 1 .. Len(q)
  BY <1>1
<1>7. {Head(q)} \cup Range(Tail(q)) \subseteq Range(q)
  <2>1. Head(q) \in Range(q)
    BY <1>1, <1>2, <1>3 DEF Range
  <2>2. Range(Tail(q)) \subseteq Range(q)
    BY <1>2, <1>3, <1>6 DEF Range
  <2> QED BY <2>1, <2>2
<1> QED BY <1>1, <1>5, <1>7

LEMMA RangeOfSequence ==
  ASSUME NEW S, NEW q \in Seq(S)
  PROVE  Range(q) \subseteq S
BY DEF Range

-----------------------------------------------------------------------------
(* Types.                                                                     *)

\* A TaskOf is a Task.
LEMMA TaskType ==
  /\ \A j \in EnqueueSteps, r \in Requests :
       TaskOf(j, r) \in Task /\ TaskOf(j, r).job = j /\ TaskOf(j, r).by = r
  /\ \A r \in Requests : Carried(r) \subseteq Task
  /\ \A t \in Task : t = TaskOf(t.job, t.by) /\ t.by \in Requests
<1>1. \A j \in EnqueueSteps, r \in Requests :
        TaskOf(j, r) \in Task /\ TaskOf(j, r).job = j /\ TaskOf(j, r).by = r
  BY DEF TaskOf, Task
<1>2. {"process", "audit"} \subseteq EnqueueSteps
  BY DEF EnqueueSteps
<1>3. \A r \in Requests : Carried(r) \subseteq Task
  BY <1>1, <1>2 DEF Carried
<1>4. \A t \in Task : t = TaskOf(t.job, t.by) /\ t.by \in Requests
  BY DEF TaskOf, Task
<1> QED BY <1>1, <1>3, <1>4

\* LPUSH keeps the list a list of tasks and adds one task to it.
LEMMA EnqueuedType ==
  ASSUME TypeOK, NEW r \in Requests, pc[r] \in EnqueueSteps
  PROVE  /\ TaskOf(pc[r], r) \in Task
         /\ Append(queue, TaskOf(pc[r], r)) \in Seq(Task)
         /\ Range(Append(queue, TaskOf(pc[r], r)))
              = Range(queue) \cup {TaskOf(pc[r], r)}
<1>1. queue \in Seq(Task)
  BY DEF TypeOK
<1>2. TaskOf(pc[r], r) \in Task
  BY TaskType
<1> QED BY <1>1, <1>2, RangeOfAppend

LEMMA InitTypeOK == Init => TypeOK
<1> SUFFICES ASSUME Init PROVE TypeOK
  OBVIOUS
<1>1. row \in [Transmutations ->
        [life : {"absent", "live", "deleted"}, status : Statuses]]
  <2>1. PICK s \in [Transmutations -> SeedStatuses] :
          row = [t \in Transmutations |->
                   IF t \in Seeded THEN [life |-> "live", status |-> s[t]]
                   ELSE [life |-> "absent", status |-> "PENDING"]]
    BY DEF Init
  <2>2. \A t \in Transmutations : s[t] \in Statuses
    BY ConstantsOK
  <2> QED BY <2>1, <2>2 DEF Statuses
<1>2. queue \in Seq(Task) /\ saved \in Seq(Task)
  BY EmptySeq DEF Init
<1> QED
  BY <1>1, <1>2 DEF Init, TypeOK, RequestSteps, Committed, EnqueueSteps, Operations,
    WorkerSteps, Statuses

LEMMA RowsType ==
  ASSUME TypeOK, NEW a \in {"registered", "processed", "worker_error"}
  PROVE  Rows(a) \subseteq AuditRow
BY DEF TypeOK, Rows, AuditRow

\* Every step keeps every variable in its type.
LEMMA NextTypeOK == TypeOK /\ [Next]_vars => TypeOK'
<1> SUFFICES ASSUME TypeOK, [Next]_vars PROVE TypeOK'
  OBVIOUS
<1> USE DEF TypeOK, Operations, Committed, RequestSteps, EnqueueSteps, WorkerSteps,
    history, requests, worker, redis, database
<1>1. ASSUME NEW r \in Requests, NEW t \in Transmutations, CreateCommit(r, t)
      PROVE  TypeOK'
  BY <1>1 DEF CreateCommit, SaveRow, Statuses
<1>2. ASSUME NEW r \in Requests, NEW t \in Transmutations,
             NEW o \in {"edit", "delete"}, Find(r, o, t)
      PROVE  TypeOK'
  BY <1>2 DEF Find
<1>3. ASSUME NEW r \in Requests, EditSave(r)
      PROVE  TypeOK'
  BY <1>3, ConstantsOK DEF EditSave, SaveRow
<1>4. ASSUME NEW r \in Requests, DeleteRow(r)
      PROVE  TypeOK'
  BY <1>4 DEF DeleteRow
<1>5. ASSUME NEW r \in Requests, Reject(r)
      PROVE  TypeOK'
  BY <1>5 DEF Reject
<1>6. ASSUME NEW r \in Requests, Enqueue(r)
      PROVE  TypeOK'
  BY <1>6, TaskType, RangeOfAppend DEF Enqueue, OnSuccess
<1>7. ASSUME NEW r \in Requests, EnqueueFails(r)
      PROVE  TypeOK'
  <2>1. queue' \in Seq(Task)
    BY <1>7, EnqueuedType DEF EnqueueFails
  <2>2. dropped' \subseteq Task
    BY <1>7, TaskType DEF EnqueueFails
  <2>3. pc' \in [Requests -> RequestSteps]
    BY <1>7 DEF EnqueueFails, OnError
  <2>4. \A q \in Requests :
          pc'[q] \in Committed \cup {"read"} => target[q] \in Transmutations
    BY <1>7 DEF EnqueueFails, OnError
  <2> QED
    BY <1>7, <2>1, <2>2, <2>3, <2>4 DEF EnqueueFails, Fault
<1>8. ASSUME NEW r \in Requests, EnqueueHangs(r)
      PROVE  TypeOK'
  <2>1. queue' \in Seq(Task)
    BY <1>8, EnqueuedType DEF EnqueueHangs
  <2>2. dropped' \subseteq Task
    BY <1>8, TaskType DEF EnqueueHangs
  <2>3. pc' \in [Requests -> RequestSteps]
    BY <1>8 DEF EnqueueHangs
  <2>4. \A q \in Requests :
          pc'[q] \in Committed \cup {"read"} => target[q] \in Transmutations
    BY <1>8 DEF EnqueueHangs
  <2> QED
    BY <1>8, <2>1, <2>2, <2>3, <2>4 DEF EnqueueHangs, Fault
<1>9. ASSUME NEW r \in Requests, Announce(r)
      PROVE  TypeOK'
  BY <1>9 DEF Announce
<1>10. CASE Pop
  BY <1>10, RangeOfTail DEF Pop
<1>11. CASE PopLost
  BY <1>11, RangeOfTail DEF PopLost, Fault
<1>12. CASE HandleAudit
  BY <1>12, RowsType DEF HandleAudit, Finish
<1>13. CASE AuditProcessed
  BY <1>13, RowsType DEF AuditProcessed, Finish
<1>14. CASE RecordError
  BY <1>14, RowsType DEF RecordError, Finish
<1>15. ASSUME NEW t \in Transmutations, RowMissing(t)
       PROVE  TypeOK'
  BY <1>15 DEF RowMissing
<1>16. ASSUME NEW t \in Transmutations, AlreadyCompleted(t)
       PROVE  TypeOK'
  BY <1>16 DEF AlreadyCompleted, Finish
<1>17. ASSUME NEW t \in Transmutations, Load(t)
       PROVE  TypeOK'
  BY <1>17 DEF Load
<1>18. ASSUME NEW t \in Transmutations, SaveStatus(t)
       PROVE  TypeOK'
  BY <1>18 DEF SaveStatus, SaveRow, StatusSaved, AfterSave, Statuses
<1>19. ASSUME NEW t \in Transmutations, WorkerAnnounce(t)
       PROVE  TypeOK'
  BY <1>19 DEF WorkerAnnounce, AfterAnnounce
<1>20. CASE WorkerDbError
  BY <1>20 DEF WorkerDbError, Fault
<1>21. CASE BackendCrash
  BY <1>21, TaskType DEF BackendCrash, InHandlers, Fault
<1>22. CASE RedisSave
  BY <1>22 DEF RedisSave
<1>23. CASE RedisRestart
  BY <1>23, RangeOfSequence DEF RedisRestart, Fault
<1>24. CASE UNCHANGED vars
  BY <1>24 DEF vars
<1> QED
  BY <1>1, <1>2, <1>3, <1>4, <1>5, <1>6, <1>7, <1>8, <1>9, <1>10, <1>11, <1>12,
     <1>13, <1>14, <1>15, <1>16, <1>17, <1>18, <1>19, <1>20, <1>21, <1>22, <1>23,
     <1>24 DEF Next, Arrive, Proceed, Work, Failure

\* The worker holds at most one task.
LEMMA WorkerStep ==
  ASSUME TypeOK, WorkerInv, [Next]_vars
  PROVE  WorkerInv'
<1> USE DEF WorkerInv, history, requests, worker, redis, database
<1>1. ASSUME NEW r \in Requests, NEW t \in Transmutations, CreateCommit(r, t)
      PROVE  WorkerInv'
  BY <1>1 DEF CreateCommit, SaveRow
<1>2. ASSUME NEW r \in Requests, NEW t \in Transmutations, NEW o \in {"edit", "delete"}, Find(r, o, t)
      PROVE  WorkerInv'
  BY <1>2 DEF Find
<1>3. ASSUME NEW r \in Requests, EditSave(r)
      PROVE  WorkerInv'
  BY <1>3 DEF EditSave, SaveRow
<1>4. ASSUME NEW r \in Requests, DeleteRow(r)
      PROVE  WorkerInv'
  BY <1>4 DEF DeleteRow
<1>5. ASSUME NEW r \in Requests, Reject(r)
      PROVE  WorkerInv'
  BY <1>5 DEF Reject
<1>6. ASSUME NEW r \in Requests, Enqueue(r)
      PROVE  WorkerInv'
  BY <1>6, EnqueuedType DEF Enqueue
<1>7. ASSUME NEW r \in Requests, EnqueueFails(r)
      PROVE  WorkerInv'
  BY <1>7, EnqueuedType DEF EnqueueFails, Fault
<1>8. ASSUME NEW r \in Requests, EnqueueHangs(r)
      PROVE  WorkerInv'
  BY <1>8, EnqueuedType DEF EnqueueHangs, Fault
<1>9. ASSUME NEW r \in Requests, Announce(r)
      PROVE  WorkerInv'
  BY <1>9 DEF Announce
<1>10. CASE Pop
  BY <1>10, RangeOfTail DEF Pop
<1>11. CASE PopLost
  BY <1>11, RangeOfTail DEF PopLost, Fault
<1>12. CASE HandleAudit
  BY <1>12 DEF HandleAudit, Finish
<1>13. CASE AuditProcessed
  BY <1>13 DEF AuditProcessed, Finish
<1>14. CASE RecordError
  BY <1>14 DEF RecordError, Finish
<1>15. ASSUME NEW t \in Transmutations, RowMissing(t)
      PROVE  WorkerInv'
  BY <1>15 DEF RowMissing
<1>16. ASSUME NEW t \in Transmutations, AlreadyCompleted(t)
      PROVE  WorkerInv'
  BY <1>16 DEF AlreadyCompleted, Finish
<1>17. ASSUME NEW t \in Transmutations, Load(t)
      PROVE  WorkerInv'
  BY <1>17 DEF Load
<1>18. ASSUME NEW t \in Transmutations, SaveStatus(t)
      PROVE  WorkerInv'
  BY <1>18 DEF SaveStatus, SaveRow, StatusSaved, AfterSave
<1>19. ASSUME NEW t \in Transmutations, WorkerAnnounce(t)
      PROVE  WorkerInv'
  BY <1>19 DEF WorkerAnnounce, AfterAnnounce
<1>20. CASE WorkerDbError
  BY <1>20 DEF WorkerDbError, Fault
<1>21. CASE BackendCrash
  BY <1>21 DEF BackendCrash, Fault
<1>22. CASE RedisSave
  BY <1>22 DEF RedisSave
<1>23. CASE RedisRestart
  BY <1>23 DEF RedisRestart, Fault
<1>24. CASE UNCHANGED vars
  BY <1>24 DEF vars
<1> QED
  BY <1>1, <1>2, <1>3, <1>4, <1>5, <1>6, <1>7, <1>8, <1>9, <1>10, <1>11, <1>12, <1>13,
     <1>14, <1>15, <1>16, <1>17, <1>18, <1>19, <1>20, <1>21, <1>22, <1>23, <1>24
     DEF Next, Arrive, Proceed, Work, Failure

\* Tasks keep their origin.
LEMMA OriginStep ==
  ASSUME TypeOK, WorkerInv, OriginInv, [Next]_vars
  PROVE  OriginInv'
<1> USE DEF OriginInv, TypeOK, Committed, EnqueueSteps, history, requests, worker, redis, database
<1>1. ASSUME NEW r \in Requests, NEW t \in Transmutations, CreateCommit(r, t)
      PROVE  OriginInv'
  BY <1>1, TaskType DEF CreateCommit, SaveRow
<1>2. ASSUME NEW r \in Requests, NEW t \in Transmutations, NEW o \in {"edit", "delete"}, Find(r, o, t)
      PROVE  OriginInv'
  BY <1>2, TaskType DEF Find
<1>3. ASSUME NEW r \in Requests, EditSave(r)
      PROVE  OriginInv'
  BY <1>3, TaskType DEF EditSave, SaveRow
<1>4. ASSUME NEW r \in Requests, DeleteRow(r)
      PROVE  OriginInv'
  BY <1>4, TaskType DEF DeleteRow
<1>5. ASSUME NEW r \in Requests, Reject(r)
      PROVE  OriginInv'
  BY <1>5, TaskType DEF Reject
<1>6. ASSUME NEW r \in Requests, Enqueue(r)
      PROVE  OriginInv'
  BY <1>6, EnqueuedType, TaskType DEF Enqueue, OnSuccess
<1>7. ASSUME NEW r \in Requests, EnqueueFails(r)
      PROVE  OriginInv'
  <2>1. Range(queue') \subseteq Range(queue) \cup {TaskOf(pc[r], r)}
    BY <1>7, EnqueuedType DEF EnqueueFails
  <2>2. TaskOf(pc[r], r).by = r /\ TaskOf(pc[r], r).job = pc[r]
    BY DEF TaskOf
  <2>3. /\ pc'[r] \in Committed /\ (pc'[r] \in {"process", "process_error"} => pc[r] = "process")
        /\ \A q \in Requests : q # r => pc'[q] = pc[q]
    BY <1>7 DEF EnqueueFails, OnError
  <2>4. \A t \in Range(queue) : t.by \in Requests
    BY RangeOfSequence, TaskType
  <2>5. \A t \in Range(saved) \cup inHand \cup settled : t.by \in Requests
    BY RangeOfSequence, TaskType
  <2> QED
    BY <1>7, <2>1, <2>2, <2>3, <2>4, <2>5 DEF EnqueueFails
<1>8. ASSUME NEW r \in Requests, EnqueueHangs(r)
      PROVE  OriginInv'
  <2>1. Range(queue') \subseteq Range(queue) \cup {TaskOf(pc[r], r)}
    BY <1>8, EnqueuedType DEF EnqueueHangs
  <2>2. TaskOf(pc[r], r).by = r /\ TaskOf(pc[r], r).job = pc[r]
    BY DEF TaskOf
  <2>3. /\ pc'[r] \in Committed /\ (pc'[r] \in {"process", "process_error"} => pc[r] = "process")
        /\ \A q \in Requests : q # r => pc'[q] = pc[q]
    BY <1>8 DEF EnqueueHangs
  <2>4. \A t \in Range(queue) : t.by \in Requests
    BY RangeOfSequence, TaskType
  <2>5. \A t \in Range(saved) \cup inHand \cup settled : t.by \in Requests
    BY RangeOfSequence, TaskType
  <2> QED
    BY <1>8, <2>1, <2>2, <2>3, <2>4, <2>5 DEF EnqueueHangs
<1>9. ASSUME NEW r \in Requests, Announce(r)
      PROVE  OriginInv'
  BY <1>9, TaskType DEF Announce
<1>10. CASE Pop
  BY <1>10, RangeOfTail, TaskType DEF Pop
<1>11. CASE PopLost
  BY <1>11, RangeOfTail, TaskType DEF PopLost, Fault
<1>12. CASE HandleAudit
  BY <1>12, TaskType DEF HandleAudit, Finish
<1>13. CASE AuditProcessed
  BY <1>13, TaskType DEF AuditProcessed, Finish
<1>14. CASE RecordError
  BY <1>14, TaskType DEF RecordError, Finish
<1>15. ASSUME NEW t \in Transmutations, RowMissing(t)
      PROVE  OriginInv'
  BY <1>15, TaskType DEF RowMissing
<1>16. ASSUME NEW t \in Transmutations, AlreadyCompleted(t)
      PROVE  OriginInv'
  BY <1>16, TaskType DEF AlreadyCompleted, Finish
<1>17. ASSUME NEW t \in Transmutations, Load(t)
      PROVE  OriginInv'
  BY <1>17, TaskType DEF Load
<1>18. ASSUME NEW t \in Transmutations, SaveStatus(t)
      PROVE  OriginInv'
  BY <1>18, TaskType DEF SaveStatus, SaveRow, StatusSaved, AfterSave
<1>19. ASSUME NEW t \in Transmutations, WorkerAnnounce(t)
      PROVE  OriginInv'
  BY <1>19, TaskType DEF WorkerAnnounce, AfterAnnounce
<1>20. CASE WorkerDbError
  BY <1>20, TaskType DEF WorkerDbError, Fault
<1>21. CASE BackendCrash
  <2>1. \A r \in Requests : /\ pc[r] \in Committed => pc'[r] \in Committed
                              /\ pc'[r] \notin {"process", "process_error"}
    BY <1>21 DEF BackendCrash
  <2>2. \A t \in Range(queue) \cup Range(saved) \cup settled : t.by \in Requests
    BY RangeOfSequence, TaskType
  <2> QED
    BY <1>21, <2>1, <2>2 DEF BackendCrash
<1>22. CASE RedisSave
  BY <1>22, TaskType DEF RedisSave
<1>23. CASE RedisRestart
  BY <1>23, TaskType DEF RedisRestart, Fault
<1>24. CASE UNCHANGED vars
  BY <1>24 DEF vars
<1> QED
  BY <1>1, <1>2, <1>3, <1>4, <1>5, <1>6, <1>7, <1>8, <1>9, <1>10, <1>11, <1>12, <1>13,
     <1>14, <1>15, <1>16, <1>17, <1>18, <1>19, <1>20, <1>21, <1>22, <1>23, <1>24
     DEF Next, Arrive, Proceed, Work, Failure

\* Rows keep their creator.
LEMMA CreatorStep ==
  ASSUME TypeOK, CreatorInv, [Next]_vars
  PROVE  CreatorInv'
<1> USE DEF CreatorInv, TypeOK, Committed, EnqueueSteps, history, requests, worker, redis, database
<1>1. ASSUME NEW r \in Requests, NEW t \in Transmutations, CreateCommit(r, t)
      PROVE  CreatorInv'
  BY <1>1 DEF CreateCommit, SaveRow
<1>2. ASSUME NEW r \in Requests, NEW t \in Transmutations, NEW o \in {"edit", "delete"}, Find(r, o, t)
      PROVE  CreatorInv'
  BY <1>2 DEF Find, Visible
<1>3. ASSUME NEW r \in Requests, EditSave(r)
      PROVE  CreatorInv'
  BY <1>3 DEF EditSave, SaveRow
<1>4. ASSUME NEW r \in Requests, DeleteRow(r)
      PROVE  CreatorInv'
  BY <1>4 DEF DeleteRow
<1>5. ASSUME NEW r \in Requests, Reject(r)
      PROVE  CreatorInv'
  BY <1>5 DEF Reject
<1>6. ASSUME NEW r \in Requests, Enqueue(r)
      PROVE  CreatorInv'
  BY <1>6, EnqueuedType DEF Enqueue, OnSuccess
<1>7. ASSUME NEW r \in Requests, EnqueueFails(r)
      PROVE  CreatorInv'
  BY <1>7, EnqueuedType DEF EnqueueFails, Fault, OnError
<1>8. ASSUME NEW r \in Requests, EnqueueHangs(r)
      PROVE  CreatorInv'
  BY <1>8, EnqueuedType DEF EnqueueHangs, Fault
<1>9. ASSUME NEW r \in Requests, Announce(r)
      PROVE  CreatorInv'
  BY <1>9 DEF Announce
<1>10. CASE Pop
  BY <1>10, RangeOfTail DEF Pop
<1>11. CASE PopLost
  BY <1>11, RangeOfTail DEF PopLost, Fault
<1>12. CASE HandleAudit
  BY <1>12 DEF HandleAudit, Finish
<1>13. CASE AuditProcessed
  BY <1>13 DEF AuditProcessed, Finish
<1>14. CASE RecordError
  BY <1>14 DEF RecordError, Finish
<1>15. ASSUME NEW t \in Transmutations, RowMissing(t)
      PROVE  CreatorInv'
  BY <1>15 DEF RowMissing
<1>16. ASSUME NEW t \in Transmutations, AlreadyCompleted(t)
      PROVE  CreatorInv'
  BY <1>16 DEF AlreadyCompleted, Finish
<1>17. ASSUME NEW t \in Transmutations, Load(t)
      PROVE  CreatorInv'
  BY <1>17 DEF Load
<1>18. ASSUME NEW t \in Transmutations, SaveStatus(t)
      PROVE  CreatorInv'
  BY <1>18 DEF SaveStatus, SaveRow, StatusSaved, AfterSave
<1>19. ASSUME NEW t \in Transmutations, WorkerAnnounce(t)
      PROVE  CreatorInv'
  BY <1>19 DEF WorkerAnnounce, AfterAnnounce
<1>20. CASE WorkerDbError
  BY <1>20 DEF WorkerDbError, Fault
<1>21. CASE BackendCrash
  BY <1>21 DEF BackendCrash, Fault
<1>22. CASE RedisSave
  BY <1>22 DEF RedisSave
<1>23. CASE RedisRestart
  BY <1>23 DEF RedisRestart, Fault
<1>24. CASE UNCHANGED vars
  BY <1>24 DEF vars
<1> QED
  BY <1>1, <1>2, <1>3, <1>4, <1>5, <1>6, <1>7, <1>8, <1>9, <1>10, <1>11, <1>12, <1>13,
     <1>14, <1>15, <1>16, <1>17, <1>18, <1>19, <1>20, <1>21, <1>22, <1>23, <1>24
     DEF Next, Arrive, Proceed, Work, Failure

\* Every change of a row keeps somebody who will broadcast it.
LEMMA AnnouncedStep ==
  ASSUME TypeOK, WorkerInv, OriginInv, ChangeWillBeAnnounced, [Next]_vars
  PROVE  ChangeWillBeAnnounced'
<1> USE DEF ChangeWillBeAnnounced, Announcer, TypeOK, EnqueueSteps, Processing, WorkerInv, history, requests, worker, redis, database
<1>1. ASSUME NEW r \in Requests, NEW t \in Transmutations, CreateCommit(r, t)
      PROVE  ChangeWillBeAnnounced'
  <2>1. /\ \A q \in Requests : q # r => pc'[q] = pc[q] /\ target'[q] = target[q]
        /\ pc[r] = "idle"
    BY <1>1 DEF CreateCommit
  <2>2. \A k \in inHand : k.by \in Requests /\ pc[k.by] # "idle"
    BY TaskType DEF OriginInv, Committed
  <2>3. \A k \in inHand : target'[k.by] = target[k.by]
    BY <2>1, <2>2
  <2>4. /\ pc'[r] = "process" /\ target'[r] = t /\ inHand' = inHand /\ wpc' = wpc
        /\ unannounced' = unannounced \cup {t}
    BY <1>1 DEF CreateCommit, SaveRow
  <2>5. ASSUME NEW u \in unannounced
        PROVE  Announcer(u)'
    <3>1. CASE \E q \in Requests :
                 target[q] = u /\ pc[q] \in {"process", "process_error", "audit",
                                          "audit_error", "announce", "hung"}
      BY <2>1, <3>1
    <3>2. CASE Processing(u) /\ wpc \in {"announceStart", "announceDone", "announceFail"}
      <4>1. PICK k \in inHand : k.job = "process" /\ target[k.by] = u
        BY <3>2
      <4> QED BY <2>3, <2>4, <3>2, <4>1
    <3> QED BY <3>1, <3>2
  <2> QED
    BY <2>4, <2>5
<1>2. ASSUME NEW r \in Requests, NEW t \in Transmutations, NEW o \in {"edit", "delete"}, Find(r, o, t)
      PROVE  ChangeWillBeAnnounced'
  <2>1. /\ \A q \in Requests : q # r => pc'[q] = pc[q] /\ target'[q] = target[q]
        /\ pc[r] = "idle"
    BY <1>2 DEF Find
  <2>2. \A k \in inHand : k.by \in Requests /\ pc[k.by] # "idle"
    BY TaskType DEF OriginInv, Committed
  <2>3. \A k \in inHand : target'[k.by] = target[k.by]
    BY <2>1, <2>2
  <2>4. inHand' = inHand /\ wpc' = wpc /\ unannounced' = unannounced
    BY <1>2 DEF Find
  <2>5. ASSUME NEW u \in unannounced
        PROVE  Announcer(u)'
    <3>1. CASE \E q \in Requests :
                 target[q] = u /\ pc[q] \in {"process", "process_error", "audit",
                                          "audit_error", "announce", "hung"}
      BY <2>1, <3>1
    <3>2. CASE Processing(u) /\ wpc \in {"announceStart", "announceDone", "announceFail"}
      <4>1. PICK k \in inHand : k.job = "process" /\ target[k.by] = u
        BY <3>2
      <4> QED BY <2>3, <2>4, <3>2, <4>1
    <3> QED BY <3>1, <3>2
  <2> QED
    BY <2>4, <2>5
<1>3. ASSUME NEW r \in Requests, EditSave(r)
      PROVE  ChangeWillBeAnnounced'
  BY <1>3 DEF EditSave, SaveRow
<1>4. ASSUME NEW r \in Requests, DeleteRow(r)
      PROVE  ChangeWillBeAnnounced'
  BY <1>4 DEF DeleteRow
<1>5. ASSUME NEW r \in Requests, Reject(r)
      PROVE  ChangeWillBeAnnounced'
  BY <1>5 DEF Reject
<1>6. ASSUME NEW r \in Requests, Enqueue(r)
      PROVE  ChangeWillBeAnnounced'
  BY <1>6, EnqueuedType DEF Enqueue, OnSuccess
<1>7. ASSUME NEW r \in Requests, EnqueueFails(r)
      PROVE  ChangeWillBeAnnounced'
  BY <1>7, EnqueuedType DEF EnqueueFails, Fault, OnError
<1>8. ASSUME NEW r \in Requests, EnqueueHangs(r)
      PROVE  ChangeWillBeAnnounced'
  BY <1>8, EnqueuedType DEF EnqueueHangs, Fault
<1>9. ASSUME NEW r \in Requests, Announce(r)
      PROVE  ChangeWillBeAnnounced'
  BY <1>9 DEF Announce
<1>10. CASE Pop
  BY <1>10, RangeOfTail DEF Pop
<1>11. CASE PopLost
  BY <1>11, RangeOfTail DEF PopLost, Fault
<1>12. CASE HandleAudit
  BY <1>12 DEF HandleAudit, Finish
<1>13. CASE AuditProcessed
  BY <1>13 DEF AuditProcessed, Finish
<1>14. CASE RecordError
  BY <1>14 DEF RecordError, Finish
<1>15. ASSUME NEW t \in Transmutations, RowMissing(t)
      PROVE  ChangeWillBeAnnounced'
  BY <1>15 DEF RowMissing
<1>16. ASSUME NEW t \in Transmutations, AlreadyCompleted(t)
      PROVE  ChangeWillBeAnnounced'
  BY <1>16 DEF AlreadyCompleted, Finish
<1>17. ASSUME NEW t \in Transmutations, Load(t)
      PROVE  ChangeWillBeAnnounced'
  BY <1>17 DEF Load
<1>18. ASSUME NEW t \in Transmutations, SaveStatus(t)
      PROVE  ChangeWillBeAnnounced'
  BY <1>18 DEF SaveStatus, SaveRow, StatusSaved, AfterSave
<1>19. ASSUME NEW t \in Transmutations, WorkerAnnounce(t)
      PROVE  ChangeWillBeAnnounced'
  BY <1>19 DEF WorkerAnnounce, AfterAnnounce
<1>20. CASE WorkerDbError
  BY <1>20 DEF WorkerDbError, Fault
<1>21. CASE BackendCrash
  BY <1>21 DEF BackendCrash, Fault
<1>22. CASE RedisSave
  BY <1>22 DEF RedisSave
<1>23. CASE RedisRestart
  BY <1>23 DEF RedisRestart, Fault
<1>24. CASE UNCHANGED vars
  BY <1>24 DEF vars
<1> QED
  BY <1>1, <1>2, <1>3, <1>4, <1>5, <1>6, <1>7, <1>8, <1>9, <1>10, <1>11, <1>12, <1>13,
     <1>14, <1>15, <1>16, <1>17, <1>18, <1>19, <1>20, <1>21, <1>22, <1>23, <1>24
     DEF Next, Arrive, Proceed, Work, Failure

\* What is owed stays accounted for.
LEMMA ForgottenStep ==
  ASSUME TypeOK, WorkerInv, OriginInv, NothingForgotten, [Next]_vars
  PROVE  NothingForgotten'
<1> USE DEF NothingForgotten, Owed, Outstanding, InHandlers, Carried, TaskOf, Task, TypeOK, EnqueueSteps, Committed, WorkerInv, history, requests, worker, redis, database
<1>1. ASSUME NEW r \in Requests, NEW t \in Transmutations, CreateCommit(r, t)
      PROVE  NothingForgotten'
  BY <1>1 DEF CreateCommit, SaveRow
<1>2. ASSUME NEW r \in Requests, NEW t \in Transmutations, NEW o \in {"edit", "delete"}, Find(r, o, t)
      PROVE  NothingForgotten'
  BY <1>2 DEF Find
<1>3. ASSUME NEW r \in Requests, EditSave(r)
      PROVE  NothingForgotten'
  BY <1>3 DEF EditSave, SaveRow
<1>4. ASSUME NEW r \in Requests, DeleteRow(r)
      PROVE  NothingForgotten'
  BY <1>4 DEF DeleteRow
<1>5. ASSUME NEW r \in Requests, Reject(r)
      PROVE  NothingForgotten'
  BY <1>5 DEF Reject
<1>6. ASSUME NEW r \in Requests, Enqueue(r)
      PROVE  NothingForgotten'
  BY <1>6, EnqueuedType DEF Enqueue, OnSuccess
<1>7. ASSUME NEW r \in Requests, EnqueueFails(r)
      PROVE  NothingForgotten'
  <2>1. Owed' \subseteq Owed
    BY <1>7 DEF EnqueueFails, OnError
  <2>2. \A t \in InHandlers : t \in InHandlers' \cup {TaskOf(pc[r], r)} \cup dropped'
    BY <1>7 DEF EnqueueFails, OnError
  <2>3. TaskOf(pc[r], r) \in Range(queue') \cup dropped'
    <3>1. CASE queue' = Append(queue, TaskOf(pc[r], r))
      BY <1>7, <3>1, EnqueuedType DEF EnqueueFails
    <3>2. CASE UNCHANGED queue
      BY <1>7, <3>2 DEF EnqueueFails
    <3> QED BY <1>7, <3>1, <3>2 DEF EnqueueFails
  <2>4. Range(queue) \subseteq Range(queue') /\ dropped \subseteq dropped'
    BY <1>7, EnqueuedType DEF EnqueueFails
  <2> QED
    BY <1>7, <2>1, <2>2, <2>3, <2>4 DEF EnqueueFails
<1>8. ASSUME NEW r \in Requests, EnqueueHangs(r)
      PROVE  NothingForgotten'
  <2>1. Owed' \subseteq Owed
    BY <1>8 DEF EnqueueHangs
  <2>2. \A t \in InHandlers : t \in InHandlers' \cup {TaskOf(pc[r], r)} \cup dropped'
    BY <1>8 DEF EnqueueHangs
  <2>3. TaskOf(pc[r], r) \in Range(queue') \cup dropped'
    <3>1. CASE queue' = Append(queue, TaskOf(pc[r], r))
      BY <1>8, <3>1, EnqueuedType DEF EnqueueHangs
    <3>2. CASE UNCHANGED queue
      BY <1>8, <3>2 DEF EnqueueHangs
    <3> QED BY <1>8, <3>1, <3>2 DEF EnqueueHangs
  <2>4. Range(queue) \subseteq Range(queue') /\ dropped \subseteq dropped'
    BY <1>8, EnqueuedType DEF EnqueueHangs
  <2> QED
    BY <1>8, <2>1, <2>2, <2>3, <2>4 DEF EnqueueHangs
<1>9. ASSUME NEW r \in Requests, Announce(r)
      PROVE  NothingForgotten'
  BY <1>9 DEF Announce
<1>10. CASE Pop
  BY <1>10, RangeOfTail DEF Pop
<1>11. CASE PopLost
  BY <1>11, RangeOfTail DEF PopLost, Fault
<1>12. CASE HandleAudit
  BY <1>12 DEF HandleAudit, Finish
<1>13. CASE AuditProcessed
  BY <1>13 DEF AuditProcessed, Finish
<1>14. CASE RecordError
  BY <1>14 DEF RecordError, Finish
<1>15. ASSUME NEW t \in Transmutations, RowMissing(t)
      PROVE  NothingForgotten'
  BY <1>15 DEF RowMissing
<1>16. ASSUME NEW t \in Transmutations, AlreadyCompleted(t)
      PROVE  NothingForgotten'
  BY <1>16 DEF AlreadyCompleted, Finish
<1>17. ASSUME NEW t \in Transmutations, Load(t)
      PROVE  NothingForgotten'
  BY <1>17 DEF Load
<1>18. ASSUME NEW t \in Transmutations, SaveStatus(t)
      PROVE  NothingForgotten'
  BY <1>18 DEF SaveStatus, SaveRow, StatusSaved, AfterSave
<1>19. ASSUME NEW t \in Transmutations, WorkerAnnounce(t)
      PROVE  NothingForgotten'
  BY <1>19 DEF WorkerAnnounce, AfterAnnounce
<1>20. CASE WorkerDbError
  BY <1>20 DEF WorkerDbError, Fault
<1>21. CASE BackendCrash
  BY <1>21 DEF BackendCrash, Fault
<1>22. CASE RedisSave
  BY <1>22 DEF RedisSave
<1>23. CASE RedisRestart
  BY <1>23 DEF RedisRestart, Fault
<1>24. CASE UNCHANGED vars
  BY <1>24 DEF vars
<1> QED
  BY <1>1, <1>2, <1>3, <1>4, <1>5, <1>6, <1>7, <1>8, <1>9, <1>10, <1>11, <1>12, <1>13,
     <1>14, <1>15, <1>16, <1>17, <1>18, <1>19, <1>20, <1>21, <1>22, <1>23, <1>24
     DEF Next, Arrive, Proceed, Work, Failure

LEMMA TaskOfProcess ==
  \A r \in Requests :
    /\ TaskOf("process", r) \in Task
    /\ TaskOf("process", r).job = "process" /\ TaskOf("process", r).by = r
    /\ \A t \in Task : t.job = "process" /\ t.by = r => t = TaskOf("process", r)
BY DEF TaskOf, Task, EnqueueSteps

\* An executed processing task stays executed, and its row settled.
LEMMA ExecutedStep ==
  ASSUME TypeOK, WorkerInv, OriginInv, CreatorInv, ExecutedInv, [Next]_vars
  PROVE  ExecutedInv'
<1> USE DEF ExecutedInv, ExecutedAs, Executed, Excused, TypeOK, EnqueueSteps, Committed, WorkerInv, Processing, history, requests, worker, redis, database
<1>1. ASSUME NEW r \in Requests, NEW t \in Transmutations, CreateCommit(r, t)
      PROVE  ExecutedInv'
  BY <1>1, TaskOfProcess DEF CreateCommit, SaveRow, OriginInv, CreatorInv
<1>2. ASSUME NEW r \in Requests, NEW t \in Transmutations, NEW o \in {"edit", "delete"}, Find(r, o, t)
      PROVE  ExecutedInv'
  BY <1>2, TaskOfProcess DEF Find, OriginInv, Visible
<1>3. ASSUME NEW r \in Requests, EditSave(r)
      PROVE  ExecutedInv'
  BY <1>3, TaskOfProcess DEF EditSave, SaveRow, OriginInv
<1>4. ASSUME NEW r \in Requests, DeleteRow(r)
      PROVE  ExecutedInv'
  BY <1>4, TaskOfProcess DEF DeleteRow, OriginInv
<1>5. ASSUME NEW r \in Requests, Reject(r)
      PROVE  ExecutedInv'
  BY <1>5, TaskOfProcess DEF Reject, OriginInv
<1>6. ASSUME NEW r \in Requests, Enqueue(r)
      PROVE  ExecutedInv'
  BY <1>6, EnqueuedType, TaskOfProcess DEF Enqueue, OriginInv, OnSuccess
<1>7. ASSUME NEW r \in Requests, EnqueueFails(r)
      PROVE  ExecutedInv'
  BY <1>7, EnqueuedType, TaskOfProcess DEF EnqueueFails, Fault, OriginInv, OnError
<1>8. ASSUME NEW r \in Requests, EnqueueHangs(r)
      PROVE  ExecutedInv'
  BY <1>8, EnqueuedType, TaskOfProcess DEF EnqueueHangs, Fault, OriginInv
<1>9. ASSUME NEW r \in Requests, Announce(r)
      PROVE  ExecutedInv'
  BY <1>9, TaskOfProcess DEF Announce, OriginInv
<1>10. CASE Pop
  BY <1>10, RangeOfTail, TaskOfProcess DEF Pop, OriginInv
<1>11. CASE PopLost
  BY <1>11, RangeOfTail, TaskOfProcess DEF PopLost, Fault, OriginInv
<1>12. CASE HandleAudit
  BY <1>12, TaskOfProcess DEF HandleAudit, Finish, OriginInv
<1>13. CASE AuditProcessed
  BY <1>13, TaskOfProcess DEF AuditProcessed, Finish, OriginInv
<1>14. CASE RecordError
  BY <1>14, TaskOfProcess DEF RecordError, Finish, OriginInv
<1>15. ASSUME NEW t \in Transmutations, RowMissing(t)
      PROVE  ExecutedInv'
  BY <1>15, TaskOfProcess DEF RowMissing, OriginInv, Visible
<1>16. ASSUME NEW t \in Transmutations, AlreadyCompleted(t)
      PROVE  ExecutedInv'
  BY <1>16, TaskOfProcess DEF AlreadyCompleted, Finish, OriginInv, Visible
<1>17. ASSUME NEW t \in Transmutations, Load(t)
      PROVE  ExecutedInv'
  BY <1>17, TaskOfProcess DEF Load, OriginInv, Visible
<1>18. ASSUME NEW t \in Transmutations, SaveStatus(t)
      PROVE  ExecutedInv'
  <2>1. PICK k \in inHand : k.job = "process" /\ target[k.by] = t
    BY <1>18 DEF SaveStatus
  <2>2. /\ k.by \in Requests /\ k = TaskOf("process", k.by)
        /\ pc[k.by] \in Committed /\ op[k.by] = "create"
    BY <2>1, TaskOfProcess, TaskType DEF OriginInv
  <2>3. /\ UNCHANGED <<pc, op, target, inHand, settled, dropped, touched>>
        /\ \A u \in Transmutations : u # t => row'[u] = row[u]
        /\ row'[t] = [life |-> "live", status |-> StatusSaved[wpc]]
    BY <1>18 DEF SaveStatus, SaveRow
  <2>4. ASSUME NEW r \in Requests, r # k.by
        PROVE  ExecutedAs(r)'
    <3>1. TaskOf("process", r) \notin inHand
      BY <2>1, <2>2, <2>4, TaskOfProcess
    <3>2. CASE TaskOf("process", r) \in settled
      <4>1. pc[r] \in Committed /\ op[r] = "create" /\ target[r] \in Transmutations
        BY <3>2, TaskOfProcess DEF OriginInv
      <4>2. target[r] # t
        BY <2>1, <2>2, <2>4, <4>1 DEF CreatorInv
      <4> QED BY <2>3, <3>1, <4>1, <4>2
    <3>3. CASE TaskOf("process", r) \notin settled
      BY <2>3, <3>1, <3>3
    <3> QED BY <3>2, <3>3
  <2>5. ExecutedAs(k.by)'
    <3>1. CASE wpc = "start"
      BY <1>18, <2>1, <2>2, <2>3, <3>1 DEF SaveStatus, AfterSave
    <3>2. CASE wpc = "work"
      <4>1. IsCompleted(row'[t].status)
        BY <2>3, <3>2 DEF StatusSaved, IsCompleted
      <4>2. wpc' = "announceDone"
        BY <1>18, <3>2 DEF SaveStatus, AfterSave
      <4> QED BY <2>1, <2>2, <2>3, <4>1, <4>2
    <3>3. CASE wpc = "fail"
      BY <1>18, <2>1, <2>2, <2>3, <3>3 DEF SaveStatus, AfterSave
    <3> QED BY <1>18, <3>1, <3>2, <3>3 DEF SaveStatus, StatusSaved
  <2> QED BY <2>4, <2>5
<1>19. ASSUME NEW t \in Transmutations, WorkerAnnounce(t)
      PROVE  ExecutedInv'
  BY <1>19, TaskOfProcess DEF WorkerAnnounce, AfterAnnounce, OriginInv
<1>20. CASE WorkerDbError
  BY <1>20, TaskOfProcess DEF WorkerDbError, Fault, OriginInv
<1>21. CASE BackendCrash
  BY <1>21, TaskOfProcess DEF BackendCrash, Fault, OriginInv
<1>22. CASE RedisSave
  BY <1>22, TaskOfProcess DEF RedisSave, OriginInv
<1>23. CASE RedisRestart
  BY <1>23, TaskOfProcess DEF RedisRestart, Fault, OriginInv
<1>24. CASE UNCHANGED vars
  BY <1>24 DEF vars
<1> QED
  BY <1>1, <1>2, <1>3, <1>4, <1>5, <1>6, <1>7, <1>8, <1>9, <1>10, <1>11, <1>12, <1>13,
     <1>14, <1>15, <1>16, <1>17, <1>18, <1>19, <1>20, <1>21, <1>22, <1>23, <1>24
     DEF Next, Arrive, Proceed, Work, Failure

\* The worker's row is not COMPLETED behind its back.
LEMMA UncompletedStep ==
  ASSUME TypeOK, WorkerInv, OriginInv, CreatorInv, UncompletedInv, [Next]_vars
  PROVE  UncompletedInv'
<1> USE DEF UncompletedInv, Processing, TypeOK, WorkerInv, OriginInv, Committed, EnqueueSteps, history, requests, worker, redis, database
<1>1. ASSUME NEW r \in Requests, NEW t \in Transmutations, CreateCommit(r, t)
      PROVE  UncompletedInv'
  BY <1>1, TaskType DEF CreateCommit, SaveRow, CreatorInv
<1>2. ASSUME NEW r \in Requests, NEW t \in Transmutations, NEW o \in {"edit", "delete"}, Find(r, o, t)
      PROVE  UncompletedInv'
  <2>1. \A k \in inHand \cup settled : k.by \in Requests /\ k.by # r
    BY <1>2, TaskType DEF Find
  <2>2. \A k \in inHand \cup settled : target'[k.by] = target[k.by]
    BY <1>2, <2>1 DEF Find
  <2> QED
    BY <1>2, <2>1, <2>2 DEF Find
<1>3. ASSUME NEW r \in Requests, EditSave(r)
      PROVE  UncompletedInv'
  BY <1>3, TaskType DEF EditSave, SaveRow
<1>4. ASSUME NEW r \in Requests, DeleteRow(r)
      PROVE  UncompletedInv'
  BY <1>4, TaskType DEF DeleteRow
<1>5. ASSUME NEW r \in Requests, Reject(r)
      PROVE  UncompletedInv'
  BY <1>5, TaskType DEF Reject
<1>6. ASSUME NEW r \in Requests, Enqueue(r)
      PROVE  UncompletedInv'
  BY <1>6, EnqueuedType, TaskType DEF Enqueue
<1>7. ASSUME NEW r \in Requests, EnqueueFails(r)
      PROVE  UncompletedInv'
  BY <1>7, EnqueuedType, TaskType DEF EnqueueFails, Fault
<1>8. ASSUME NEW r \in Requests, EnqueueHangs(r)
      PROVE  UncompletedInv'
  BY <1>8, EnqueuedType, TaskType DEF EnqueueHangs, Fault
<1>9. ASSUME NEW r \in Requests, Announce(r)
      PROVE  UncompletedInv'
  BY <1>9, TaskType DEF Announce
<1>10. CASE Pop
  BY <1>10, RangeOfTail, TaskType DEF Pop
<1>11. CASE PopLost
  BY <1>11, RangeOfTail, TaskType DEF PopLost, Fault
<1>12. CASE HandleAudit
  BY <1>12, TaskType DEF HandleAudit, Finish
<1>13. CASE AuditProcessed
  BY <1>13, TaskType DEF AuditProcessed, Finish
<1>14. CASE RecordError
  BY <1>14, TaskType DEF RecordError, Finish
<1>15. ASSUME NEW t \in Transmutations, RowMissing(t)
      PROVE  UncompletedInv'
  BY <1>15, TaskType DEF RowMissing
<1>16. ASSUME NEW t \in Transmutations, AlreadyCompleted(t)
      PROVE  UncompletedInv'
  BY <1>16, TaskType DEF AlreadyCompleted, Finish
<1>17. ASSUME NEW t \in Transmutations, Load(t)
      PROVE  UncompletedInv'
  BY <1>17, TaskType DEF Load, IsCompleted
<1>18. ASSUME NEW t \in Transmutations, SaveStatus(t)
      PROVE  UncompletedInv'
  BY <1>18, TaskType DEF SaveStatus, SaveRow, StatusSaved, AfterSave
<1>19. ASSUME NEW t \in Transmutations, WorkerAnnounce(t)
      PROVE  UncompletedInv'
  BY <1>19, TaskType DEF WorkerAnnounce, AfterAnnounce
<1>20. CASE WorkerDbError
  BY <1>20, TaskType DEF WorkerDbError, Fault
<1>21. CASE BackendCrash
  BY <1>21, TaskType DEF BackendCrash, Fault
<1>22. CASE RedisSave
  BY <1>22, TaskType DEF RedisSave
<1>23. CASE RedisRestart
  BY <1>23, TaskType DEF RedisRestart, Fault
<1>24. CASE UNCHANGED vars
  BY <1>24 DEF vars
<1> QED
  BY <1>1, <1>2, <1>3, <1>4, <1>5, <1>6, <1>7, <1>8, <1>9, <1>10, <1>11, <1>12, <1>13,
     <1>14, <1>15, <1>16, <1>17, <1>18, <1>19, <1>20, <1>21, <1>22, <1>23, <1>24
     DEF Next, Arrive, Proceed, Work, Failure

\* A completed row keeps its audit row.
LEMMA TraceStep ==
  ASSUME TypeOK, WorkerInv, OriginInv, CreatorInv, UncompletedInv, TraceInv, [Next]_vars
  PROVE  TraceInv'
<1> USE DEF TraceInv, TracedOnce, Traced, Excused, Processing, TypeOK, WorkerInv, Committed, EnqueueSteps, history, requests, worker, redis, database
<1>1. ASSUME NEW r \in Requests, NEW t \in Transmutations, CreateCommit(r, t)
      PROVE  TraceInv'
  BY <1>1, TaskOfProcess DEF CreateCommit, SaveRow, CreatorInv, IsCompleted
<1>2. ASSUME NEW r \in Requests, NEW t \in Transmutations, NEW o \in {"edit", "delete"}, Find(r, o, t)
      PROVE  TraceInv'
  BY <1>2, TaskOfProcess DEF Find
<1>3. ASSUME NEW r \in Requests, EditSave(r)
      PROVE  TraceInv'
  BY <1>3, TaskOfProcess DEF EditSave, SaveRow
<1>4. ASSUME NEW r \in Requests, DeleteRow(r)
      PROVE  TraceInv'
  BY <1>4, TaskOfProcess DEF DeleteRow
<1>5. ASSUME NEW r \in Requests, Reject(r)
      PROVE  TraceInv'
  BY <1>5, TaskOfProcess DEF Reject
<1>6. ASSUME NEW r \in Requests, Enqueue(r)
      PROVE  TraceInv'
  BY <1>6, EnqueuedType, TaskOfProcess DEF Enqueue, OnSuccess
<1>7. ASSUME NEW r \in Requests, EnqueueFails(r)
      PROVE  TraceInv'
  BY <1>7, EnqueuedType, TaskOfProcess DEF EnqueueFails, Fault, OnError
<1>8. ASSUME NEW r \in Requests, EnqueueHangs(r)
      PROVE  TraceInv'
  BY <1>8, EnqueuedType, TaskOfProcess DEF EnqueueHangs, Fault
<1>9. ASSUME NEW r \in Requests, Announce(r)
      PROVE  TraceInv'
  BY <1>9, TaskOfProcess DEF Announce
<1>10. CASE Pop
  BY <1>10, RangeOfTail, TaskOfProcess DEF Pop
<1>11. CASE PopLost
  BY <1>11, RangeOfTail, TaskOfProcess DEF PopLost, Fault
<1>12. CASE HandleAudit
  BY <1>12, TaskOfProcess DEF HandleAudit, Finish
<1>13. CASE AuditProcessed
  BY <1>13, TaskOfProcess DEF AuditProcessed, Finish, Rows
<1>14. CASE RecordError
  BY <1>14, TaskOfProcess DEF RecordError, Finish
<1>15. ASSUME NEW t \in Transmutations, RowMissing(t)
      PROVE  TraceInv'
  BY <1>15, TaskOfProcess DEF RowMissing
<1>16. ASSUME NEW t \in Transmutations, AlreadyCompleted(t)
      PROVE  TraceInv'
  BY <1>16, TaskOfProcess DEF AlreadyCompleted, Finish
<1>17. ASSUME NEW t \in Transmutations, Load(t)
      PROVE  TraceInv'
  BY <1>17, TaskOfProcess DEF Load
<1>18. ASSUME NEW t \in Transmutations, SaveStatus(t)
      PROVE  TraceInv'
  <2>1. PICK k \in inHand : k.job = "process" /\ target[k.by] = t
    BY <1>18 DEF SaveStatus, Processing
  <2>2. /\ k.by \in Requests /\ k = TaskOf("process", k.by)
        /\ pc[k.by] \in Committed /\ op[k.by] = "create"
    BY <2>1, TaskOfProcess, TaskType DEF OriginInv
  <2>3. /\ UNCHANGED <<pc, op, target, inHand, trail, dropped, touched>>
        /\ \A u \in Transmutations : u # t => row'[u] = row[u]
        /\ row'[t] = [life |-> "live", status |-> StatusSaved[wpc]]
    BY <1>18 DEF SaveStatus, SaveRow
  <2>4. ASSUME NEW r \in Requests, r # k.by
        PROVE  TracedOnce(r)'
    <3>1. TaskOf("process", r) \notin inHand
      BY <2>1, <2>2, <2>4, TaskOfProcess
    <3>2. (pc[r] \in Committed /\ op[r] = "create") =>
             target[r] # t /\ target[r] \in Transmutations
      BY <2>1, <2>2, <2>4 DEF CreatorInv
    <3> QED BY <2>3, <3>1, <3>2
  <2>5. TracedOnce(k.by)'
    <3>1. CASE wpc = "work"
      BY <1>18, <2>2, <2>3, <3>1 DEF SaveStatus, AfterSave
    <3>2. CASE wpc # "work"
      <4>1. ~IsCompleted(row'[t].status)
        BY <1>18, <2>3, <3>2 DEF SaveStatus, StatusSaved, IsCompleted
      <4> QED BY <2>1, <2>3, <4>1
    <3> QED BY <3>1, <3>2
  <2> QED BY <2>4, <2>5
<1>19. ASSUME NEW t \in Transmutations, WorkerAnnounce(t)
      PROVE  TraceInv'
  BY <1>19, TaskOfProcess DEF WorkerAnnounce, AfterAnnounce
<1>20. CASE WorkerDbError
  BY <1>20, TaskOfProcess DEF WorkerDbError, Fault
<1>21. CASE BackendCrash
  BY <1>21, TaskOfProcess DEF BackendCrash, Fault
<1>22. CASE RedisSave
  BY <1>22, TaskOfProcess DEF RedisSave
<1>23. CASE RedisRestart
  BY <1>23, TaskOfProcess DEF RedisRestart, Fault
<1>24. CASE UNCHANGED vars
  BY <1>24 DEF vars
<1> HIDE DEF TraceInv, TracedOnce, Traced, Excused, Processing, TypeOK, WorkerInv, Committed, EnqueueSteps, history, requests, worker, redis, database
<1> QED
  BY <1>1, <1>2, <1>3, <1>4, <1>5, <1>6, <1>7, <1>8, <1>9, <1>10, <1>11, <1>12, <1>13,
     <1>14, <1>15, <1>16, <1>17, <1>18, <1>19, <1>20, <1>21, <1>22, <1>23, <1>24
     DEF Next, Arrive, Proceed, Work, Failure

LEMMA FinishTraces ==
  ASSUME NEW a \in {"registered", "processed", "worker_error"}, Finish(Rows(a))
  PROVE  /\ \A t \in inHand : Traced(t)'
         /\ \A t \in settled : Traced(t) => Traced(t)'
BY DEF Finish, Rows, Traced


\* The worker leaves an audit row for every task it is done with.
LEMMA SettledStep ==
  ASSUME TypeOK, WorkerInv, OriginInv, TraceInv, SettledLeavesTrace, [Next]_vars
  PROVE  SettledLeavesTrace'
<1> USE DEF SettledLeavesTrace, TypeOK, WorkerInv, OriginInv, Committed, EnqueueSteps, history, requests, worker, redis, database
<1>1. ASSUME NEW r \in Requests, NEW t \in Transmutations, CreateCommit(r, t)
      PROVE  SettledLeavesTrace'
  <2>1. \A k \in inHand \cup settled : k.by \in Requests /\ k.by # r
    BY <1>1, TaskType DEF CreateCommit
  <2>2. \A k \in inHand \cup settled : target'[k.by] = target[k.by]
    BY <1>1, <2>1 DEF CreateCommit
  <2> QED
    BY <1>1, <2>1, <2>2 DEF CreateCommit, Traced, SaveRow
<1>2. ASSUME NEW r \in Requests, NEW t \in Transmutations, NEW o \in {"edit", "delete"}, Find(r, o, t)
      PROVE  SettledLeavesTrace'
  <2>1. \A k \in inHand \cup settled : k.by \in Requests /\ k.by # r
    BY <1>2, TaskType DEF Find
  <2>2. \A k \in inHand \cup settled : target'[k.by] = target[k.by]
    BY <1>2, <2>1 DEF Find
  <2> QED
    BY <1>2, <2>1, <2>2 DEF Find, Traced
<1>3. ASSUME NEW r \in Requests, EditSave(r)
      PROVE  SettledLeavesTrace'
  BY <1>3, TaskType DEF EditSave, SaveRow, Traced
<1>4. ASSUME NEW r \in Requests, DeleteRow(r)
      PROVE  SettledLeavesTrace'
  BY <1>4, TaskType DEF DeleteRow, Traced
<1>5. ASSUME NEW r \in Requests, Reject(r)
      PROVE  SettledLeavesTrace'
  BY <1>5, TaskType DEF Reject, Traced
<1>6. ASSUME NEW r \in Requests, Enqueue(r)
      PROVE  SettledLeavesTrace'
  BY <1>6, EnqueuedType, TaskType DEF Enqueue, Traced
<1>7. ASSUME NEW r \in Requests, EnqueueFails(r)
      PROVE  SettledLeavesTrace'
  BY <1>7, EnqueuedType, TaskType DEF EnqueueFails, Fault, Traced
<1>8. ASSUME NEW r \in Requests, EnqueueHangs(r)
      PROVE  SettledLeavesTrace'
  BY <1>8, EnqueuedType, TaskType DEF EnqueueHangs, Fault, Traced
<1>9. ASSUME NEW r \in Requests, Announce(r)
      PROVE  SettledLeavesTrace'
  BY <1>9, TaskType DEF Announce, Traced
<1>10. CASE Pop
  BY <1>10, RangeOfTail, TaskType DEF Pop, Traced
<1>11. CASE PopLost
  BY <1>11, RangeOfTail, TaskType DEF PopLost, Fault, Traced
<1>12. CASE HandleAudit
  <2>1. (\A t \in inHand : Traced(t)') /\ (\A t \in settled : Traced(t) => Traced(t)')
    BY <1>12, FinishTraces DEF HandleAudit
  <2>2. UNCHANGED <<dropped, target, touched>> /\ settled' = settled \cup inHand
    BY <1>12 DEF HandleAudit, Finish
  <2> QED
    BY <2>1, <2>2
<1>13. CASE AuditProcessed
  <2>1. (\A t \in inHand : Traced(t)') /\ (\A t \in settled : Traced(t) => Traced(t)')
    BY <1>13, FinishTraces DEF AuditProcessed
  <2>2. UNCHANGED <<dropped, target, touched>> /\ settled' = settled \cup inHand
    BY <1>13 DEF AuditProcessed, Finish
  <2> QED
    BY <2>1, <2>2
<1>14. CASE RecordError
  <2>1. (\A t \in inHand : Traced(t)') /\ (\A t \in settled : Traced(t) => Traced(t)')
    BY <1>14, FinishTraces DEF RecordError
  <2>2. UNCHANGED <<dropped, target, touched>> /\ settled' = settled \cup inHand
    BY <1>14 DEF RecordError, Finish
  <2> QED
    BY <2>1, <2>2
<1>15. ASSUME NEW t \in Transmutations, RowMissing(t)
      PROVE  SettledLeavesTrace'
  BY <1>15, TaskType DEF RowMissing, Traced
<1>16. ASSUME NEW t \in Transmutations, AlreadyCompleted(t)
      PROVE  SettledLeavesTrace'
  <2>1. PICK k \in inHand : k.job = "process" /\ target[k.by] = t
    BY <1>16 DEF AlreadyCompleted, Processing
  <2>2. /\ k.by \in Requests /\ k = TaskOf("process", k.by)
        /\ pc[k.by] \in Committed /\ op[k.by] = "create"
    BY <2>1, TaskOfProcess, TaskType DEF OriginInv
  <2>3. Traced(k) \/ k \in dropped \/ target[k.by] \in touched
    BY <1>16, <2>1, <2>2 DEF AlreadyCompleted, TraceInv, TracedOnce, Excused
  <2>4. UNCHANGED <<dropped, target, touched, trail>> /\ settled' = settled \cup {k}
    BY <1>16, <2>1 DEF AlreadyCompleted, Finish
  <2> QED
    BY <2>3, <2>4 DEF Traced
<1>17. ASSUME NEW t \in Transmutations, Load(t)
      PROVE  SettledLeavesTrace'
  BY <1>17, TaskType DEF Load, Traced
<1>18. ASSUME NEW t \in Transmutations, SaveStatus(t)
      PROVE  SettledLeavesTrace'
  BY <1>18, TaskType DEF SaveStatus, SaveRow, StatusSaved, AfterSave, Traced
<1>19. ASSUME NEW t \in Transmutations, WorkerAnnounce(t)
      PROVE  SettledLeavesTrace'
  BY <1>19, TaskType DEF WorkerAnnounce, AfterAnnounce, Traced
<1>20. CASE WorkerDbError
  <2>1. UNCHANGED <<target, touched, trail>> /\ settled' \subseteq settled \cup inHand
        /\ dropped' = dropped \cup inHand
    BY <1>20 DEF WorkerDbError
  <2> QED
    BY <2>1 DEF Traced
<1>21. CASE BackendCrash
  BY <1>21, TaskType DEF BackendCrash, Fault, Traced
<1>22. CASE RedisSave
  BY <1>22, TaskType DEF RedisSave, Traced
<1>23. CASE RedisRestart
  BY <1>23, TaskType DEF RedisRestart, Fault, Traced
<1>24. CASE UNCHANGED vars
  BY <1>24 DEF vars, Traced
<1> HIDE DEF SettledLeavesTrace, TypeOK, WorkerInv, OriginInv, Committed, EnqueueSteps, history, requests, worker, redis, database
<1> QED
  BY <1>1, <1>2, <1>3, <1>4, <1>5, <1>6, <1>7, <1>8, <1>9, <1>10, <1>11, <1>12, <1>13,
     <1>14, <1>15, <1>16, <1>17, <1>18, <1>19, <1>20, <1>21, <1>22, <1>23, <1>24
     DEF Next, Arrive, Proceed, Work, Failure

LEMMA InjectiveAppend ==
  ASSUME NEW S, NEW q \in Seq(S), NEW x \in S, x \notin Range(q),
         \A i, j \in DOMAIN q : q[i] = q[j] => i = j
  PROVE  \A i, j \in DOMAIN Append(q, x) : Append(q, x)[i] = Append(q, x)[j] => i = j
<1>1. /\ Append(q, x) \in Seq(S) /\ Len(Append(q, x)) = Len(q) + 1
      /\ Len(q) \in Nat
      /\ \A i \in 1 .. Len(q) : Append(q, x)[i] = q[i]
      /\ Append(q, x)[Len(q) + 1] = x
  BY AppendProperties, LenProperties
<1>2. DOMAIN q = 1 .. Len(q) /\ DOMAIN Append(q, x) = 1 .. Len(q) + 1
  BY <1>1, LenProperties
<1>3. \A i \in 1 .. Len(q) + 1 : i \in 1 .. Len(q) \/ i = Len(q) + 1
  BY <1>1
<1>4. \A i \in 1 .. Len(q) : q[i] # x
  BY <1>2 DEF Range
<1> QED BY <1>1, <1>2, <1>3, <1>4

LEMMA InjectiveTail ==
  ASSUME NEW S, NEW q \in Seq(S), q # <<>>,
         \A i, j \in DOMAIN q : q[i] = q[j] => i = j
  PROVE  /\ Head(q) \notin Range(Tail(q))
         /\ \A i, j \in DOMAIN Tail(q) : Tail(q)[i] = Tail(q)[j] => i = j
<1>1. Head(q) \in S /\ Tail(q) \in Seq(S) /\ Len(q) \in Nat \ {0}
  BY HeadTailProperties, EmptySeq
<1>2. Head(q) = q[1] /\ Len(Tail(q)) = Len(q) - 1
      /\ \A i \in 1 .. Len(q) - 1 : Tail(q)[i] = q[i + 1]
  BY <1>1
<1>3. DOMAIN q = 1 .. Len(q) /\ DOMAIN Tail(q) = 1 .. Len(q) - 1
  BY <1>1, <1>2
<1>4. \A i \in 1 .. Len(q) - 1 : i + 1 \in 1 .. Len(q) /\ i + 1 # 1
  BY <1>1
<1>5. 1 \in 1 .. Len(q)
  BY <1>1
<1>6. Head(q) \notin Range(Tail(q))
  BY <1>2, <1>3, <1>4, <1>5 DEF Range
<1>7. ASSUME NEW i \in 1 .. Len(q) - 1, NEW j \in 1 .. Len(q) - 1,
             Tail(q)[i] = Tail(q)[j]
      PROVE  i = j
  <2>1. i + 1 = j + 1
    BY <1>2, <1>3, <1>4, <1>7
  <2> QED BY <1>1, <2>1
<1> QED BY <1>3, <1>6, <1>7


\* While Redis keeps its list, a task stays in one place.
LEMMA OnceStep ==
  ASSUME TypeOK, WorkerInv, OriginInv, AtMostOnce, [Next]_vars
  PROVE  AtMostOnce'
<1> USE DEF AtMostOnce, TypeOK, WorkerInv, EnqueueSteps, history, requests, worker, redis, database
<1>1. ASSUME NEW r \in Requests, NEW t \in Transmutations, CreateCommit(r, t)
      PROVE  AtMostOnce'
  BY <1>1 DEF CreateCommit, SaveRow, Future
<1>2. ASSUME NEW r \in Requests, NEW t \in Transmutations, NEW o \in {"edit", "delete"}, Find(r, o, t)
      PROVE  AtMostOnce'
  BY <1>2 DEF Find, Future
<1>3. ASSUME NEW r \in Requests, EditSave(r)
      PROVE  AtMostOnce'
  BY <1>3 DEF EditSave, SaveRow, Future
<1>4. ASSUME NEW r \in Requests, DeleteRow(r)
      PROVE  AtMostOnce'
  BY <1>4 DEF DeleteRow, Future
<1>5. ASSUME NEW r \in Requests, Reject(r)
      PROVE  AtMostOnce'
  BY <1>5 DEF Reject, Future
<1>6. ASSUME NEW r \in Requests, Enqueue(r)
      PROVE  AtMostOnce'
  <2>1. TaskOf(pc[r], r) \in Task /\ TaskOf(pc[r], r).by = r /\ TaskOf(pc[r], r).job = pc[r]
    BY <1>6, TaskType DEF Enqueue
  <2>2. \A q \in Requests : q # r => Future(q)' = Future(q) /\ TaskOf(pc[r], r) \notin Future(q)
    BY <1>6, <2>1 DEF Enqueue, Future
  <2>3. Future(r)' \subseteq Future(r) /\ TaskOf(pc[r], r) \in Future(r) \ Future(r)'
    <3>1. CASE pc[r] = "process"
      BY <1>6, <2>1, <3>1 DEF Enqueue, Future, OnSuccess
    <3>2. CASE pc[r] = "process_error"
      BY <1>6, <2>1, <3>2 DEF Enqueue, Future, OnSuccess
    <3>3. CASE pc[r] = "audit"
      BY <1>6, <2>1, <3>3 DEF Enqueue, Future, OnSuccess
    <3>4. CASE pc[r] = "audit_error"
      BY <1>6, <2>1, <3>4 DEF Enqueue, Future, OnSuccess
    <3> QED BY <1>6, <3>1, <3>2, <3>3, <3>4 DEF Enqueue
  <2>4. Range(queue') \subseteq Range(queue) \cup {TaskOf(pc[r], r)}
    BY <1>6, EnqueuedType DEF Enqueue
  <2>5. ASSUME ~restored
        PROVE  \A i, j \in DOMAIN queue' : queue'[i] = queue'[j] => i = j
    <3>1. \A i, j \in DOMAIN Append(queue, TaskOf(pc[r], r)) :
            Append(queue, TaskOf(pc[r], r))[i] = Append(queue, TaskOf(pc[r], r))[j] => i = j
      <4>1. TaskOf(pc[r], r) \notin Range(queue)
        BY <2>3, <2>5
      <4>2. queue \in Seq(Task) /\ \A i, j \in DOMAIN queue : queue[i] = queue[j] => i = j
        BY <2>5
      <4> QED BY <2>1, <4>1, <4>2, InjectiveAppend
    <3> QED BY <1>6, <2>5, <3>1 DEF Enqueue
  <2>6. UNCHANGED <<restored, inHand, settled>>
    BY <1>6 DEF Enqueue
  <2> QED
    BY <2>2, <2>3, <2>4, <2>5, <2>6
<1>7. ASSUME NEW r \in Requests, EnqueueFails(r)
      PROVE  AtMostOnce'
  <2>1. TaskOf(pc[r], r) \in Task /\ TaskOf(pc[r], r).by = r /\ TaskOf(pc[r], r).job = pc[r]
    BY <1>7, TaskType DEF EnqueueFails
  <2>2. \A q \in Requests : q # r => Future(q)' = Future(q) /\ TaskOf(pc[r], r) \notin Future(q)
    BY <1>7, <2>1 DEF EnqueueFails, Future
  <2>3. Future(r)' \subseteq Future(r) /\ TaskOf(pc[r], r) \in Future(r) \ Future(r)'
    <3>1. CASE pc[r] = "process"
      BY <1>7, <2>1, <3>1 DEF EnqueueFails, Future, OnError
    <3>2. CASE pc[r] = "process_error"
      BY <1>7, <2>1, <3>2 DEF EnqueueFails, Future, OnError
    <3>3. CASE pc[r] = "audit"
      BY <1>7, <2>1, <3>3 DEF EnqueueFails, Future, OnError
    <3>4. CASE pc[r] = "audit_error"
      BY <1>7, <2>1, <3>4 DEF EnqueueFails, Future, OnError
    <3> QED BY <1>7, <3>1, <3>2, <3>3, <3>4 DEF EnqueueFails
  <2>4. Range(queue') \subseteq Range(queue) \cup {TaskOf(pc[r], r)}
    BY <1>7, EnqueuedType DEF EnqueueFails
  <2>5. ASSUME ~restored
        PROVE  \A i, j \in DOMAIN queue' : queue'[i] = queue'[j] => i = j
    <3>1. \A i, j \in DOMAIN Append(queue, TaskOf(pc[r], r)) :
            Append(queue, TaskOf(pc[r], r))[i] = Append(queue, TaskOf(pc[r], r))[j] => i = j
      <4>1. TaskOf(pc[r], r) \notin Range(queue)
        BY <2>3, <2>5
      <4>2. queue \in Seq(Task) /\ \A i, j \in DOMAIN queue : queue[i] = queue[j] => i = j
        BY <2>5
      <4> QED BY <2>1, <4>1, <4>2, InjectiveAppend
    <3> QED BY <1>7, <2>5, <3>1 DEF EnqueueFails
  <2>6. UNCHANGED <<restored, inHand, settled>>
    BY <1>7 DEF EnqueueFails
  <2> QED
    BY <2>2, <2>3, <2>4, <2>5, <2>6
<1>8. ASSUME NEW r \in Requests, EnqueueHangs(r)
      PROVE  AtMostOnce'
  <2>1. TaskOf(pc[r], r) \in Task /\ TaskOf(pc[r], r).by = r /\ TaskOf(pc[r], r).job = pc[r]
    BY <1>8, TaskType DEF EnqueueHangs
  <2>2. \A q \in Requests : q # r => Future(q)' = Future(q) /\ TaskOf(pc[r], r) \notin Future(q)
    BY <1>8, <2>1 DEF EnqueueHangs, Future
  <2>3. Future(r)' \subseteq Future(r) /\ TaskOf(pc[r], r) \in Future(r) \ Future(r)'
    <3>1. CASE pc[r] = "process"
      BY <1>8, <2>1, <3>1 DEF EnqueueHangs, Future
    <3>2. CASE pc[r] = "process_error"
      BY <1>8, <2>1, <3>2 DEF EnqueueHangs, Future
    <3>3. CASE pc[r] = "audit"
      BY <1>8, <2>1, <3>3 DEF EnqueueHangs, Future
    <3>4. CASE pc[r] = "audit_error"
      BY <1>8, <2>1, <3>4 DEF EnqueueHangs, Future
    <3> QED BY <1>8, <3>1, <3>2, <3>3, <3>4 DEF EnqueueHangs
  <2>4. Range(queue') \subseteq Range(queue) \cup {TaskOf(pc[r], r)}
    BY <1>8, EnqueuedType DEF EnqueueHangs
  <2>5. ASSUME ~restored
        PROVE  \A i, j \in DOMAIN queue' : queue'[i] = queue'[j] => i = j
    <3>1. \A i, j \in DOMAIN Append(queue, TaskOf(pc[r], r)) :
            Append(queue, TaskOf(pc[r], r))[i] = Append(queue, TaskOf(pc[r], r))[j] => i = j
      <4>1. TaskOf(pc[r], r) \notin Range(queue)
        BY <2>3, <2>5
      <4>2. queue \in Seq(Task) /\ \A i, j \in DOMAIN queue : queue[i] = queue[j] => i = j
        BY <2>5
      <4> QED BY <2>1, <4>1, <4>2, InjectiveAppend
    <3> QED BY <1>8, <2>5, <3>1 DEF EnqueueHangs
  <2>6. UNCHANGED <<restored, inHand, settled>>
    BY <1>8 DEF EnqueueHangs
  <2> QED
    BY <2>2, <2>3, <2>4, <2>5, <2>6
<1>9. ASSUME NEW r \in Requests, Announce(r)
      PROVE  AtMostOnce'
  BY <1>9 DEF Announce, Future
<1>10. CASE Pop
  <2>1. ASSUME ~restored
        PROVE  /\ Head(queue) \notin Range(Tail(queue))
               /\ \A i, j \in DOMAIN Tail(queue) : Tail(queue)[i] = Tail(queue)[j] => i = j
    BY <1>10, <2>1, InjectiveTail DEF Pop
  <2>2. Range(queue) = {Head(queue)} \cup Range(Tail(queue))
    BY <1>10, RangeOfTail DEF Pop
  <2>3. \A q \in Requests : Future(q)' = Future(q)
    BY <1>10 DEF Pop, Future
  <2> QED
    BY <1>10, <2>1, <2>2, <2>3 DEF Pop
<1>11. CASE PopLost
  <2>1. ASSUME ~restored
        PROVE  /\ Head(queue) \notin Range(Tail(queue))
               /\ \A i, j \in DOMAIN Tail(queue) : Tail(queue)[i] = Tail(queue)[j] => i = j
    BY <1>11, <2>1, InjectiveTail DEF PopLost
  <2>2. Range(queue) = {Head(queue)} \cup Range(Tail(queue))
    BY <1>11, RangeOfTail DEF PopLost
  <2>3. \A q \in Requests : Future(q)' = Future(q)
    BY <1>11 DEF PopLost, Future
  <2> QED
    BY <1>11, <2>1, <2>2, <2>3 DEF PopLost
<1>12. CASE HandleAudit
  BY <1>12 DEF HandleAudit, Finish, Future
<1>13. CASE AuditProcessed
  BY <1>13 DEF AuditProcessed, Finish, Future
<1>14. CASE RecordError
  BY <1>14 DEF RecordError, Finish, Future
<1>15. ASSUME NEW t \in Transmutations, RowMissing(t)
      PROVE  AtMostOnce'
  BY <1>15 DEF RowMissing, Future
<1>16. ASSUME NEW t \in Transmutations, AlreadyCompleted(t)
      PROVE  AtMostOnce'
  BY <1>16 DEF AlreadyCompleted, Finish, Future
<1>17. ASSUME NEW t \in Transmutations, Load(t)
      PROVE  AtMostOnce'
  BY <1>17 DEF Load, Future
<1>18. ASSUME NEW t \in Transmutations, SaveStatus(t)
      PROVE  AtMostOnce'
  BY <1>18 DEF SaveStatus, SaveRow, StatusSaved, AfterSave, Future
<1>19. ASSUME NEW t \in Transmutations, WorkerAnnounce(t)
      PROVE  AtMostOnce'
  BY <1>19 DEF WorkerAnnounce, AfterAnnounce, Future
<1>20. CASE WorkerDbError
  BY <1>20 DEF WorkerDbError, Fault, Future
<1>21. CASE BackendCrash
  BY <1>21 DEF BackendCrash, Fault, Future
<1>22. CASE RedisSave
  BY <1>22 DEF RedisSave, Future
<1>23. CASE RedisRestart
  BY <1>23 DEF RedisRestart, Fault, Future
<1>24. CASE UNCHANGED vars
  BY <1>24 DEF vars, Future
<1> QED
  BY <1>1, <1>2, <1>3, <1>4, <1>5, <1>6, <1>7, <1>8, <1>9, <1>10, <1>11, <1>12, <1>13,
     <1>14, <1>15, <1>16, <1>17, <1>18, <1>19, <1>20, <1>21, <1>22, <1>23, <1>24
     DEF Next, Arrive, Proceed, Work, Failure

LEMMA InitInv == Init => Inv
<1> SUFFICES ASSUME Init PROVE Inv
  OBVIOUS
<1>1. TypeOK
  BY InitTypeOK
<1>2. Range(queue) = {} /\ Range(saved) = {}
  BY DEF Init, Range
<1>3. \A r \in Requests : pc[r] = "idle"
  BY DEF Init
<1>4. WorkerInv /\ OriginInv
  BY <1>2, <1>3 DEF Init, WorkerInv, OriginInv
<1>5. CreatorInv
  <2>1. \A t \in Transmutations : row[t].life = "absent" => row[t].status = "PENDING"
    BY DEF Init
  <2> QED BY <1>3, <2>1 DEF CreatorInv, Committed, EnqueueSteps
<1>6. ExecutedInv
  BY DEF Init, ExecutedInv, ExecutedAs, Executed
<1>7. NothingForgotten
  BY <1>3, TaskType DEF NothingForgotten, Owed, Committed, EnqueueSteps
<1>8. ChangeWillBeAnnounced /\ SettledLeavesTrace /\ UncompletedInv
  BY DEF Init, ChangeWillBeAnnounced, SettledLeavesTrace, UncompletedInv, Processing
<1>9. TraceInv
  BY <1>3 DEF TraceInv, TracedOnce, Committed, EnqueueSteps
<1>10. AtMostOnce
  BY <1>2 DEF Init, AtMostOnce
<1> QED
  BY <1>1, <1>4, <1>5, <1>6, <1>7, <1>8, <1>9, <1>10 DEF Inv

LEMMA NextInv == Inv /\ [Next]_vars => Inv'
BY NextTypeOK, WorkerStep, OriginStep, CreatorStep, ExecutedStep, ForgottenStep,
   AnnouncedStep, UncompletedStep, TraceStep, SettledStep, OnceStep DEF Inv

-----------------------------------------------------------------------------
(* What has not been enqueued yet has been nowhere.                           *)

\* What Future consists of, step by step.
LEMMA FutureFacts ==
  ASSUME NEW r \in Requests
  PROVE  /\ Future(r) \subseteq Task /\ \A t \in Future(r) : t.by = r
         /\ pc[r] \in EnqueueSteps => TaskOf(pc[r], r) \in Future(r)
         /\ pc[r] \in {"idle", "read"} => Future(r) = {t \in Task : t.by = r}
         /\ Carried(r) \subseteq Future(r)
<1>1. Future(r) \subseteq Task /\ \A t \in Future(r) : t.by = r
  BY DEF Future
<1>2. pc[r] \in {"idle", "read"} => Future(r) = {t \in Task : t.by = r}
  BY DEF Future, Task
<1>3. CASE pc[r] = "process"
  BY <1>1, <1>2, <1>3, TaskType DEF Future, Carried, EnqueueSteps
<1>4. CASE pc[r] = "process_error"
  BY <1>1, <1>2, <1>4, TaskType DEF Future, Carried, EnqueueSteps
<1>5. CASE pc[r] = "audit"
  BY <1>1, <1>2, <1>5, TaskType DEF Future, Carried, EnqueueSteps
<1>6. CASE pc[r] = "audit_error"
  BY <1>1, <1>2, <1>6, TaskType DEF Future, Carried, EnqueueSteps
<1>7. CASE pc[r] \notin EnqueueSteps
  BY <1>1, <1>2, <1>7 DEF Carried, EnqueueSteps
<1> QED
  BY <1>3, <1>4, <1>5, <1>6, <1>7 DEF EnqueueSteps

\* A step on which no request gets more to enqueue, and no task of its future is
\* enqueued, executed or hit.
LEMMA FreshKept ==
  ASSUME FreshInv,
         \A q \in Requests : Future(q)' \subseteq Future(q),
         \A q \in Requests : Places' \cap Future(q)' \subseteq Places
  PROVE  FreshInv'
BY DEF FreshInv

\* The worker, Redis and their failures move tasks from place to place.
LEMMA PlacesKept ==
  ASSUME TypeOK, Work \/ PopLost \/ WorkerDbError \/ RedisSave \/ RedisRestart
  PROVE  pc' = pc /\ Places' \subseteq Places
<1> USE DEF Places, TypeOK, history, requests, worker, redis, database
<1>1. CASE Pop
  BY <1>1, RangeOfTail DEF Pop
<1>2. CASE PopLost
  BY <1>2, RangeOfTail DEF PopLost
<1>3. CASE HandleAudit \/ AuditProcessed \/ RecordError
  BY <1>3 DEF HandleAudit, AuditProcessed, RecordError, Finish
<1>4. ASSUME NEW t \in Transmutations,
             RowMissing(t) \/ AlreadyCompleted(t) \/ Load(t) \/ SaveStatus(t) \/ WorkerAnnounce(t)
      PROVE  pc' = pc /\ Places' \subseteq Places
  BY <1>4 DEF RowMissing, AlreadyCompleted, Load, SaveStatus, WorkerAnnounce, Finish
<1>5. CASE WorkerDbError
  BY <1>5 DEF WorkerDbError
<1>6. CASE RedisSave \/ RedisRestart
  BY <1>6 DEF RedisSave, RedisRestart
<1> QED
  BY <1>1, <1>2, <1>3, <1>4, <1>5, <1>6 DEF Work

\* The task a request tries to enqueue leaves its future, whatever comes of it.
LEMMA TriedFacts ==
  ASSUME TypeOK, NEW r \in Requests, Enqueue(r) \/ EnqueueFails(r) \/ EnqueueHangs(r)
  PROVE  /\ pc[r] \in EnqueueSteps /\ TaskOf(pc[r], r) \in Future(r)
         /\ \A q \in Requests \ {r} : Future(q)' = Future(q)
         /\ Future(r)' \subseteq Future(r) \ {TaskOf(pc[r], r)}
         /\ EnqueueHangs(r) => Future(r)' = {}
<1>1. pc[r] \in EnqueueSteps /\ pc \in [Requests -> RequestSteps]
  BY DEF Enqueue, EnqueueFails, EnqueueHangs, TypeOK
<1>2. TaskOf(pc[r], r) \in Future(r) /\ TaskOf(pc[r], r).job = pc[r]
  BY <1>1, FutureFacts, TaskType
<1>3. \/ pc' = [pc EXCEPT ![r] = OnSuccess[pc[r]]] /\ ~EnqueueHangs(r)
      \/ pc' = [pc EXCEPT ![r] = OnError[pc[r]]] /\ ~EnqueueHangs(r)
      \/ pc' = [pc EXCEPT ![r] = "hung"]
  BY DEF Enqueue, EnqueueFails, EnqueueHangs
<1>4. \A q \in Requests \ {r} : Future(q)' = Future(q)
  BY <1>1, <1>3 DEF Future
<1>5. CASE pc[r] = "process"
  <2>1. pc'[r] \in {"audit", "process_error", "hung"} /\ (EnqueueHangs(r) => pc'[r] = "hung")
    BY <1>1, <1>3, <1>5 DEF OnSuccess, OnError
  <2> QED
    BY <1>1, <1>2, <1>4, <1>5, <2>1 DEF Future, EnqueueSteps
<1>6. CASE pc[r] = "process_error"
  <2>1. pc'[r] \in {"audit", "hung"} /\ (EnqueueHangs(r) => pc'[r] = "hung")
    BY <1>1, <1>3, <1>6 DEF OnSuccess, OnError
  <2> QED
    BY <1>1, <1>2, <1>4, <1>6, <2>1 DEF Future, EnqueueSteps
<1>7. CASE pc[r] = "audit"
  <2>1. pc'[r] \in {"announce", "audit_error", "hung"} /\ (EnqueueHangs(r) => pc'[r] = "hung")
    BY <1>1, <1>3, <1>7 DEF OnSuccess, OnError
  <2> QED
    BY <1>1, <1>2, <1>4, <1>7, <2>1 DEF Future, EnqueueSteps
<1>8. CASE pc[r] = "audit_error"
  <2>1. pc'[r] \in {"announce", "hung"} /\ (EnqueueHangs(r) => pc'[r] = "hung")
    BY <1>1, <1>3, <1>8 DEF OnSuccess, OnError
  <2> QED
    BY <1>1, <1>2, <1>4, <1>8, <2>1 DEF Future, EnqueueSteps
<1> QED
  BY <1>1, <1>5, <1>6, <1>7, <1>8 DEF EnqueueSteps

\* A request that only moves on, or whose back end dies, tries nothing.
LEMMA FutureShrinks ==
  ASSUME TypeOK, NEW r \in Requests, NEW v \in RequestSteps,
         pc' = [pc EXCEPT ![r] = v],
         \/ pc[r] = "idle" /\ v \in {"process", "read"}
         \/ pc[r] = "read" /\ v \in {"audit", "rejected"}
         \/ pc[r] = "announce" /\ v = "replied"
  PROVE  \A q \in Requests : Future(q)' \subseteq Future(q)
<1>1. pc \in [Requests -> RequestSteps] /\ pc'[r] = v /\ \A q \in Requests \ {r} : pc'[q] = pc[q]
  BY DEF TypeOK
<1>2. \A q \in Requests \ {r} : Future(q)' = Future(q)
  BY <1>1 DEF Future
<1>3. CASE pc[r] \in {"idle", "read"}
  <2>1. Future(r)' \subseteq {t \in Task : t.by = r}
    BY DEF Future
  <2> QED
    BY <1>2, <1>3, <2>1, FutureFacts
<1>4. CASE pc[r] = "announce" /\ v = "replied"
  BY <1>1, <1>2, <1>4 DEF Future
<1> QED
  BY <1>3, <1>4

\* What has not been enqueued stays out of the way of every step.
LEMMA FreshStep ==
  ASSUME TypeOK, FreshInv, [Next]_vars
  PROVE  FreshInv'
<1> USE DEF history, requests, worker, redis, database
<1>1. ASSUME NEW r \in Requests, NEW t \in Transmutations, CreateCommit(r, t)
      PROVE  FreshInv'
  <2>1. /\ pc[r] = "idle" /\ pc' = [pc EXCEPT ![r] = "process"] /\ Places' = Places
        /\ "process" \in RequestSteps
    BY <1>1 DEF CreateCommit, Places, RequestSteps, Committed, EnqueueSteps
  <2>2. \A q \in Requests : Future(q)' \subseteq Future(q)
    BY <2>1, FutureShrinks
  <2> QED
    BY <2>1, <2>2, FreshKept
<1>2. ASSUME NEW r \in Requests, NEW t \in Transmutations, NEW o \in {"edit", "delete"}, Find(r, o, t)
      PROVE  FreshInv'
  <2>1. /\ pc[r] = "idle" /\ pc' = [pc EXCEPT ![r] = "read"] /\ Places' = Places
        /\ "read" \in RequestSteps
    BY <1>2 DEF Find, Places, RequestSteps
  <2>2. \A q \in Requests : Future(q)' \subseteq Future(q)
    BY <2>1, FutureShrinks
  <2> QED
    BY <2>1, <2>2, FreshKept
<1>3. ASSUME NEW r \in Requests, EditSave(r) \/ DeleteRow(r)
      PROVE  FreshInv'
  <2>1. /\ pc[r] = "read" /\ pc' = [pc EXCEPT ![r] = "audit"] /\ Places' = Places
        /\ "audit" \in RequestSteps
    BY <1>3 DEF EditSave, DeleteRow, Places, RequestSteps, Committed, EnqueueSteps
  <2>2. \A q \in Requests : Future(q)' \subseteq Future(q)
    BY <2>1, FutureShrinks
  <2> QED
    BY <2>1, <2>2, FreshKept
<1>4. ASSUME NEW r \in Requests, Reject(r) \/ Announce(r)
      PROVE  FreshInv'
  <2>1. /\ Places' = Places /\ {"rejected", "replied"} \subseteq RequestSteps
        /\ \/ pc[r] = "read" /\ pc' = [pc EXCEPT ![r] = "rejected"]
           \/ pc[r] = "announce" /\ pc' = [pc EXCEPT ![r] = "replied"]
    BY <1>4 DEF Reject, Announce, Places, RequestSteps, Committed
  <2>2. \A q \in Requests : Future(q)' \subseteq Future(q)
    BY <2>1, FutureShrinks
  <2> QED
    BY <2>1, <2>2, FreshKept
<1>5. ASSUME NEW r \in Requests, Enqueue(r) \/ EnqueueFails(r) \/ EnqueueHangs(r)
      PROVE  FreshInv'
  <2>1. /\ pc[r] \in EnqueueSteps /\ TaskOf(pc[r], r) \in Future(r)
        /\ \A q \in Requests \ {r} : Future(q)' = Future(q)
        /\ Future(r)' \subseteq Future(r) \ {TaskOf(pc[r], r)}
        /\ EnqueueHangs(r) => Future(r)' = {}
    BY <1>5, TriedFacts
  <2>2. /\ Places' \subseteq Places \cup {TaskOf(pc[r], r)} \cup Carried(r)
        /\ ~EnqueueHangs(r) => Places' \subseteq Places \cup {TaskOf(pc[r], r)}
    BY <1>5, <2>1, EnqueuedType DEF Enqueue, EnqueueFails, EnqueueHangs, Places
  <2>3. Carried(r) \subseteq Future(r) /\ \A t \in Future(r) : t.by = r
    BY FutureFacts
  <2>4. \A q \in Requests \ {r} : \A t \in Future(q)' : t \in Future(q) /\ t.by = q
    BY <2>1, FutureFacts
  <2>5. \A q \in Requests : Places' \cap Future(q)' \subseteq Places
    BY <2>1, <2>2, <2>3, <2>4
  <2> QED
    BY <2>1, <2>5, FreshKept
<1>6. CASE Work \/ PopLost \/ WorkerDbError \/ RedisSave \/ RedisRestart
  <2>1. pc' = pc /\ Places' \subseteq Places
    BY <1>6, PlacesKept
  <2>2. \A q \in Requests : Future(q)' = Future(q)
    BY <2>1 DEF Future
  <2> QED
    BY <2>1, <2>2, FreshKept
<1>7. CASE BackendCrash
  <2>1. Places' \subseteq Places \cup InHandlers
    BY <1>7 DEF BackendCrash, Places
  <2>2. ASSUME NEW q \in Requests
        PROVE  Future(q)' = {} \/ (Future(q)' = Future(q) /\ Carried(q) = {})
    <3>1. \/ pc'[q] \in {"rejected", "gone"}
          \/ pc'[q] = pc[q] /\ pc[q] \notin EnqueueSteps
      BY <1>7 DEF BackendCrash
    <3> QED
      BY <3>1 DEF Future, Carried, EnqueueSteps
  <2>3. \A t \in InHandlers : t \in Carried(t.by)
    BY DEF InHandlers
  <2>4. \A q \in Requests : \A t \in Future(q) : t.by = q
    BY FutureFacts
  <2>5. \A q \in Requests : Places' \cap Future(q)' \subseteq Places
    BY <2>1, <2>2, <2>3, <2>4
  <2> QED
    BY <2>2, <2>5, FreshKept
<1>8. CASE UNCHANGED vars
  <2>1. Places' = Places /\ \A q \in Requests : Future(q)' = Future(q)
    BY <1>8 DEF vars, Places, Future
  <2> QED
    BY <2>1, FreshKept
<1> QED
  BY <1>1, <1>2, <1>3, <1>4, <1>5, <1>6, <1>7, <1>8 DEF Next, Arrive, Proceed, Failure

-----------------------------------------------------------------------------
(* Handlers, list and worker are a board of jobs.                             *)

\* What a request may still enqueue and does not owe yet is fresh to the board.
LEMMA FreshFacts ==
  ASSUME FreshInv, NEW r \in Requests, NEW t \in Future(r), t \notin Carried(r)
  PROVE  t \in Board!Fresh
<1>1. t \in Task /\ t.by = r /\ t \notin Places
  BY FutureFacts DEF FreshInv
<1>2. t \notin InHandlers
  BY <1>1 DEF InHandlers
<1> QED
  BY <1>1, <1>2 DEF Board!Fresh, Outstanding, Places

\* The handlers of the others carry what they carried.
LEMMA HandlersFacts ==
  ASSUME NEW r \in Requests, \A q \in Requests \ {r} : pc'[q] = pc[q]
  PROVE  /\ Carried(r) \subseteq InHandlers
         /\ InHandlers' = (InHandlers \ Carried(r)) \cup Carried(r)'
<1>1. Carried(r) \subseteq Task /\ \A t \in Carried(r) : t.by = r
  BY FutureFacts
<1>2. Carried(r)' \subseteq Task /\ \A t \in Carried(r)' : t.by = r
  BY TaskType DEF Carried, EnqueueSteps
<1>3. \A q \in Requests \ {r} : Carried(q)' = Carried(q)
  BY DEF Carried
<1>4. \A t \in Task : t.by \in Requests
  BY TaskType
<1>5. \A t : t \in InHandlers <=> t \in Task /\ t \in Carried(t.by)
  BY DEF InHandlers
<1>6. \A t : t \in InHandlers' <=> t \in Task /\ t \in Carried(t.by)'
  BY DEF InHandlers
<1>7. ASSUME NEW t \in Task PROVE t \in InHandlers' <=> t \in (InHandlers \ Carried(r)) \cup Carried(r)'
  <2>1. CASE t.by = r
    BY <1>5, <1>6, <2>1
  <2>2. CASE t.by # r
    BY <1>1, <1>2, <1>3, <1>4, <1>5, <1>6, <2>2
  <2> QED
    BY <2>1, <2>2
<1>8. Carried(r) \subseteq InHandlers
  BY <1>1, <1>5
<1>9. InHandlers' \subseteq Task /\ InHandlers \subseteq Task
  BY DEF InHandlers
<1> QED
  BY <1>2, <1>7, <1>8, <1>9

\* What a request carries at each step.
LEMMA CarriedFacts ==
  ASSUME NEW r \in Requests
  PROVE  /\ pc[r] = "process" => Carried(r) = {TaskOf("process", r), TaskOf("audit", r)}
         /\ pc[r] \in {"process_error", "audit"} => Carried(r) = {TaskOf("audit", r)}
         /\ pc[r] \notin {"process", "process_error", "audit"} => Carried(r) = {}
BY DEF Carried

\* A request that commits puts what it owes on the board.
LEMMA AcceptStep ==
  ASSUME TypeOK, FreshInv, NEW r \in Requests,
         (\E t \in Transmutations : CreateCommit(r, t)) \/ EditSave(r) \/ DeleteRow(r)
  PROVE  Board!Accept
<1>1. /\ pc[r] \in {"idle", "read"} /\ \A q \in Requests \ {r} : pc'[q] = pc[q]
      /\ UNCHANGED <<queue, inHand, settled, dropped, trail, restored>>
  BY DEF CreateCommit, EditSave, DeleteRow, TypeOK, redis, worker
<1>2. Carried(r) = {} /\ Carried(r)' \subseteq Future(r)
  <2>1. Carried(r)' \subseteq Task /\ \A t \in Carried(r)' : t.by = r
    BY TaskType DEF Carried, EnqueueSteps
  <2> QED
    BY <1>1, <2>1, CarriedFacts, FutureFacts
<1>3. Carried(r)' \subseteq Board!Fresh
  BY <1>2, FreshFacts
<1>4. Outstanding' = Outstanding \cup Carried(r)'
  BY <1>1, <1>2, HandlersFacts DEF Outstanding
<1> QED
  BY <1>1, <1>3, <1>4 DEF Board!Accept

\* A request that finds a row, gives up or broadcasts leaves the board alone.
LEMMA RequestAside ==
  ASSUME TypeOK, NEW r \in Requests,
         \/ \E o \in {"edit", "delete"}, t \in Transmutations : Find(r, o, t)
         \/ Reject(r) \/ Announce(r)
  PROVE  UNCHANGED Board!vars
<1>1. /\ pc[r] \in {"idle", "read", "announce"} /\ pc'[r] \in {"read", "rejected", "replied"}
      /\ \A q \in Requests \ {r} : pc'[q] = pc[q]
      /\ UNCHANGED <<queue, inHand, settled, dropped, trail, restored>>
  BY DEF Find, Reject, Announce, TypeOK, redis, worker, database, history
<1>2. Carried(r) = {} /\ Carried(r)' = {}
  BY <1>1 DEF Carried
<1>3. Outstanding' = Outstanding
  BY <1>1, <1>2, HandlersFacts DEF Outstanding
<1> QED
  BY <1>1, <1>3 DEF Board!vars

\* What a request enqueues was on the board, or is a report of a failure, which
\* is new to it.
LEMMA EnqueueStep ==
  ASSUME TypeOK, FreshInv, NEW r \in Requests, Enqueue(r)
  PROVE  Board!Accept
<1> DEFINE k == TaskOf(pc[r], r)
<1>1. /\ pc[r] \in EnqueueSteps /\ pc'[r] = OnSuccess[pc[r]]
      /\ \A q \in Requests \ {r} : pc'[q] = pc[q]
      /\ Range(queue') = Range(queue) \cup {k}
      /\ UNCHANGED <<inHand, settled, dropped, trail, restored>>
  BY EnqueuedType DEF Enqueue, TypeOK, worker, database, history
<1>2. Carried(r)' \subseteq Carried(r) /\ Carried(r) \subseteq Carried(r)' \cup {k}
  <2>1. pc'[r] = IF pc[r] \in {"process", "process_error"} THEN "audit" ELSE "announce"
    BY <1>1 DEF OnSuccess, EnqueueSteps
  <2> QED
    BY <1>1, <2>1 DEF Carried, EnqueueSteps
<1>3. k \in Carried(r) \/ k \in Board!Fresh
  BY TriedFacts, FreshFacts
<1>4. Carried(r) \subseteq InHandlers /\ InHandlers' = (InHandlers \ Carried(r)) \cup Carried(r)'
  BY <1>1, HandlersFacts
<1> HIDE DEF k
<1>5. Outstanding' = Outstanding \cup {k}
  BY <1>1, <1>2, <1>4 DEF Outstanding
<1>6. k \in Outstanding \/ k \in Board!Fresh
  BY <1>3, <1>4 DEF Outstanding
<1> QED
  BY <1>1, <1>5, <1>6 DEF Board!Accept

\* A task that could not be enqueued, or whose handler hangs, is hit.
LEMMA EnqueueFailStep ==
  ASSUME TypeOK, FreshInv, NEW r \in Requests, EnqueueFails(r) \/ EnqueueHangs(r)
  PROVE  Board!Fail
<1> DEFINE k == TaskOf(pc[r], r)
<1>1. /\ pc[r] \in EnqueueSteps /\ \A q \in Requests \ {r} : pc'[q] = pc[q]
      /\ UNCHANGED <<inHand, settled, trail, restored>>
  BY DEF EnqueueFails, EnqueueHangs, TypeOK, worker, database
<1>2. /\ dropped \subseteq dropped' /\ dropped' \subseteq dropped \cup {k} \cup Carried(r)
      /\ Range(queue) \subseteq Range(queue') /\ Range(queue') \subseteq Range(queue) \cup {k}
      /\ k \in Range(queue') \cup dropped'
      /\ EnqueueHangs(r) => Carried(r) \subseteq dropped' \cup {k}
  BY EnqueuedType DEF EnqueueFails, EnqueueHangs
<1>3. /\ Carried(r)' \subseteq Carried(r)
      /\ ~EnqueueHangs(r) => Carried(r) \subseteq Carried(r)' \cup {k}
  <2>1. CASE EnqueueHangs(r)
    <3>1. pc'[r] = "hung"
      BY <2>1 DEF EnqueueHangs, TypeOK
    <3>2. Carried(r)' = {}
      BY <3>1 DEF Carried
    <3> QED
      BY <2>1, <3>2
  <2>2. CASE ~EnqueueHangs(r)
    <3>1. pc'[r] = OnError[pc[r]]
      BY <2>2 DEF EnqueueFails, TypeOK
    <3>2. pc'[r] = CASE pc[r] = "process" -> "process_error"
                     [] pc[r] = "process_error" -> "audit"
                     [] pc[r] = "audit" -> "audit_error"
                     [] OTHER -> "announce"
      BY <1>1, <3>1 DEF OnError, EnqueueSteps
    <3> QED
      BY <1>1, <3>2 DEF Carried, EnqueueSteps
  <2> QED
    BY <2>1, <2>2
<1>4. k \in Carried(r) \/ k \in Board!Fresh
  BY TriedFacts, FreshFacts
<1>5. Carried(r) \subseteq InHandlers /\ InHandlers' = (InHandlers \ Carried(r)) \cup Carried(r)'
  BY <1>1, HandlersFacts
<1> HIDE DEF k
<1>6. dropped' \ dropped \subseteq Outstanding \cup Board!Fresh
  BY <1>2, <1>4, <1>5 DEF Outstanding
<1>7. Outstanding' \ Outstanding \subseteq Board!Fresh
  <2>1. Outstanding' \subseteq Outstanding \cup {k}
    BY <1>1, <1>2, <1>3, <1>5 DEF Outstanding
  <2>2. k \in Outstanding \/ k \in Board!Fresh
    BY <1>4, <1>5 DEF Outstanding
  <2> QED
    BY <2>1, <2>2
<1>8. Outstanding \ Outstanding' \subseteq dropped'
  <2>1. Outstanding \ Outstanding' \subseteq Carried(r) \ (Carried(r)' \cup Range(queue'))
    BY <1>1, <1>2, <1>5 DEF Outstanding
  <2> QED
    BY <1>2, <1>3, <2>1
<1> QED
  BY <1>1, <1>2, <1>6, <1>7, <1>8 DEF Board!Fail

\* The worker takes a task from the list into its hands, or loses it.
LEMMA PopStep ==
  ASSUME TypeOK, WorkerInv, Pop \/ PopLost
  PROVE  [Board!Fail]_(Board!vars)
<1>1. /\ queue # <<>> /\ queue \in Seq(Task) /\ queue' = Tail(queue) /\ inHand = {}
      /\ UNCHANGED <<pc, settled, trail, restored>>
      /\ \/ inHand' = {Head(queue)} /\ UNCHANGED dropped
         \/ dropped' = dropped \cup {Head(queue)} /\ UNCHANGED inHand
  BY DEF Pop, PopLost, TypeOK, WorkerInv, requests, database, history
<1>2. Range(queue) = {Head(queue)} \cup Range(queue')
  BY <1>1, RangeOfTail
<1>3. InHandlers' = InHandlers
  BY <1>1 DEF InHandlers, Carried
<1>4. CASE inHand' = {Head(queue)} /\ UNCHANGED dropped
  <2>1. Outstanding' = Outstanding
    BY <1>1, <1>2, <1>3, <1>4 DEF Outstanding
  <2> QED
    BY <1>1, <1>4, <2>1 DEF Board!vars
<1>5. CASE dropped' = dropped \cup {Head(queue)} /\ UNCHANGED inHand
  <2>1. Outstanding = Outstanding' \cup {Head(queue)}
    BY <1>1, <1>2, <1>3, <1>5 DEF Outstanding
  <2> QED
    BY <1>1, <1>5, <2>1 DEF Board!Fail
<1> QED
  BY <1>1, <1>4, <1>5

\* A task whose dispatch returns leaves the board, unless a restored list names
\* it again.
LEMMA HandFacts ==
  ASSUME TypeOK, WorkerInv, AtMostOnce, NEW k \in inHand, inHand' = {},
         UNCHANGED <<pc, queue>>
  PROVE  /\ inHand = {k} /\ k \in Outstanding
         /\ Outstanding' = Outstanding \ {k} \/ (restored /\ Outstanding' = Outstanding)
<1>1. inHand = {k} /\ k \in Task /\ k.by \in Requests
  BY TaskType DEF WorkerInv, TypeOK
<1>2. Outstanding' = InHandlers \cup Range(queue)
  BY DEF Outstanding, InHandlers, Carried
<1>3. ~restored => k \notin InHandlers \cup Range(queue)
  <2>1. k \in InHandlers => k \in Future(k.by)
    BY <1>1, FutureFacts DEF InHandlers
  <2> QED
    BY <1>1, <2>1 DEF AtMostOnce
<1> QED
  BY <1>1, <1>2, <1>3 DEF Outstanding

\* dispatch returns: with an audit row, or with nothing to do.
LEMMA FinishStep ==
  ASSUME Inv, HandleAudit \/ AuditProcessed \/ RecordError
              \/ \E t \in Transmutations : AlreadyCompleted(t)
  PROVE  [\E k \in Outstanding : Board!Do(k)]_(Board!vars)
<1>1. /\ TypeOK /\ WorkerInv /\ AtMostOnce
      /\ UNCHANGED <<pc, queue, dropped, restored>>
      /\ settled' = settled \cup inHand /\ inHand' = {}
  BY DEF Inv, HandleAudit, AuditProcessed, RecordError, AlreadyCompleted, Finish, requests, redis
<1>2. CASE inHand = {}
  <2>1. settled' = settled /\ trail' = trail
    BY <1>1, <1>2 DEF HandleAudit, AuditProcessed, RecordError, AlreadyCompleted, Finish, Rows
  <2>2. Outstanding' = Outstanding
    BY <1>1, <1>2 DEF Outstanding, InHandlers, Carried
  <2> QED
    BY <1>1, <2>1, <2>2 DEF Board!vars
<1>3. CASE inHand # {}
  <2> PICK k \in inHand : TRUE
    BY <1>3
  <2>1. /\ inHand = {k} /\ k \in Outstanding /\ k \in Task
        /\ Outstanding' = Outstanding \ {k} \/ (restored /\ Outstanding' = Outstanding)
    BY <1>1, HandFacts DEF TypeOK
  <2>2. \/ \E a \in {"registered", "processed", "worker_error"} :
             trail' = trail \cup {[action |-> a, task |-> k]}
        \/ trail' = trail /\ k \in {t \in Task : t.job = "process"}
    <3>1. CASE HandleAudit \/ AuditProcessed \/ RecordError
      <4>1. \E a \in {"registered", "processed", "worker_error"} : trail' = trail \cup Rows(a)
        BY <3>1 DEF HandleAudit, AuditProcessed, RecordError, Finish
      <4>2. \A a : Rows(a) = {[action |-> a, task |-> k]}
        BY <2>1 DEF Rows
      <4> QED
        BY <4>1, <4>2
    <3>2. CASE \E t \in Transmutations : AlreadyCompleted(t)
      BY <2>1, <3>2 DEF AlreadyCompleted, Finish, Processing
    <3> QED
      BY <3>1, <3>2
  <2>3. Board!Do(k)
    BY <1>1, <2>1, <2>2 DEF Board!Do, Board!Remove, Board!Record
  <2> QED
    BY <2>1, <2>3
<1> QED
  BY <1>2, <1>3

\* A statement of the worker fails: it goes on with the task it has, or drops it.
LEMMA WorkerFailStep ==
  ASSUME Inv, WorkerDbError
  PROVE  [Board!Next]_(Board!vars)
<1>1. /\ TypeOK /\ WorkerInv /\ AtMostOnce
      /\ UNCHANGED <<pc, queue, trail, restored>> /\ dropped' = dropped \cup inHand
      /\ \/ UNCHANGED <<inHand, settled>>
         \/ inHand' = {} /\ settled' = settled \cup inHand
  BY DEF Inv, WorkerDbError, requests, redis, database
<1>2. inHand \subseteq Outstanding
  BY DEF Outstanding
<1>3. CASE UNCHANGED <<inHand, settled>>
  <2>1. Outstanding' = Outstanding
    BY <1>1, <1>3 DEF Outstanding, InHandlers, Carried
  <2>2. Board!Fail
    BY <1>1, <1>2, <1>3, <2>1 DEF Board!Fail
  <2> QED
    BY <2>2 DEF Board!Next
<1>4. CASE inHand' = {} /\ settled' = settled \cup inHand /\ inHand # {}
  <2> PICK k \in inHand : TRUE
    BY <1>4
  <2>1. /\ inHand = {k} /\ k \in Outstanding
        /\ Outstanding' = Outstanding \ {k} \/ (restored /\ Outstanding' = Outstanding)
    BY <1>1, <1>4, HandFacts
  <2>2. Board!Do(k)
    BY <1>1, <1>4, <2>1 DEF Board!Do, Board!Remove
  <2> QED
    BY <2>1, <2>2 DEF Board!Next
<1> QED
  BY <1>1, <1>3, <1>4

\* A crash of the back end hits what handlers and worker have; the list stays.
LEMMA CrashStep ==
  ASSUME BackendCrash
  PROVE  Board!Fail
<1>1. /\ dropped' = dropped \cup inHand \cup InHandlers /\ inHand' = {}
      /\ UNCHANGED <<queue, trail, settled, restored>>
  BY DEF BackendCrash, redis, database
<1>2. InHandlers' = {}
  <2>1. \A q \in Requests : pc'[q] \notin EnqueueSteps
    BY DEF BackendCrash, EnqueueSteps
  <2>2. \A q \in Requests : Carried(q)' = {}
    BY <2>1 DEF Carried, EnqueueSteps
  <2> QED
    BY <2>2, TaskType DEF InHandlers
<1>3. Outstanding' \subseteq Outstanding /\ Outstanding \ Outstanding' \subseteq dropped'
  BY <1>1, <1>2 DEF Outstanding
<1>4. dropped' \ dropped \subseteq Outstanding
  BY <1>1 DEF Outstanding
<1> QED
  BY <1>1, <1>3, <1>4 DEF Board!Fail

\* Redis comes back with a list that names only tasks the board knows.
LEMMA RestartStep ==
  ASSUME SavedInv, RedisRestart
  PROVE  Board!Restore
<1>1. /\ queue' = saved /\ dropped' = dropped \cup (Range(queue) \ Range(saved)) /\ restored' = TRUE
      /\ UNCHANGED <<pc, inHand, trail, settled>>
  BY DEF RedisRestart, requests, database
<1>2. InHandlers' = InHandlers
  BY <1>1 DEF InHandlers, Carried
<1>3. /\ Outstanding' \subseteq Outstanding \cup settled \cup dropped
      /\ Outstanding \ Outstanding' \subseteq dropped' /\ dropped' \ dropped \subseteq Outstanding
  BY <1>1, <1>2 DEF Outstanding, SavedInv
<1> QED
  BY <1>1, <1>3 DEF Board!Restore

\* Every step of the pipeline is a step of the board or leaves it as it is.
LEMMA BoardStep ==
  ASSUME Inv, FreshInv, SavedInv, [Next]_vars
  PROVE  [Board!Next]_(Board!vars)
<1> USE DEF Inv
<1>1. ASSUME NEW r \in Requests, Arrive(r) \/ Reject(r) \/ Proceed(r)
      PROVE  [Board!Next]_(Board!vars)
  BY <1>1, AcceptStep, RequestAside, EnqueueStep DEF Arrive, Proceed, Board!Next
<1>2. ASSUME NEW r \in Requests, EnqueueFails(r) \/ EnqueueHangs(r)
      PROVE  [Board!Next]_(Board!vars)
  BY <1>2, EnqueueFailStep DEF Board!Next
<1>3. CASE Pop \/ PopLost
  BY <1>3, PopStep DEF Board!Next
<1>4. CASE HandleAudit \/ AuditProcessed \/ RecordError
           \/ \E t \in Transmutations : AlreadyCompleted(t)
  BY <1>4, FinishStep DEF Board!Next
<1>5. ASSUME \/ \E t \in Transmutations : RowMissing(t) \/ Load(t) \/ SaveStatus(t) \/ WorkerAnnounce(t)
             \/ RedisSave \/ UNCHANGED vars
      PROVE  [Board!Next]_(Board!vars)
  <2>1. UNCHANGED <<pc, queue, inHand, settled, dropped, trail, restored>>
    BY <1>5 DEF RowMissing, Load, SaveStatus, WorkerAnnounce, RedisSave, vars, requests, redis,
                worker, database, history
  <2>2. Outstanding' = Outstanding
    BY <2>1 DEF Outstanding, InHandlers, Carried
  <2> QED
    BY <2>1, <2>2 DEF Board!vars
<1>6. CASE WorkerDbError
  BY <1>6, WorkerFailStep
<1>7. CASE BackendCrash
  BY <1>7, CrashStep DEF Board!Next
<1>8. CASE RedisRestart
  BY <1>8, RestartStep DEF Board!Next
<1> QED
  BY <1>1, <1>2, <1>3, <1>4, <1>5, <1>6, <1>7, <1>8 DEF Next, Work, Failure

\* No step makes the board forget a task it has known.
LEMMA KnownStep ==
  ASSUME [Board!Next]_(Board!vars)
  PROVE  Outstanding \cup settled \cup dropped \subseteq (Outstanding \cup settled \cup dropped)'
<1>1. CASE Board!Accept \/ Board!Fail \/ Board!Restore
  BY <1>1 DEF Board!Accept, Board!Fail, Board!Restore
<1>2. ASSUME NEW k \in Outstanding, Board!Do(k)
      PROVE  Outstanding \cup settled \cup dropped \subseteq (Outstanding \cup settled \cup dropped)'
  BY <1>2 DEF Board!Do, Board!Remove
<1>3. CASE UNCHANGED Board!vars
  BY <1>3 DEF Board!vars
<1> QED
  BY <1>1, <1>2, <1>3 DEF Board!Next

\* A snapshot names what was listed, and that is known.
LEMMA SavedStep ==
  ASSUME Inv, FreshInv, SavedInv, [Next]_vars
  PROVE  SavedInv'
<1>1. Outstanding \cup settled \cup dropped \subseteq (Outstanding \cup settled \cup dropped)'
  BY BoardStep, KnownStep
<1>2. saved' = saved \/ (saved' = queue /\ UNCHANGED <<queue, inHand, settled, dropped>>)
  BY DEF Next, Arrive, Proceed, Work, Failure, CreateCommit, Find, Reject, EditSave, DeleteRow,
         Enqueue, Announce, Pop, HandleAudit, AuditProcessed, RecordError, RowMissing,
         AlreadyCompleted, Load, SaveStatus, WorkerAnnounce, EnqueueFails, EnqueueHangs, PopLost,
         WorkerDbError, BackendCrash, RedisRestart, RedisSave, vars, redis, worker, history
<1>3. CASE saved' = saved
  BY <1>1, <1>3 DEF SavedInv
<1>4. CASE saved' = queue /\ UNCHANGED <<queue, inHand, settled, dropped>>
  BY <1>4 DEF SavedInv, Outstanding
<1> QED
  BY <1>2, <1>3, <1>4

-----------------------------------------------------------------------------
(* Deletion and completion are final.                                         *)

\* A row that is deleted, and of which nobody holds a copy, stays so.
LEMMA GoneStep ==
  ASSUME Inv, NEW u \in Transmutations, Gone(u), [Next]_vars
  PROVE  Gone(u)'
<1> USE DEF Gone, HoldsCopy, Processing, Inv, TypeOK, WorkerInv, history, requests, worker, redis, database
<1>1. ASSUME NEW r \in Requests, NEW t \in Transmutations, CreateCommit(r, t)
      PROVE  Gone(u)'
  BY <1>1, TaskType DEF CreateCommit, SaveRow, OriginInv, Committed
<1>2. ASSUME NEW r \in Requests, NEW t \in Transmutations, NEW o \in {"edit", "delete"}, Find(r, o, t)
      PROVE  Gone(u)'
  BY <1>2, TaskType DEF Find, Visible, OriginInv, Committed
<1>3. ASSUME NEW r \in Requests, EditSave(r)
      PROVE  Gone(u)'
  BY <1>3 DEF EditSave, SaveRow
<1>4. ASSUME NEW r \in Requests, DeleteRow(r)
      PROVE  Gone(u)'
  BY <1>4 DEF DeleteRow
<1>5. ASSUME NEW r \in Requests, Reject(r)
      PROVE  Gone(u)'
  BY <1>5 DEF Reject
<1>6. ASSUME NEW r \in Requests, Enqueue(r)
      PROVE  Gone(u)'
  BY <1>6, EnqueuedType DEF Enqueue, EnqueueSteps, OnSuccess
<1>7. ASSUME NEW r \in Requests, EnqueueFails(r)
      PROVE  Gone(u)'
  BY <1>7, EnqueuedType DEF EnqueueFails, Fault, EnqueueSteps, OnError
<1>8. ASSUME NEW r \in Requests, EnqueueHangs(r)
      PROVE  Gone(u)'
  BY <1>8, EnqueuedType DEF EnqueueHangs, Fault, EnqueueSteps
<1>9. ASSUME NEW r \in Requests, Announce(r)
      PROVE  Gone(u)'
  BY <1>9 DEF Announce
<1>10. CASE Pop
  BY <1>10, RangeOfTail DEF Pop
<1>11. CASE PopLost
  BY <1>11, RangeOfTail DEF PopLost, Fault
<1>12. CASE HandleAudit
  BY <1>12 DEF HandleAudit, Finish
<1>13. CASE AuditProcessed
  BY <1>13 DEF AuditProcessed, Finish
<1>14. CASE RecordError
  BY <1>14 DEF RecordError, Finish
<1>15. ASSUME NEW t \in Transmutations, RowMissing(t)
      PROVE  Gone(u)'
  BY <1>15 DEF RowMissing
<1>16. ASSUME NEW t \in Transmutations, AlreadyCompleted(t)
      PROVE  Gone(u)'
  BY <1>16 DEF AlreadyCompleted, Finish
<1>17. ASSUME NEW t \in Transmutations, Load(t)
      PROVE  Gone(u)'
  BY <1>17 DEF Load, Visible
<1>18. ASSUME NEW t \in Transmutations, SaveStatus(t)
      PROVE  Gone(u)'
  BY <1>18 DEF SaveStatus, SaveRow, StatusSaved, AfterSave
<1>19. ASSUME NEW t \in Transmutations, WorkerAnnounce(t)
      PROVE  Gone(u)'
  BY <1>19 DEF WorkerAnnounce, AfterAnnounce
<1>20. CASE WorkerDbError
  BY <1>20 DEF WorkerDbError, Fault
<1>21. CASE BackendCrash
  BY <1>21 DEF BackendCrash, Fault
<1>22. CASE RedisSave
  BY <1>22 DEF RedisSave
<1>23. CASE RedisRestart
  BY <1>23 DEF RedisRestart, Fault
<1>24. CASE UNCHANGED vars
  BY <1>24 DEF vars
<1> QED
  BY <1>1, <1>2, <1>3, <1>4, <1>5, <1>6, <1>7, <1>8, <1>9, <1>10, <1>11, <1>12, <1>13,
     <1>14, <1>15, <1>16, <1>17, <1>18, <1>19, <1>20, <1>21, <1>22, <1>23, <1>24
     DEF Next, Arrive, Proceed, Work, Failure

\* A step that is no Edit leaves a completed row COMPLETED.
LEMMA CompletedStep ==
  ASSUME Inv, NEW u \in Transmutations, row[u].status = "COMPLETED", u \notin touched', [Next]_vars
  PROVE  row'[u].status = "COMPLETED"
<1> USE DEF Inv, TypeOK, UncompletedInv, history, requests, worker, redis, database
<1>1. ASSUME NEW r \in Requests, NEW t \in Transmutations, CreateCommit(r, t)
      PROVE  row'[u].status = "COMPLETED"
  BY <1>1 DEF CreateCommit, SaveRow, CreatorInv
<1>2. ASSUME NEW r \in Requests, NEW t \in Transmutations, NEW o \in {"edit", "delete"}, Find(r, o, t)
      PROVE  row'[u].status = "COMPLETED"
  BY <1>2 DEF Find
<1>3. ASSUME NEW r \in Requests, EditSave(r)
      PROVE  row'[u].status = "COMPLETED"
  BY <1>3 DEF EditSave, SaveRow
<1>4. ASSUME NEW r \in Requests, DeleteRow(r)
      PROVE  row'[u].status = "COMPLETED"
  BY <1>4 DEF DeleteRow
<1>5. ASSUME NEW r \in Requests, Reject(r)
      PROVE  row'[u].status = "COMPLETED"
  BY <1>5 DEF Reject
<1>6. ASSUME NEW r \in Requests, Enqueue(r)
      PROVE  row'[u].status = "COMPLETED"
  BY <1>6, EnqueuedType DEF Enqueue
<1>7. ASSUME NEW r \in Requests, EnqueueFails(r)
      PROVE  row'[u].status = "COMPLETED"
  BY <1>7, EnqueuedType DEF EnqueueFails, Fault
<1>8. ASSUME NEW r \in Requests, EnqueueHangs(r)
      PROVE  row'[u].status = "COMPLETED"
  BY <1>8, EnqueuedType DEF EnqueueHangs, Fault
<1>9. ASSUME NEW r \in Requests, Announce(r)
      PROVE  row'[u].status = "COMPLETED"
  BY <1>9 DEF Announce
<1>10. CASE Pop
  BY <1>10, RangeOfTail DEF Pop
<1>11. CASE PopLost
  BY <1>11, RangeOfTail DEF PopLost, Fault
<1>12. CASE HandleAudit
  BY <1>12 DEF HandleAudit, Finish
<1>13. CASE AuditProcessed
  BY <1>13 DEF AuditProcessed, Finish
<1>14. CASE RecordError
  BY <1>14 DEF RecordError, Finish
<1>15. ASSUME NEW t \in Transmutations, RowMissing(t)
      PROVE  row'[u].status = "COMPLETED"
  BY <1>15 DEF RowMissing
<1>16. ASSUME NEW t \in Transmutations, AlreadyCompleted(t)
      PROVE  row'[u].status = "COMPLETED"
  BY <1>16 DEF AlreadyCompleted, Finish
<1>17. ASSUME NEW t \in Transmutations, Load(t)
      PROVE  row'[u].status = "COMPLETED"
  BY <1>17 DEF Load
<1>18. ASSUME NEW t \in Transmutations, SaveStatus(t)
      PROVE  row'[u].status = "COMPLETED"
  BY <1>18 DEF SaveStatus, SaveRow, StatusSaved, AfterSave
<1>19. ASSUME NEW t \in Transmutations, WorkerAnnounce(t)
      PROVE  row'[u].status = "COMPLETED"
  BY <1>19 DEF WorkerAnnounce, AfterAnnounce
<1>20. CASE WorkerDbError
  BY <1>20 DEF WorkerDbError, Fault
<1>21. CASE BackendCrash
  BY <1>21 DEF BackendCrash, Fault
<1>22. CASE RedisSave
  BY <1>22 DEF RedisSave
<1>23. CASE RedisRestart
  BY <1>23 DEF RedisRestart, Fault
<1>24. CASE UNCHANGED vars
  BY <1>24 DEF vars
<1> QED
  BY <1>1, <1>2, <1>3, <1>4, <1>5, <1>6, <1>7, <1>8, <1>9, <1>10, <1>11, <1>12, <1>13,
     <1>14, <1>15, <1>16, <1>17, <1>18, <1>19, <1>20, <1>21, <1>22, <1>23, <1>24
     DEF Next, Arrive, Proceed, Work, Failure

-----------------------------------------------------------------------------
(* The theorems.                                                              *)

\* The state of handlers, list, worker and tables is well formed in every
\* reachable state.
THEOREM TypeCorrect == Spec => []TypeOK
<1>1. Init => TypeOK
  BY InitTypeOK
<1>2. TypeOK /\ [Next]_vars => TypeOK'
  BY NextTypeOK
<1> QED
  BY <1>1, <1>2, PTL DEF Spec

\* The inductive invariant holds in every reachable state.
THEOREM Invariance == Spec => []Inv
<1>1. Init => Inv
  BY InitInv
<1>2. Inv /\ [Next]_vars => Inv'
  BY NextInv
<1> QED
  BY <1>1, <1>2, PTL DEF Spec

\* What a committed operation owes is on its way, executed or hit by a failure.
THEOREM Accounting == Spec => []NothingForgotten
<1>1. Inv => NothingForgotten
  BY DEF Inv
<1> QED
  BY <1>1, Invariance, PTL

\* No change of a row is left without somebody to broadcast it.
THEOREM Announcement == Spec => []ChangeWillBeAnnounced
<1>1. Inv => ChangeWillBeAnnounced
  BY DEF Inv
<1> QED
  BY <1>1, Invariance, PTL

\* Every task the worker is done with left an audit row, was hit by a failure or
\* concerns an edited row.
THEOREM Traces == Spec => []SettledLeavesTrace
<1>1. Inv => SettledLeavesTrace
  BY DEF Inv
<1> QED
  BY <1>1, Invariance, PTL

\* As long as Redis keeps its list, a task is in one place.
THEOREM OnePlace == Spec => []AtMostOnce
<1>1. Inv => AtMostOnce
  BY DEF Inv
<1> QED
  BY <1>1, Invariance, PTL

\* An accepted, unedited transmutation is open only while its task is on its
\* way, in the worker's hands or hit by a failure.
THEOREM OpenRows == Spec => []OpenRowHasTask
<1>1. Inv => OpenRowHasTask
  <2> SUFFICES ASSUME Inv, NEW r \in Requests,
                      pc[r] \in Committed, op[r] = "create",
                      target[r] \notin touched,
                      row[target[r]].life = "live",
                      row[target[r]].status \in {"PENDING", "PROCESSING"},
                      TaskOf("process", r) \notin Outstanding \cup dropped
               PROVE  FALSE
    BY DEF OpenRowHasTask
  <2>1. TaskOf("process", r) \in Owed
    BY TaskOfProcess DEF Owed
  <2>2. TaskOf("process", r) \in settled
    BY <2>1 DEF Inv, NothingForgotten
  <2>3. IsCompleted(row[target[r]].status)
    BY <2>2 DEF Inv, ExecutedInv, ExecutedAs, Executed, Excused
  <2> QED
    BY <2>3 DEF IsCompleted
<1> QED
  BY <1>1, Invariance, PTL

\* A deletion that no copy of the row overlaps is final.
THEOREM FinalDeletion == Spec => DeletionIsFinal
<1>1. Inv /\ [Next]_vars =>
        [\A t \in Transmutations : Gone(t) => Gone(t)']_vars
  BY GoneStep
<1> QED
  BY <1>1, Invariance, PTL DEF Spec, DeletionIsFinal

\* A redelivered task never takes COMPLETED back.
THEOREM FinalCompletion == Spec => CompletionIsFinal
<1>1. Inv /\ [Next]_vars =>
        [\A t \in Transmutations :
           (row[t].status = "COMPLETED" /\ t \notin touched')
             => row'[t].status = "COMPLETED"]_vars
  BY CompletedStep
<1> QED
  BY <1>1, Invariance, PTL DEF Spec, CompletionIsFinal

-----------------------------------------------------------------------------
(* The board of jobs.                                                         *)

\* No task is listed, saved, executed or hit before its handler enqueues it, and
\* a snapshot of Redis names no task of which the back end knows nothing
\* (task_queue.go 185-222, transmutation_handlers.go 122-133).
THEOREM SnapshotIsKnown == Spec => [](FreshInv /\ SavedInv)
<1>1. Init => FreshInv /\ SavedInv
  <2> SUFFICES ASSUME Init PROVE FreshInv /\ SavedInv
    OBVIOUS
  <2>1. Range(queue) = {} /\ Range(saved) = {}
    BY DEF Init, Range
  <2> QED
    BY <2>1 DEF Init, FreshInv, SavedInv, Places
<1>2. Inv /\ FreshInv /\ SavedInv /\ [Next]_vars => FreshInv' /\ SavedInv'
  BY FreshStep, SavedStep DEF Inv
<1> QED
  BY <1>1, <1>2, Invariance, PTL DEF Spec

\* Every step of handlers, Redis list, worker, failures and restarts is a step of
\* the board of jobs or changes nothing on it (task_queue.go 185-322).
THEOREM PipelineImplementsJobs == Spec => JobsAreKept
<1>1. Init => Board!Init
  <2> SUFFICES ASSUME Init PROVE Board!Init
    OBVIOUS
  <2>1. Range(queue) = {} /\ inHand = {} /\ \A r \in Requests : Carried(r) = {}
    BY DEF Init, Range, Carried
  <2>2. Outstanding = {}
    BY <2>1, TaskType DEF Outstanding, InHandlers
  <2> QED
    BY <2>2 DEF Init, Board!Init
<1>2. Inv /\ FreshInv /\ SavedInv /\ [Next]_vars => [Board!Next]_(Board!vars)
  BY BoardStep
<1> QED
  BY <1>1, <1>2, Invariance, SnapshotIsKnown, PTL DEF Spec, JobsAreKept, Board!Spec

\* What a board of jobs keeps, as long as it is not restored.
LEMMA BoardOnce ==
  ASSUME Board!OnceInv, [Board!Next]_(Board!vars)
  PROVE  Board!OnceInv'
<1> USE DEF Board!OnceInv, Board!RecordedOnce
<1>1. CASE Board!Accept \/ Board!Fail
  BY <1>1 DEF Board!Accept, Board!Fail, Board!Fresh
<1>2. CASE Board!Restore
  BY <1>2 DEF Board!Restore
<1>3. ASSUME NEW k \in Outstanding, Board!Do(k)
      PROVE  Board!OnceInv'
  <2>1. CASE trail' = trail
    BY <1>3, <2>1 DEF Board!Do, Board!Remove
  <2>2. CASE Board!Record(k)
    <3>1. PICK a : trail' = trail \cup {[action |-> a, task |-> k]}
      BY <2>2 DEF Board!Record
    <3>2. /\ settled' = settled \cup {k} /\ restored' = restored
          /\ ~restored => Outstanding' = Outstanding \ {k} /\ k \notin settled
      BY <1>3 DEF Board!Do, Board!Remove
    <3>3. \A x \in trail' : x \in trail \/ x = [action |-> a, task |-> k]
      BY <3>1
    <3> QED
      BY <3>2, <3>3
  <2> QED
    BY <1>3, <2>1, <2>2 DEF Board!Do
<1>4. CASE UNCHANGED Board!vars
  BY <1>4 DEF Board!vars
<1> QED
  BY <1>1, <1>2, <1>3, <1>4 DEF Board!Next

\* Unless Redis came back from a snapshot, the worker writes at most one audit row
\* about a task, whatever fails (task_queue.go 201-227, 305-322, 412-428): this
\* follows from the board alone.
THEOREM AuditedOnce == Spec => []Board!RecordedOnce
<1>1. Board!Init => Board!OnceInv
  BY DEF Board!Init, Board!OnceInv, Board!RecordedOnce
<1>2. Board!OnceInv /\ [Board!Next]_(Board!vars) => Board!OnceInv'
  BY BoardOnce
<1>3. Board!OnceInv => Board!RecordedOnce
  BY DEF Board!OnceInv
<1> QED
  BY <1>1, <1>2, <1>3, PipelineImplementsJobs, PTL DEF JobsAreKept, Board!Spec
=============================================================================
