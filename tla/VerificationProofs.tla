-------------------------- MODULE VerificationProofs --------------------------
(* Proofs about Verification, for any rows, any seed and any bounds: what an  *)
(* audit row of the worker reports is true.                                   *)
EXTENDS Verification, SequenceTheorems, TLAPS

-----------------------------------------------------------------------------
(* The initial state satisfies the inductive invariant.                       *)

\* No table has rows, nothing runs, nothing was reported.
LEMMA InitInv == Init => Inv
<1> SUFFICES ASSUME Init PROVE Inv
  OBVIOUS
<1>1. TypeOK
  <2>1. row \in [Rows -> Row] /\ \A r \in Rows : row[r].status = "absent"
    BY DEF Init, Row
  <2>2. list \in Seq({"verification", "other"})
    BY DEF Init
  <2>3. changes \in 0 .. MaxChanges /\ faults \in 0 .. MaxFaults
    BY ConstantsOK DEF Init
  <2> QED
    BY <2>1, <2>2, <2>3 DEF TypeOK, Init
<1>2. ReportInv
  BY DEF Init, ReportInv, Queries
<1>3. ReportedStillWaits
  BY DEF Init, ReportedStillWaits
<1> QED
  BY <1>1, <1>2, <1>3 DEF Inv

-----------------------------------------------------------------------------
(* The rows.                                                                  *)

\* A row that no change of the tables has flipped is a finding if and only if it
\* was one: what is reported or counted of it stays true.
LEMMA RewriteInv ==
  ASSUME Inv, NEW new, Rewrite(new), UNCHANGED <<worker, found>>
  PROVE  ReportInv' /\ ReportedStillWaits'
<1> DEFINE flipped == {r \in Rows : Waits(r, new[r]) # Finding(r)}
<1>1. row' = new /\ touched' = touched \cup flipped /\ reported' = reported \ flipped
  BY DEF Rewrite
<1>2. ASSUME NEW r \in Rows \ flipped
      PROVE  Finding(r)' <=> Finding(r)
  <2>1. Finding(r)' = Waits(r, new[r])
    BY <1>1 DEF Finding
  <2>2. Waits(r, new[r]) = Finding(r)
    OBVIOUS
  <2> QED
    BY <2>1, <2>2
<1>3. Asked' = Asked /\ Asked \subseteq Rows
  BY DEF Asked, Rows
<1> HIDE DEF flipped
<1>4. ReportInv'
  BY <1>1, <1>2, <1>3 DEF Inv, ReportInv
<1>5. ReportedStillWaits'
  BY <1>1, <1>2 DEF Inv, TypeOK, ReportedStillWaits
<1> QED
  BY <1>4, <1>5

\* What neither the tables nor the verification under way do changes no report.
LEMMA Undisturbed ==
  ASSUME Inv, UNCHANGED <<row, touched, reported>>,
         \/ UNCHANGED <<worker, found>>
         \/ worker' \notin Queries \cup {"save"}
  PROVE  ReportInv' /\ ReportedStillWaits'
<1>1. \A r \in Rows : Finding(r)' <=> Finding(r)
  BY DEF Finding
<1>2. ReportedStillWaits'
  BY <1>1 DEF Inv, TypeOK, ReportedStillWaits
<1>3. CASE worker' \notin Queries \cup {"save"}
  BY <1>2, <1>3 DEF ReportInv
<1>4. CASE UNCHANGED <<worker, found>>
  <2>1. Asked' = Asked /\ Asked \subseteq Rows
    BY <1>4 DEF Asked, Rows
  <2> QED
    BY <1>1, <1>2, <1>4, <2>1 DEF Inv, ReportInv
<1> QED
  BY <1>3, <1>4

\* Flipped rows are rows.
LEMMA RewriteTypes ==
  ASSUME Inv, NEW new \in [Rows -> Row], Rewrite(new),
         \A r \in Rows : new[r].status \in Statuses(r) \cup {"absent", "deleted"}
  PROVE  /\ row' \in [Rows -> Row]
         /\ \A r \in Rows : row'[r].status \in Statuses(r) \cup {"absent", "deleted"}
         /\ touched' \subseteq Rows /\ reported' \subseteq Rows
BY DEF Rewrite, Inv, TypeOK

\* A change of one row.
LEMMA ChangeInv ==
  ASSUME Inv, NEW r \in Rows, NEW s \in Statuses(r) \cup {"deleted"}, Change(r, s)
  PROVE  Inv'
<1> DEFINE x == [status |-> s, old |-> r \in Transmutations /\ row[r].old]
           new == [row EXCEPT ![r] = x]
<1>1. /\ Rewrite(new) /\ UNCHANGED <<process, list, faults>>
      /\ changes < MaxChanges /\ changes' = changes + 1
  BY DEF Change
<1>2. new \in [Rows -> Row] /\ \A q \in Rows : new[q].status \in Statuses(q) \cup {"absent", "deleted"}
  <2>1. s \in {"deleted", "PENDING", "PROCESSING", "COMPLETED", "FAILED", "pending",
               "completed", "ARCHIVED", "scarce", "plenty"}
    BY DEF Statuses
  <2>2. row \in [Rows -> Row] /\ row[r].old \in BOOLEAN
    BY DEF Inv, TypeOK, Row
  <2>3. x \in Row /\ x.status = s
    BY <2>1, <2>2 DEF Row
  <2> HIDE DEF x
  <2> QED
    BY <2>2, <2>3 DEF Inv, TypeOK
<1>3. /\ row' \in [Rows -> Row]
      /\ \A q \in Rows : row'[q].status \in Statuses(q) \cup {"absent", "deleted"}
      /\ touched' \subseteq Rows /\ reported' \subseteq Rows
  BY <1>1, <1>2, RewriteTypes
<1>4. changes' \in 0 .. MaxChanges
  BY <1>1, ConstantsOK DEF Inv, TypeOK
<1>5. TypeOK'
  BY <1>1, <1>3, <1>4 DEF Inv, TypeOK, process
<1> QED
  BY <1>1, <1>5, RewriteInv DEF Inv, process

\* A row grows old.
LEMMA AgeInv ==
  ASSUME Inv, NEW r \in Rows, Age(r)
  PROVE  Inv'
<1> DEFINE new == [row EXCEPT ![r].old = TRUE]
<1>1. Rewrite(new) /\ UNCHANGED <<process, list, changes, faults>>
  BY DEF Age
<1>2. new \in [Rows -> Row] /\ \A q \in Rows : new[q].status \in Statuses(q) \cup {"absent", "deleted"}
  BY DEF Inv, TypeOK, Row
<1>3. /\ row' \in [Rows -> Row]
      /\ \A q \in Rows : row'[q].status \in Statuses(q) \cup {"absent", "deleted"}
      /\ touched' \subseteq Rows /\ reported' \subseteq Rows
  BY <1>1, <1>2, RewriteTypes
<1>4. TypeOK'
  BY <1>1, <1>3 DEF Inv, TypeOK, process
<1> QED
  BY <1>1, <1>4, RewriteInv DEF Inv, process

-----------------------------------------------------------------------------
(* The start.                                                                 *)

\* init.sql adds only rows that never existed.
LEMMA InitDBInv ==
  ASSUME Inv, InitDB
  PROVE  Inv'
<1>1. /\ server = "down" /\ server' = "prepared"
      /\ UNCHANGED <<scheduler, tick, worker, found, list, changes>>
  BY DEF InitDB
<1>2. faults' \in 0 .. MaxFaults
  BY ConstantsOK DEF InitDB, Fault, Inv, TypeOK
<1>3. CASE Rewrite(Seeded)
  <2>1. \A r \in Rows : Seeded[r] \in Row /\ Seeded[r].status \in Statuses(r) \cup {"absent", "deleted"}
    BY ConstantsOK DEF Seeded, Inv, TypeOK
  <2>2. Seeded \in [Rows -> Row]
    BY <2>1 DEF Seeded
  <2>3. /\ row' \in [Rows -> Row]
        /\ \A r \in Rows : row'[r].status \in Statuses(r) \cup {"absent", "deleted"}
        /\ touched' \subseteq Rows /\ reported' \subseteq Rows
    BY <1>3, <2>1, <2>2, RewriteTypes
  <2>4. TypeOK'
    BY <1>1, <1>2, <2>3 DEF Inv, TypeOK
  <2> QED
    BY <1>1, <1>3, <2>4, RewriteInv DEF Inv
<1>4. CASE UNCHANGED <<row, history>>
  <2>1. TypeOK'
    BY <1>1, <1>2, <1>4 DEF Inv, TypeOK, history
  <2> QED
    BY <1>1, <1>4, <2>1, Undisturbed DEF Inv, history
<1> QED
  BY <1>3, <1>4 DEF InitDB

\* Starting, or failing to, writes no row and reports none.
LEMMA StartInv ==
  ASSUME Inv, StartQueue \/ StartFails \/ StartHangs \/ Serve
  PROVE  Inv'
<1>1. faults' \in 0 .. MaxFaults
  BY ConstantsOK DEF StartQueue, StartFails, StartHangs, Serve, Fault, Inv, TypeOK
<1>2. UNCHANGED <<row, found, list, changes, touched, reported>>
  BY DEF StartQueue, StartFails, StartHangs, Serve, history
<1>3. CASE StartQueue
  <2>1. TypeOK'
    BY <1>1, <1>2, <1>3 DEF StartQueue, Inv, TypeOK
  <2>2. worker' \notin Queries \cup {"save"}
    BY <1>3 DEF StartQueue, Queries
  <2> QED
    BY <1>2, <2>1, <2>2, Undisturbed DEF Inv
<1>4. CASE StartFails \/ StartHangs \/ Serve
  <2>1. TypeOK'
    BY <1>1, <1>2, <1>4 DEF StartFails, StartHangs, Serve, FirstStep, Inv, TypeOK
  <2>2. UNCHANGED worker
    BY <1>4 DEF StartFails, StartHangs, Serve
  <2> QED
    BY <1>2, <2>1, <2>2, Undisturbed DEF Inv
<1> QED
  BY <1>3, <1>4

\* A crash forgets the verification under way.
LEMMA CrashInv ==
  ASSUME Inv, Crash
  PROVE  Inv'
<1>1. faults' \in 0 .. MaxFaults
  BY ConstantsOK DEF Crash, Fault, Inv, TypeOK
<1>2. TypeOK'
  BY <1>1 DEF Crash, Inv, TypeOK, history
<1>3. worker' \notin Queries \cup {"save"} /\ UNCHANGED <<row, touched, reported>>
  BY DEF Crash, Queries, history
<1> QED
  BY <1>2, <1>3, Undisturbed DEF Inv

-----------------------------------------------------------------------------
(* The scheduler and the list.                                                *)

\* The list keeps its type whoever appends to it.
LEMMA PushedType ==
  ASSUME Inv, NEW task \in {"verification", "other"}
  PROVE  Pushed(task) \in Seq({"verification", "other"})
BY AppendProperties DEF Inv, TypeOK, Pushed

\* Neither ticks nor tasks change what the worker has counted.
LEMMA ScheduleInv ==
  ASSUME Inv, Tick \/ TakeTick \/ Enqueue \/ EnqueueFails \/ EnqueueHangs
              \/ EnqueueOther \/ RedisRestored
  PROVE  Inv'
<1>1. UNCHANGED <<row, server, worker, found, changes, touched, reported>>
  BY DEF Tick, TakeTick, Enqueue, EnqueueFails, EnqueueHangs, EnqueueOther, RedisRestored,
         process, history
<1>2. faults' \in 0 .. MaxFaults
  BY ConstantsOK DEF Tick, TakeTick, Enqueue, EnqueueFails, EnqueueHangs, EnqueueOther,
                     RedisRestored, Fault, Inv, TypeOK
<1>3. list' \in Seq({"verification", "other"})
  <2>1. \/ list' \in {list, Pushed("verification"), Pushed("other")}
        \/ list' \in {<<>>, <<"verification">>, <<"other">>}
    BY DEF Tick, TakeTick, Enqueue, EnqueueFails, EnqueueHangs, EnqueueOther, RedisRestored
  <2>2. /\ <<>> \in Seq({"verification", "other"})
        /\ <<"verification">> \in Seq({"verification", "other"})
        /\ <<"other">> \in Seq({"verification", "other"})
    OBVIOUS
  <2> QED
    BY <2>1, <2>2, PushedType DEF Inv, TypeOK
<1>4. tick' \in BOOLEAN
  BY DEF Tick, TakeTick, Enqueue, EnqueueFails, EnqueueHangs, EnqueueOther, RedisRestored,
         process, Inv, TypeOK
<1>5. /\ scheduler' \in {"none", "enqueue", "select", "stuck"}
      /\ scheduler' = "none" <=> scheduler = "none"
  BY DEF Tick, TakeTick, Enqueue, EnqueueFails, EnqueueHangs, EnqueueOther, RedisRestored,
         AfterEnqueue, process, Inv, TypeOK
<1>6. TypeOK'
  BY <1>1, <1>2, <1>3, <1>4, <1>5 DEF Inv, TypeOK
<1> QED
  BY <1>1, <1>6, Undisturbed DEF Inv

-----------------------------------------------------------------------------
(* The worker.                                                                *)

\* A verification begins with no details.
LEMMA PopInv ==
  ASSUME Inv, Pop
  PROVE  Inv'
<1>1. /\ worker = "pop" /\ list # <<>> /\ list' = Tail(list)
      /\ UNCHANGED <<row, server, scheduler, tick, changes, faults, reported>>
  BY DEF Pop
<1>2. list' \in Seq({"verification", "other"})
  BY <1>1, HeadTailProperties DEF Inv, TypeOK
<1>3. CASE worker' = "transmutations" /\ found' = NoDetails /\ touched' = {}
  <2>1. TypeOK'
    BY <1>1, <1>2, <1>3 DEF Inv, TypeOK, NoDetails, Queries
  <2>2. ReportInv'
    BY <1>3 DEF ReportInv, Asked, NoDetails
  <2>3. ReportedStillWaits'
    BY <1>1 DEF Inv, ReportedStillWaits, Finding
  <2> QED
    BY <2>1, <2>2, <2>3 DEF Inv
<1>4. CASE worker' = "other" /\ UNCHANGED <<found, touched>>
  <2>1. TypeOK'
    BY <1>1, <1>2, <1>4 DEF Inv, TypeOK
  <2>2. worker' \notin Queries \cup {"save"}
    BY <1>4 DEF Queries
  <2> QED
    BY <1>1, <1>4, <2>1, <2>2, Undisturbed DEF Inv
<1> QED
  BY <1>3, <1>4 DEF Pop

\* A call of BRPOP that fails starts no verification.
LEMMA PopFaultInv ==
  ASSUME Inv, PopFails \/ PopHangs
  PROVE  Inv'
<1>1. /\ UNCHANGED <<row, server, scheduler, tick, found, changes, touched, reported>>
      /\ worker = "pop" /\ worker' \in {"pop", "stuck"}
      /\ list' = list \/ (list # <<>> /\ list' = Tail(list))
  BY DEF PopFails, PopHangs, process, history
<1>2. list' \in Seq({"verification", "other"})
  BY <1>1, HeadTailProperties DEF Inv, TypeOK
<1>3. faults' \in 0 .. MaxFaults
  BY ConstantsOK DEF PopFails, PopHangs, Fault, Inv, TypeOK
<1>4. TypeOK'
  BY <1>1, <1>2, <1>3 DEF Inv, TypeOK
<1>5. worker' \notin Queries \cup {"save"}
  BY <1>1 DEF Queries
<1> QED
  BY <1>1, <1>4, <1>5, Undisturbed DEF Inv

\* What is not the middle of a verification reports nothing.
LEMMA WorkInv ==
  ASSUME Inv, OtherDone \/ StatementFails \/ RecordError
  PROVE  Inv'
<1>1. /\ UNCHANGED <<row, server, scheduler, tick, found, list, changes, touched, reported>>
      /\ worker \in {"other", "record", "save"} \cup Queries /\ worker' \in {"pop", "record"}
  BY DEF OtherDone, StatementFails, RecordError, history
<1>2. faults' \in 0 .. MaxFaults
  BY ConstantsOK DEF OtherDone, StatementFails, RecordError, Fault, Inv, TypeOK
<1>3. TypeOK'
  BY <1>1, <1>2 DEF Inv, TypeOK, Queries
<1>4. worker' \notin Queries \cup {"save"}
  BY <1>1 DEF Queries
<1> QED
  BY <1>1, <1>3, <1>4, Undisturbed DEF Inv

\* A query whose result are the findings of its table makes the verification
\* exact for that table too.
LEMMA QueryInv ==
  ASSUME Inv, NEW table \in SUBSET Rows, NEW result, NEW here, NEW next,
         Query(here, result, next),
         here \in Queries, next \in Queries \cup {"save"},
         result = {r \in table : Finding(r)},
         table \cap Asked = {}, Asked' = Asked \cup table
  PROVE  Inv'
<1>1. /\ worker = here /\ found' = found \cup result /\ worker' = next
      /\ UNCHANGED <<row, server, scheduler, tick, list, changes, faults, touched, reported>>
  BY DEF Query, history
<1>2. TypeOK'
  BY <1>1 DEF Inv, TypeOK, Queries
<1>3. \A r \in Rows : Finding(r)' <=> Finding(r)
  BY <1>1 DEF Finding
<1>4. found \subseteq Asked /\ \A r \in Asked \ touched : r \in found <=> Finding(r)
  BY <1>1 DEF Inv, ReportInv
<1>5. Asked \subseteq Rows
  BY DEF Asked, Rows
<1>6. ReportInv'
  BY <1>1, <1>3, <1>4, <1>5 DEF ReportInv
<1>7. ReportedStillWaits'
  BY <1>1, <1>3 DEF Inv, TypeOK, ReportedStillWaits
<1> QED
  BY <1>2, <1>6, <1>7 DEF Inv

\* The first query asks for transmutations that are open and old.
LEMMA FindPendingInv ==
  ASSUME Inv, FindPending
  PROVE  Inv'
<1>1. worker = "transmutations" /\ worker' = "missions"
  BY DEF FindPending, Query
<1>2. PendingBefore = {r \in Transmutations : Finding(r)}
  <2>1. \A r \in Transmutations : r \notin Missions /\ r \notin Materials
    BY ConstantsOK
  <2> QED
    BY <2>1 DEF PendingBefore, Finding, Waits
<1>3. Asked = {} /\ Asked' = Transmutations
  BY <1>1 DEF Asked
<1>4. Transmutations \in SUBSET Rows
  BY DEF Rows
<1>5. "transmutations" \in Queries /\ "missions" \in Queries
  BY DEF Queries
<1> QED
  BY <1>2, <1>3, <1>4, <1>5, QueryInv DEF FindPending

\* The second asks for missions that are not completed and old.
LEMMA FindOpenInv ==
  ASSUME Inv, FindOpen
  PROVE  Inv'
<1>1. worker = "missions" /\ worker' = "materials"
  BY DEF FindOpen, Query
<1>2. OpenBefore = {r \in Missions : Finding(r)}
  <2>1. ASSUME NEW r \in Missions
        PROVE  Finding(r) <=> row[r].status \notin {"absent", "deleted", "COMPLETED"} /\ row[r].old
    <3>1. r \in Rows /\ r \notin Transmutations /\ r \notin Materials
      BY ConstantsOK DEF Rows
    <3>2. Statuses(r) = {"PENDING", "COMPLETED", "completed", "ARCHIVED"}
      BY <3>1 DEF Statuses
    <3>3. row[r].status \in {"PENDING", "COMPLETED", "completed", "ARCHIVED", "absent", "deleted"}
      BY <3>1, <3>2 DEF Inv, TypeOK
    <3>4. Finding(r) <=> row[r].status \in Statuses(r) \ {"COMPLETED"} /\ row[r].old
      BY <3>1 DEF Finding, Waits
    <3> QED
      BY <3>2, <3>3, <3>4
  <2> QED
    BY <2>1 DEF OpenBefore
<1>3. Asked = Transmutations /\ Asked' = Transmutations \cup Missions
  BY <1>1 DEF Asked
<1>4. Missions \in SUBSET Rows /\ Missions \cap Transmutations = {}
  BY ConstantsOK DEF Rows
<1>5. "missions" \in Queries /\ "materials" \in Queries
  BY DEF Queries
<1> QED
  BY <1>2, <1>3, <1>4, <1>5, QueryInv DEF FindOpen

\* The third asks for scarce materials.
LEMMA FindScarceInv ==
  ASSUME Inv, FindScarce
  PROVE  Inv'
<1>1. worker = "materials" /\ worker' = "save"
  BY DEF FindScarce, Query
<1>2. Scarce = {r \in Materials : Finding(r)}
  <2>1. \A r \in Materials : r \notin Transmutations /\ r \notin Missions
    BY ConstantsOK
  <2>2. \A r \in Materials : Finding(r) <=> row[r].status = "scarce"
    BY <2>1 DEF Finding, Waits
  <2> QED
    BY <2>2 DEF Scarce
<1>3. Asked = Transmutations \cup Missions /\ Asked' = (Transmutations \cup Missions) \cup Materials
  BY <1>1 DEF Asked, Rows
<1>4. Materials \in SUBSET Rows /\ Materials \cap (Transmutations \cup Missions) = {}
  BY ConstantsOK DEF Rows
<1>5. "materials" \in Queries
  BY DEF Queries
<1> QED
  BY <1>2, <1>3, <1>4, <1>5, QueryInv DEF FindScarce

\* What is written is true of the rows nobody touched.
LEMMA SaveReportInv ==
  ASSUME Inv, SaveReport
  PROVE  Inv'
<1>1. /\ worker = "save" /\ worker' = "pop"
      /\ reported' = reported \cup (found \ touched)
      /\ UNCHANGED <<row, server, scheduler, tick, found, list, changes, faults, touched>>
  BY DEF SaveReport
<1>2. TypeOK'
  BY <1>1 DEF Inv, TypeOK
<1>3. ReportInv'
  BY <1>1 DEF ReportInv, Queries
<1>4. ReportedStillWaits'
  <2>1. \A r \in found \ touched : Finding(r)
    BY <1>1 DEF Inv, ReportInv, TypeOK, Asked
  <2>2. \A r \in reported' : Finding(r)
    BY <1>1, <2>1 DEF Inv, ReportedStillWaits
  <2>3. \A r \in reported' : Finding(r)' <=> Finding(r)
    BY <1>1 DEF Finding
  <2> QED
    BY <2>2, <2>3 DEF ReportedStillWaits
<1> QED
  BY <1>2, <1>3, <1>4 DEF Inv

-----------------------------------------------------------------------------
(* Every step preserves the inductive invariant.                              *)

LEMMA StutterInv == Inv /\ UNCHANGED vars => Inv'
<1> SUFFICES ASSUME Inv, UNCHANGED vars PROVE Inv'
  OBVIOUS
<1>1. UNCHANGED <<row, server, scheduler, tick, list, worker, found, changes, faults,
                  touched, reported>>
  BY DEF vars, process, history
<1>2. TypeOK'
  BY <1>1 DEF Inv, TypeOK
<1> QED
  BY <1>1, <1>2, Undisturbed DEF Inv

\* The inductive invariant holds in every reachable state.
THEOREM Invariance == Spec => []Inv
<1>1. Init => Inv
  BY InitInv
<1>2. Inv /\ [Next]_vars => Inv'
  <2> SUFFICES ASSUME Inv, [Next]_vars PROVE Inv'
    OBVIOUS
  <2>1. CASE Start \/ Tick \/ Schedule \/ EnqueueOther
    BY <2>1, InitDBInv, StartInv, ScheduleInv DEF Start, Schedule
  <2>2. CASE Work
    BY <2>2, PopInv, WorkInv, FindPendingInv, FindOpenInv, FindScarceInv, SaveReportInv DEF Work
  <2>3. CASE Fail
    BY <2>3, StartInv, CrashInv, ScheduleInv, PopFaultInv, WorkInv DEF Fail
  <2>4. CASE \E r \in Rows : Age(r) \/ \E s \in Statuses(r) \cup {"deleted"} : Change(r, s)
    BY <2>4, AgeInv, ChangeInv
  <2> QED
    BY <2>1, <2>2, <2>3, <2>4, StutterInv DEF Next
<1> QED
  BY <1>1, <1>2, PTL DEF Spec

-----------------------------------------------------------------------------
(* What a reader should know of.                                              *)

\* The goroutines run only while the back end does, and rows keep their types.
THEOREM TypesAreKept == Spec => []TypeOK
<1>1. Inv => TypeOK
  BY DEF Inv
<1> QED
  BY <1>1, Invariance, PTL

\* The audit row about to be written counts exactly the findings among the rows
\* nobody touched since the verification began.
THEOREM ReportsAreTrue == Spec => []ReportIsTrue
<1>1. Inv => ReportIsTrue
  BY DEF Inv, ReportInv, ReportIsTrue, Asked
<1> QED
  BY <1>1, Invariance, PTL

\* A row counted by an audit row waits until it is changed.
THEOREM ReportsStayTrue == Spec => []ReportedStillWaits
<1>1. Inv => ReportedStillWaits
  BY DEF Inv
<1> QED
  BY <1>1, Invariance, PTL
=============================================================================
