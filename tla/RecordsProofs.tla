----------------------------- MODULE RecordsProofs -----------------------------
(* Proofs about Records, for any tables, requests, words and texts.           *)
EXTENDS Records, TLAPS

-----------------------------------------------------------------------------
(* The initial state satisfies the inductive invariant.                       *)

\* A new mission is pending; another row has no status.
LEMMA BlankType ==
  ASSUME NEW i \in Rows
  PROVE  /\ Blank(i) \in Columns
         /\ Blank(i).status = None <=> i \notin Missions
         /\ ~IsCompleted(Blank(i).status)
<1>1. Pending \in Status /\ Pending # None
  BY ConstantsOK DEF Pending, Exact, Status
<1>2. (CHOOSE t \in Texts : TRUE) \in Texts
  BY ConstantsOK
<1>3. ~IsCompleted(Pending)
  BY DEF IsCompleted, Pending, Exact
<1> QED
  BY <1>1, <1>2, <1>3 DEF Blank, Columns, IsCompleted

\* Nobody has read or reported anything yet; the rows are init.sql's.
LEMMA InitInv == Init => Inv
<1> SUFFICES ASSUME Init PROVE Inv
  OBVIOUS
<1>1. ASSUME NEW i \in Rows
      PROVE  /\ row[i] \in Columns /\ meant[i] = row[i]
             /\ row[i].status = None <=> i \notin Missions
             /\ i \notin DOMAIN Seed => ~IsCompleted(row[i].status)
             /\ i \in DOMAIN Seed => row[i] = Seed[i]
  BY BlankType, ConstantsOK DEF Init
<1>2. TypeOK
  <2>1. (CHOOSE t \in Texts : TRUE) \in Texts
    BY ConstantsOK
  <2>2. copy \in [Requests -> Columns]
    BY <2>1 DEF Init, Columns
  <2>3. row \in [Rows -> Columns] /\ meant \in [Rows -> Columns]
    BY <1>1 DEF Init
  <2> QED
    BY <2>2, <2>3 DEF TypeOK, Init
<1>3. StatusInv
  BY <1>1 DEF StatusInv, Init
<1>4. PresentInv /\ CopyInv /\ CloserInv /\ ClosedOnce
  BY DEF PresentInv, CopyInv, CloserInv, ClosedOnce, Closes, Reports, ReportLost, Init
<1>5. CompletedWasClosed
  BY <1>1 DEF CompletedWasClosed, ClosingKnown, Rows
<1>6. LastRequestStands
  BY <1>1 DEF LastRequestStands
<1> QED
  BY <1>2, <1>3, <1>4, <1>5, <1>6 DEF Inv

-----------------------------------------------------------------------------
(* Saving a copy, as Edit and UpdateStatus do.                                *)

\* What both have in common: the columns the body has are those it asks for,
\* and a status that becomes COMPLETED is reported.
Saves(r, new, body, act) ==
  /\ pc[r] = "read"
  /\ Save(r, new, body)
  /\ \A c \in {"status", "text"} : body[c] # None => new[c] = body[c]
  /\ new.status = None <=> target[r] \notin Missions
  /\ act \in {"updated", "changed", "closed"}
  /\ act = "closed" <=> IsCompleted(new.status) /\ new.status # copy[r].status
  /\ action' = [action EXCEPT ![r] = act]
  /\ pc' = [pc EXCEPT ![r] = "saved"]
  /\ UNCHANGED <<op, target, copy>>

\* Whoever closed a mission before has closed it afterwards.
LEMMA ClosersStay ==
  ASSUME Inv, NEW r \in Requests, pc[r] = "read",
         pc' = [pc EXCEPT ![r] = "saved"], target' = target,
         NEW act, action' = [action EXCEPT ![r] = act],
         NEW m, ClosingKnown(m)
  PROVE  ClosingKnown(m)'
<1>1. ASSUME NEW s \in Requests, Closes(s, m) PROVE Closes(s, m)'
  BY <1>1 DEF Closes, Reports, ReportLost, Saved, Inv, TypeOK
<1> QED
  BY <1>1 DEF ClosingKnown

\* Saving preserves the invariant.
LEMMA SavesInv ==
  ASSUME Inv, NEW r \in Requests, NEW new \in Columns, NEW body \in Bodies, NEW act,
         Saves(r, new, body, act)
  PROVE  Inv'
<1> DEFINE i == target[r]
<1> USE DEF Saves, Save
<1>0. i \in Rows /\ copy[r] \in Columns /\ row[i] \in Columns
  BY DEF Inv, TypeOK
<1>1. i \in Missions \/ (new.status = None /\ copy[r].status = None /\ row[i].status = None)
  BY <1>0 DEF Inv, StatusInv
<1>2. TypeOK'
  <2>1. /\ life' \in [Rows -> {"absent", "live", "deleted"}]
        /\ row' \in [Rows -> Columns]
    BY <1>0 DEF Inv, TypeOK
  <2>2. meant' \in [Rows -> Columns]
    <3>1. [c \in {"status", "text"} |-> IF body[c] = None THEN meant[i][c] ELSE body[c]] \in Columns
      <4> DEFINE n == [c \in {"status", "text"} |-> IF body[c] = None THEN meant[i][c] ELSE body[c]]
      <4>1. n = [status |-> n["status"], text |-> n["text"]]
        OBVIOUS
      <4>2. meant[i] \in Columns
        BY <1>0 DEF Inv, TypeOK
      <4>3. n["status"] \in Status \cup {None}
        BY <4>2 DEF Columns, Bodies
      <4>4. n["text"] \in Texts
        BY <4>2 DEF Columns, Bodies
      <4> QED
        BY <4>1, <4>3, <4>4 DEF Columns
    <3> QED
      BY <1>0, <3>1 DEF Inv, TypeOK
  <2>3. outdated' \subseteq Rows \X {"status", "text"}
    BY <1>0 DEF Inv, TypeOK
  <2>4. rewritten' \subseteq Missions
    BY <1>1 DEF Inv, TypeOK, IsCompleted
  <2>5. overtaken' \subseteq Requests
    BY DEF Inv, TypeOK
  <2>6. /\ pc' \in [Requests -> {"idle", "read", "replied"} \cup Saved]
        /\ action' \in [Requests -> {"none", "created", "updated", "changed", "closed", "deleted"}]
        /\ \A q \in Requests : pc'[q] # "idle" => target'[q] \in Rows
    BY DEF Inv, TypeOK, Saved
  <2> QED
    BY <2>1, <2>2, <2>3, <2>4, <2>5, <2>6 DEF Inv, TypeOK
<1>3. StatusInv'
  BY <1>0 DEF Inv, TypeOK, StatusInv
<1>4. PresentInv'
  BY <1>0 DEF Inv, TypeOK, PresentInv
<1>5. ASSUME NEW m, ClosingKnown(m) PROVE ClosingKnown(m)'
  BY <1>5, ClosersStay
<1>6. CopyInv'
  <2>1. ASSUME NEW q \in Requests, pc'[q] = "read", IsCompleted(copy'[q].status),
               NEW m, m = target[q]
        PROVE  ClosingKnown(m)'
    <3>1. pc[q] = "read" /\ ClosingKnown(m)
      BY <2>1 DEF Inv, TypeOK, CopyInv
    <3> QED
      BY <3>1, <1>5
  <2>2. target' = target
    OBVIOUS
  <2> HIDE DEF Saves, Save
  <2> QED
    BY <2>1, <2>2 DEF CopyInv, ClosingKnown
<1>7. CompletedWasClosed'
  <2> SUFFICES ASSUME NEW m \in Missions, IsCompleted(row'[m].status)
               PROVE  ClosingKnown(m)'
    BY DEF CompletedWasClosed, ClosingKnown, Closes
  <2>1. CASE m # i
    <3>1. row'[m] = row[m]
      BY <2>1 DEF Inv, TypeOK, Rows
    <3> QED
      BY <3>1, <1>5 DEF Inv, CompletedWasClosed, ClosingKnown, Closes
  <2>2. CASE m = i /\ act = "closed"
    <3>1. Closes(r, m)'
      BY <2>2 DEF Closes, Reports, ReportLost, Saved, Inv, TypeOK
    <3> QED
      BY <3>1 DEF ClosingKnown
  <2>3. CASE m = i /\ act # "closed"
    <3>1. row'[m] = new
      BY <2>3, <1>0 DEF Inv, TypeOK
    <3>2. IsCompleted(copy[r].status)
      BY <2>3, <3>1
    <3>3. ClosingKnown(m)
      BY <2>3, <3>2 DEF Inv, CopyInv
    <3> QED
      BY <3>3, <1>5
  <2> QED
    BY <2>1, <2>2, <2>3
<1>8. \* In a mission not rewritten, r, if not overtaken, has not closed again.
      ASSUME NEW s \in Requests \ overtaken, i \in Missions \ rewritten', Closes(s, i),
             r \notin overtaken'
      PROVE  act # "closed"
  <2>1. i \notin rewritten
    BY <1>8 DEF Inv, TypeOK
  <2>2. IsCompleted(row[i].status)
    BY <1>8, <2>1 DEF Inv, CloserInv
  <2>3. new.status = row[i].status
    BY <1>8, <2>2
  <2>4. row[i].status = copy[r].status
    BY <1>8
  <2> QED
    BY <2>3, <2>4
<1>9. CloserInv'
  <2> SUFFICES ASSUME NEW m \in Missions \ rewritten', NEW s \in Requests \ overtaken',
                      Closes(s, m)'
               PROVE  IsCompleted(row'[m].status)
    BY DEF CloserInv
  <2>1. m \notin rewritten /\ s \notin overtaken
    BY DEF Inv, TypeOK
  <2>2. CASE s = r
    <3>1. act = "closed" /\ m = i
      BY <2>2 DEF Closes, Reports, ReportLost, Inv, TypeOK
    <3> QED
      BY <3>1, <1>0 DEF Inv, TypeOK
  <2>3. CASE s # r
    <3>1. Closes(s, m)
      BY <2>3 DEF Closes, Reports, ReportLost, Inv, TypeOK
    <3>2. IsCompleted(row[m].status)
      BY <2>1, <3>1 DEF Inv, CloserInv
    <3>3. CASE m = i
      BY <3>2, <3>3, <1>0 DEF Inv, TypeOK
    <3>4. CASE m # i
      BY <3>2, <3>4, <1>0 DEF Inv, TypeOK, Rows
    <3> QED
      BY <3>3, <3>4
  <2> QED
    BY <2>2, <2>3
<1>10. ClosedOnce'
  <2> SUFFICES ASSUME NEW m \in Missions \ rewritten',
                      NEW q \in Requests \ overtaken', NEW s \in Requests \ overtaken',
                      Closes(q, m)', Closes(s, m)', q # s
               PROVE  FALSE
    BY DEF ClosedOnce
  <2>1. m \notin rewritten /\ q \notin overtaken /\ s \notin overtaken
    BY DEF Inv, TypeOK
  <2>2. ASSUME NEW x \in {q, s}, x # r PROVE Closes(x, m)
    BY <2>2 DEF Closes, Reports, ReportLost, Inv, TypeOK
  <2>3. ASSUME NEW x \in {q, s}, x = r PROVE act = "closed" /\ m = i /\ r \notin overtaken'
    BY <2>3 DEF Closes, Reports, ReportLost, Inv, TypeOK
  <2>4. CASE q # r /\ s # r
    BY <2>1, <2>2, <2>4 DEF Inv, ClosedOnce
  <2>5. CASE q = r
    BY <2>1, <2>2, <2>3, <2>5, <1>8
  <2>6. CASE s = r
    BY <2>1, <2>2, <2>3, <2>6, <1>8
  <2> QED
    BY <2>4, <2>5, <2>6
<1>11. LastRequestStands'
  <2> SUFFICES ASSUME NEW j \in Rows, NEW c \in {"status", "text"}, <<j, c>> \notin outdated'
               PROVE  row'[j][c] = meant'[j][c]
    BY DEF LastRequestStands
  <2>1. CASE j # i
    <3>1. <<j, c>> \notin outdated
      BY <2>1
    <3>2. row'[j] = row[j] /\ meant'[j] = meant[j]
      BY <2>1, <1>0 DEF Inv, TypeOK
    <3> QED
      BY <3>1, <3>2 DEF Inv, LastRequestStands
  <2>2. CASE j = i
    <3>1. /\ row'[i] = new
          /\ meant'[i] = [d \in {"status", "text"} |-> IF body[d] = None THEN meant[i][d] ELSE body[d]]
      BY <1>0 DEF Inv, TypeOK
    <3>2. meant'[i][c] = IF body[c] = None THEN meant[i][c] ELSE body[c]
      BY <3>1
    <3>3. CASE body[c] # None
      BY <2>2, <3>1, <3>2, <3>3
    <3>4. CASE body[c] = None
      <4>1. <<i, c>> \in {<<i, "status">>, <<i, "text">>}
        OBVIOUS
      <4>2. <<i, c>> \notin outdated /\ row[i][c] = new[c]
        BY <2>2, <3>4, <4>1
      <4>3. row[i][c] = meant[i][c]
        BY <4>2, <1>0 DEF Inv, LastRequestStands
      <4> QED
        BY <2>2, <3>1, <3>2, <3>4, <4>2, <4>3
    <3> QED
      BY <3>3, <3>4
  <2> QED
    BY <2>1, <2>2
<1> QED
  BY <1>2, <1>3, <1>4, <1>6, <1>7, <1>9, <1>10, <1>11 DEF Inv

-----------------------------------------------------------------------------
(* Every step preserves it.                                                   *)

\* Edit saves the copy with what the body has, and reports what has changed.
LEMMA EditInv ==
  ASSUME Inv, NEW r \in Requests, NEW b \in Bodies, Edit(r, b)
  PROVE  Inv'
<1> DEFINE new == Merged(copy[r], b)
           act == EditAction(copy[r].status, new.status)
<1>1. copy[r] \in Columns
  BY DEF Inv, TypeOK
<1>2. new \in Columns
  BY <1>1 DEF Merged, Columns, Bodies
<1>3. \A c \in {"status", "text"} : b[c] # None => new[c] = b[c]
  BY DEF Merged
<1>4. new.status = None <=> target[r] \notin Missions
  BY DEF Edit, Merged, Inv, StatusInv
<1>5. /\ act \in {"updated", "changed", "closed"}
      /\ act = "closed" <=> IsCompleted(new.status) /\ new.status # copy[r].status
  BY DEF EditAction
<1>6. Saves(r, new, b, act)
  BY <1>3, <1>4, <1>5 DEF Saves, Edit
<1> QED
  BY <1>2, <1>6, SavesInv

\* UpdateStatus saves the copy with a status that it did not have.
LEMMA UpdateStatusInv ==
  ASSUME Inv, NEW r \in Requests, NEW s \in Status, UpdateStatus(r, s)
  PROVE  Inv'
<1> DEFINE st == Normalize(s)
           new == [copy[r] EXCEPT !.status = st]
           body == [status |-> Exact(s.word), text |-> None]
           act == IF st = Completed THEN "closed" ELSE "changed"
<1>1. copy[r] \in Columns /\ target[r] \in Missions
  BY DEF Inv, TypeOK, StatusInv, UpdateStatus
<1>2. st \in Status /\ st = Exact(s.word) /\ st # None
  BY ConstantsOK DEF Normalize, Exact, Status
<1>3. new \in Columns /\ new.status = st
  BY <1>1, <1>2 DEF Columns
<1>4. body \in Bodies
  BY <1>2 DEF Bodies
<1>5. \A c \in {"status", "text"} : body[c] # None => new[c] = body[c]
  <2>1. body["status"] = st /\ body["text"] = None /\ new["status"] = st
    BY <1>2, <1>3
  <2> QED
    BY <2>1
<1>6. st = Completed <=> IsCompleted(st)
  BY <1>2 DEF Completed, Exact, IsCompleted
<1>7. Saves(r, new, body, act)
  BY <1>1, <1>2, <1>3, <1>5, <1>6 DEF Saves, UpdateStatus
<1> QED
  BY <1>3, <1>4, <1>7, SavesInv

\* A new row, not completed; nobody can have closed it.
LEMMA CreateInv ==
  ASSUME Inv, NEW r \in Requests, NEW i \in Rows, NEW t \in Texts, Create(r, i, t)
  PROVE  Inv'
<1> DEFINE new == [Blank(i) EXCEPT !.text = t]
<1>0. new \in Columns /\ new.status = Blank(i).status
  BY BlankType DEF Columns
<1> USE DEF Create, Saved
<1>1. TypeOK'
  BY <1>0, BlankType DEF Inv, TypeOK
<1>2. StatusInv'
  BY <1>0, BlankType DEF Inv, TypeOK, StatusInv
<1>3. PresentInv'
  BY <1>0, BlankType DEF Inv, TypeOK, PresentInv
<1>4. ASSUME NEW s \in Requests, NEW m PROVE Closes(s, m)' <=> Closes(s, m)
  BY DEF Inv, TypeOK, Closes, Reports, ReportLost
<1>5. ASSUME NEW m PROVE ClosingKnown(m)' <=> ClosingKnown(m)
  BY <1>4 DEF ClosingKnown
<1>6. \A s \in Requests : ~Closes(s, i)
  BY DEF Inv, PresentInv, Closes, Reports, ReportLost
<1>7. CopyInv' /\ CompletedWasClosed'
  BY <1>0, <1>6, BlankType, <1>5
     DEF Inv, TypeOK, CopyInv, CompletedWasClosed, ClosingKnown, Closes, Rows
<1>8. CloserInv' /\ ClosedOnce'
  BY <1>0, <1>6, BlankType, <1>4 DEF Inv, TypeOK, CloserInv, ClosedOnce, Rows
<1>9. LastRequestStands'
  BY <1>0, <1>6, BlankType DEF Inv, TypeOK, LastRequestStands
<1> QED
  BY <1>1, <1>2, <1>3, <1>7, <1>8, <1>9 DEF Inv

\* A copy is as the row is.
LEMMA FindInv ==
  ASSUME Inv, NEW r \in Requests, NEW o \in {"edit", "status", "delete"}, NEW i \in Rows, Find(r, o, i)
  PROVE  Inv'
<1> USE DEF Find, Visible, Saved, history
<1>1. TypeOK'
  BY DEF Inv, TypeOK
<1>2. StatusInv'
  BY DEF Inv, TypeOK, StatusInv
<1>3. PresentInv'
  BY DEF Inv, TypeOK, PresentInv
<1>4. ASSUME NEW s \in Requests, NEW m PROVE Closes(s, m)' <=> Closes(s, m)
  BY DEF Inv, TypeOK, Closes, Reports, ReportLost
<1>5. ASSUME NEW m PROVE ClosingKnown(m)' <=> ClosingKnown(m)
  BY <1>4 DEF ClosingKnown
<1>7. CopyInv' /\ CompletedWasClosed'
  BY <1>5
     DEF Inv, TypeOK, CopyInv, CompletedWasClosed, ClosingKnown, Closes, Rows, StatusInv,
         IsCompleted
<1>8. CloserInv' /\ ClosedOnce'
  BY <1>4 DEF Inv, TypeOK, CloserInv, ClosedOnce, Rows
<1>9. LastRequestStands'
  BY DEF Inv, TypeOK, LastRequestStands
<1> QED
  BY <1>1, <1>2, <1>3, <1>7, <1>8, <1>9 DEF Inv

\* Nothing is written or reported.
LEMMA StatusIsThereInv ==
  ASSUME Inv, NEW r \in Requests, StatusIsThere(r)
  PROVE  Inv'
<1> USE DEF StatusIsThere, Saved, history
<1>1. TypeOK'
  BY DEF Inv, TypeOK
<1>2. StatusInv'
  BY DEF Inv, TypeOK, StatusInv
<1>3. PresentInv'
  BY DEF Inv, TypeOK, PresentInv
<1>4. ASSUME NEW s \in Requests, NEW m PROVE Closes(s, m)' <=> Closes(s, m)
  BY DEF Inv, TypeOK, Closes, Reports, ReportLost
<1>5. ASSUME NEW m PROVE ClosingKnown(m)' <=> ClosingKnown(m)
  BY <1>4 DEF ClosingKnown
<1>7. CopyInv' /\ CompletedWasClosed'
  BY <1>5 DEF Inv, TypeOK, CopyInv, CompletedWasClosed, ClosingKnown, Closes, Rows
<1>8. CloserInv' /\ ClosedOnce'
  BY <1>4 DEF Inv, TypeOK, CloserInv, ClosedOnce, Rows
<1>9. LastRequestStands'
  BY DEF Inv, TypeOK, LastRequestStands
<1> QED
  BY <1>1, <1>2, <1>3, <1>7, <1>8, <1>9 DEF Inv

\* A deletion leaves the columns and reports no closing.
LEMMA DeleteInv ==
  ASSUME Inv, NEW r \in Requests, Delete(r)
  PROVE  Inv'
<1> USE DEF Delete, Saved, history
<1>1. TypeOK'
  BY DEF Inv, TypeOK
<1>2. StatusInv'
  BY DEF Inv, TypeOK, StatusInv
<1>3. PresentInv'
  BY DEF Inv, TypeOK, PresentInv
<1>4. ASSUME NEW s \in Requests, NEW m PROVE Closes(s, m)' <=> Closes(s, m)
  BY DEF Inv, TypeOK, Closes, Reports, ReportLost
<1>5. ASSUME NEW m PROVE ClosingKnown(m)' <=> ClosingKnown(m)
  BY <1>4 DEF ClosingKnown
<1>7. CopyInv' /\ CompletedWasClosed'
  BY <1>5 DEF Inv, TypeOK, CopyInv, CompletedWasClosed, ClosingKnown, Closes, Rows
<1>8. CloserInv' /\ ClosedOnce'
  BY <1>4 DEF Inv, TypeOK, CloserInv, ClosedOnce, Rows
<1>9. LastRequestStands'
  BY DEF Inv, TypeOK, LastRequestStands
<1> QED
  BY <1>1, <1>2, <1>3, <1>7, <1>8, <1>9 DEF Inv

\* Nothing is written or reported.
LEMMA RejectInv ==
  ASSUME Inv, NEW r \in Requests, Reject(r)
  PROVE  Inv'
<1> USE DEF Reject, Saved, history
<1>1. TypeOK'
  BY DEF Inv, TypeOK
<1>2. StatusInv'
  BY DEF Inv, TypeOK, StatusInv
<1>3. PresentInv'
  BY DEF Inv, TypeOK, PresentInv
<1>4. ASSUME NEW s \in Requests, NEW m PROVE Closes(s, m)' <=> Closes(s, m)
  BY DEF Inv, TypeOK, Closes, Reports, ReportLost
<1>5. ASSUME NEW m PROVE ClosingKnown(m)' <=> ClosingKnown(m)
  BY <1>4 DEF ClosingKnown
<1>7. CopyInv' /\ CompletedWasClosed'
  BY <1>5 DEF Inv, TypeOK, CopyInv, CompletedWasClosed, ClosingKnown, Closes, Rows
<1>8. CloserInv' /\ ClosedOnce'
  BY <1>4 DEF Inv, TypeOK, CloserInv, ClosedOnce, Rows
<1>9. LastRequestStands'
  BY DEF Inv, TypeOK, LastRequestStands
<1> QED
  BY <1>1, <1>2, <1>3, <1>7, <1>8, <1>9 DEF Inv

\* Who saved has still saved.
LEMMA ReportInv ==
  ASSUME Inv, NEW r \in Requests, Report(r)
  PROVE  Inv'
<1> USE DEF Report, Saved, history
<1>1. TypeOK'
  BY DEF Inv, TypeOK
<1>2. StatusInv'
  BY DEF Inv, TypeOK, StatusInv
<1>3. PresentInv'
  BY DEF Inv, TypeOK, PresentInv
<1>4. ASSUME NEW s \in Requests, NEW m PROVE Closes(s, m)' <=> Closes(s, m)
  BY DEF Inv, TypeOK, Closes, Reports, ReportLost
<1>5. ASSUME NEW m PROVE ClosingKnown(m)' <=> ClosingKnown(m)
  BY <1>4 DEF ClosingKnown
<1>7. CopyInv' /\ CompletedWasClosed'
  BY <1>5 DEF Inv, TypeOK, CopyInv, CompletedWasClosed, ClosingKnown, Closes, Rows
<1>8. CloserInv' /\ ClosedOnce'
  BY <1>4 DEF Inv, TypeOK, CloserInv, ClosedOnce, Rows
<1>9. LastRequestStands'
  BY DEF Inv, TypeOK, LastRequestStands
<1> QED
  BY <1>1, <1>2, <1>3, <1>7, <1>8, <1>9 DEF Inv

\* A stuttering step.
LEMMA StutterInv == Inv /\ UNCHANGED vars => Inv'
<1> SUFFICES ASSUME Inv, UNCHANGED vars PROVE Inv'
  OBVIOUS
<1> USE DEF Inv, vars, requests, history
<1>1. TypeOK' /\ StatusInv' /\ PresentInv' /\ LastRequestStands'
  BY DEF TypeOK, StatusInv, PresentInv, LastRequestStands
<1>2. ASSUME NEW s \in Requests, NEW m PROVE Closes(s, m)' <=> Closes(s, m)
  BY DEF Closes, Reports, ReportLost
<1>3. CopyInv' /\ CompletedWasClosed'
  BY <1>2 DEF CopyInv, CompletedWasClosed, ClosingKnown, Closes
<1>4. CloserInv' /\ ClosedOnce'
  BY <1>2 DEF CloserInv, ClosedOnce
<1> QED
  BY <1>1, <1>3, <1>4

\* Every step of the system.
LEMMA NextInv == Inv /\ [Next]_vars => Inv'
<1> SUFFICES ASSUME Inv, [Next]_vars PROVE Inv'
  OBVIOUS
<1>1. CASE UNCHANGED vars
  BY <1>1, StutterInv
<1>2. ASSUME NEW r \in Requests, NEW i \in Rows, NEW t \in Texts, Create(r, i, t) PROVE Inv'
  BY <1>2, CreateInv
<1>3. ASSUME NEW r \in Requests, NEW i \in Rows, NEW o \in {"edit", "status", "delete"},
             Find(r, o, i)
      PROVE  Inv'
  BY <1>3, FindInv
<1>4. ASSUME NEW r \in Requests, NEW b \in Bodies, Edit(r, b) PROVE Inv'
  BY <1>4, EditInv
<1>5. ASSUME NEW r \in Requests, NEW s \in Status, UpdateStatus(r, s) PROVE Inv'
  BY <1>5, UpdateStatusInv
<1>6. ASSUME NEW r \in Requests, StatusIsThere(r) \/ Delete(r) \/ Reject(r) \/ Report(r)
      PROVE  Inv'
  BY <1>6, StatusIsThereInv, DeleteInv, RejectInv, ReportInv
<1> QED
  BY <1>1, <1>2, <1>3, <1>4, <1>5, <1>6 DEF Next

\* What holds in every reachable state.
LEMMA Invariance == Spec => []Inv
<1> QED
  BY InitInv, NextInv, PTL DEF Spec

-----------------------------------------------------------------------------
(* Deleted rows.                                                              *)

\* Only who holds a copy saves the row; Find takes none of a deleted one.
LEMMA GoneStep ==
  Inv /\ [Next]_vars => [\A i \in Rows : Gone(i) => Gone(i)']_vars
<1> SUFFICES ASSUME Inv, Next, NEW i \in Rows, Gone(i) PROVE Gone(i)'
  OBVIOUS
<1>1. life[i] = "deleted" /\ ~HoldsCopy(i)
  BY DEF Gone
<1>2. ASSUME NEW r \in Requests, NEW new, NEW b, Save(r, new, b),
             pc[r] = "read", op[r] \in {"edit", "status"},
             pc' = [pc EXCEPT ![r] = "saved"], UNCHANGED <<op, target>>
      PROVE  Gone(i)'
  <2>1. target[r] # i
    BY <1>1, <1>2 DEF HoldsCopy
  <2>2. life'[i] = "deleted"
    BY <1>1, <1>2, <2>1 DEF Save, Inv, TypeOK
  <2> QED
    BY <1>1, <1>2, <2>2 DEF Gone, HoldsCopy, Inv, TypeOK
<1>3. ASSUME NEW r \in Requests, NEW j \in Rows, NEW t \in Texts, Create(r, j, t)
      PROVE  Gone(i)'
  BY <1>1, <1>3 DEF Create, Gone, HoldsCopy, Inv, TypeOK
<1>4. ASSUME NEW r \in Requests, NEW j \in Rows, NEW o, Find(r, o, j) PROVE Gone(i)'
  BY <1>1, <1>4 DEF Find, Visible, Gone, HoldsCopy, Inv, TypeOK
<1>5. ASSUME NEW r \in Requests, NEW b \in Bodies, Edit(r, b) PROVE Gone(i)'
  BY <1>2, <1>5 DEF Edit
<1>6. ASSUME NEW r \in Requests, NEW s \in Status, UpdateStatus(r, s) PROVE Gone(i)'
  BY <1>2, <1>6 DEF UpdateStatus
<1>7. ASSUME NEW r \in Requests, StatusIsThere(r) \/ Reject(r) PROVE Gone(i)'
  BY <1>1, <1>7 DEF StatusIsThere, Reject, Gone, HoldsCopy, Inv, TypeOK
<1>8. ASSUME NEW r \in Requests, Delete(r) PROVE Gone(i)'
  BY <1>1, <1>8 DEF Delete, Gone, HoldsCopy, Inv, TypeOK
<1>9. ASSUME NEW r \in Requests, Report(r) PROVE Gone(i)'
  BY <1>1, <1>9 DEF Report, Gone, HoldsCopy, Inv, TypeOK
<1> QED
  BY <1>3, <1>4, <1>5, <1>6, <1>7, <1>8, <1>9 DEF Next

-----------------------------------------------------------------------------
(* The theorems.                                                              *)

\* Every variable keeps its type (TypeOK).
THEOREM TypeCorrect == Spec => []TypeOK
<1>1. Inv => TypeOK
  BY DEF Inv
<1> QED
  BY <1>1, Invariance, PTL

\* A mission that reads COMPLETED was inserted so, or a request reported or is
\* about to report that it closed it, or lost that report in EnqueueAudit.
THEOREM CompletedMissionsWereClosed == Spec => []CompletedWasClosed
<1>1. Inv => CompletedWasClosed
  BY DEF Inv
<1> QED
  BY <1>1, Invariance, PTL

\* Two requests notice that they closed the same mission only if one was
\* overtaken or the mission was given another status in between.
THEOREM MissionsAreClosedOnce == Spec => []ClosedOnce
<1>1. Inv => ClosedOnce
  BY DEF Inv
<1> QED
  BY <1>1, Invariance, PTL

\* Every column is what it was last set to, except where a stale copy was saved.
THEOREM LastRequestsStand == Spec => []LastRequestStands
<1>1. Inv => LastRequestStands
  BY DEF Inv
<1> QED
  BY <1>1, Invariance, PTL

\* A deleted row of which nobody holds a copy stays deleted.
THEOREM FinalDeletion == Spec => DeletionIsFinal
<1>1. Inv /\ [Next]_vars => [\A i \in Rows : Gone(i) => Gone(i)']_vars
  BY GoneStep
<1> QED
  BY <1>1, Invariance, PTL DEF Spec, DeletionIsFinal

=============================================================================
