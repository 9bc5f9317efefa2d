---------------------------- MODULE InventoryProofs ----------------------------
(* Proofs about Inventory, for any number of requests and materials and for   *)
(* any quantities.                                                            *)
EXTENDS Inventory, TLAPS

-----------------------------------------------------------------------------
(* The initial state satisfies the inductive invariant.                       *)

\* Nothing was read, locked or drawn yet, and init.sql's quantities are what is
\* on stock.
LEMMA InitInv == Init => Inv
<1> SUFFICES ASSUME Init PROVE Inv
  OBVIOUS
<1>1. PICK q \in [Materials -> Quantities] :
        /\ material = [m \in Materials |->
             IF m \in Stocked THEN [life |-> "live", quantity |-> q[m]]
             ELSE [life |-> "absent", quantity |-> 0]]
        /\ given = [m \in Materials |-> IF m \in Stocked THEN q[m] ELSE 0]
  BY DEF Init
<1>2. \A m \in Materials : q[m] \in Nat
  BY ConstantsOK
<1>3. TypeOK
  <2>1. material \in [Materials -> Row]
    BY <1>1, <1>2 DEF Row
  <2>2. given \in [Materials -> Nat]
    BY <1>1, <1>2
  <2>3. \A r \in Requests : pc[r] = "idle"
    BY DEF Init
  <2> QED
    BY <2>1, <2>2, <2>3 DEF TypeOK, Init
<1>4. LockInv
  BY DEF LockInv, Init
<1>5. CopyInv
  BY DEF CopyInv, Init
<1>6. AbsentInv
  BY <1>1 DEF AbsentInv, Init
<1>7. ASSUME NEW m \in Materials
      PROVE  material[m].quantity = given[m] /\ given[m] \in Nat
  <2>1. CASE m \in Stocked
    BY <1>1, <1>2, <2>1
  <2>2. CASE m \notin Stocked
    BY <1>1, <2>2
  <2> QED
    BY <2>1, <2>2
<1>8. NonNegative
  <2> SUFFICES ASSUME NEW m \in Materials
               PROVE  material[m].quantity >= 0
    BY DEF NonNegative
  <2> QED
    BY <1>7
<1>9. Ledger
  <2> SUFFICES ASSUME NEW m \in Materials \ overlapped
               PROVE  material[m].quantity = given[m] - granted[m]
    BY DEF Ledger
  <2>1. granted[m] = 0
    BY DEF Init
  <2> QED
    BY <1>7, <2>1
<1> QED
  BY <1>3, <1>4, <1>5, <1>6, <1>8, <1>9 DEF Inv

-----------------------------------------------------------------------------
(* Every action preserves the inductive invariant.                            *)

\* A material created with a quantity that is not negative.
LEMMA CreateInv ==
  ASSUME Inv, NEW r \in Requests, NEW m \in Materials, NEW q \in Quantities, Create(r, m, q)
  PROVE  Inv'
<1>1. TypeOK'
  BY ConstantsOK DEF Create, Inv, TypeOK, Row, SaveMaterial
<1>2. LockInv'
  BY ConstantsOK DEF Create, Inv, LockInv, Visible, SaveMaterial
<1>3. CopyInv'
  BY ConstantsOK DEF Create, Inv, CopyInv, SaveMaterial
<1>4. AbsentInv'
  BY ConstantsOK DEF Create, Inv, TypeOK, AbsentInv, SaveMaterial
<1>5. NonNegative'
  BY ConstantsOK DEF Create, Inv, NonNegative, SaveMaterial
<1>6. Ledger'
  BY ConstantsOK DEF Create, Inv, TypeOK, AbsentInv, Ledger, SaveMaterial
<1> QED
  BY <1>1, <1>2, <1>3, <1>4, <1>5, <1>6 DEF Inv

\* Reading a row changes none.
LEMMA FindInv ==
  ASSUME Inv, NEW r \in Requests, NEW o \in {"edit", "delete"}, NEW m \in Materials, Find(r, o, m)
  PROVE  Inv'
<1>1. TypeOK'
  BY ConstantsOK DEF Find, Inv, TypeOK, Row, ledger
<1>2. LockInv'
  BY ConstantsOK DEF Find, Inv, LockInv, Visible
<1>3. CopyInv'
  BY DEF Find, Inv, TypeOK, CopyInv, NonNegative, Visible
<1>4. AbsentInv'
  BY DEF Find, Inv, AbsentInv, ledger
<1>5. NonNegative'
  BY DEF Find, Inv, NonNegative
<1>6. Ledger'
  BY DEF Find, Inv, Ledger, ledger
<1> QED
  BY <1>1, <1>2, <1>3, <1>4, <1>5, <1>6 DEF Inv

\* A quantity set on purpose starts a new account.
LEMMA EditQuantityInv ==
  ASSUME Inv, NEW r \in Requests, NEW q \in Quantities, EditQuantity(r, q)
  PROVE  Inv'
<1>1. TypeOK'
  BY ConstantsOK DEF EditQuantity, Inv, TypeOK, Row, SaveMaterial
<1>2. LockInv'
  BY ConstantsOK DEF EditQuantity, Inv, LockInv, Visible, Free, SaveMaterial
<1>3. CopyInv'
  BY ConstantsOK DEF EditQuantity, Inv, CopyInv, SaveMaterial
<1>4. AbsentInv'
  BY ConstantsOK DEF EditQuantity, Inv, TypeOK, AbsentInv, SaveMaterial
<1>5. NonNegative'
  BY ConstantsOK DEF EditQuantity, Inv, NonNegative, SaveMaterial
<1>6. Ledger'
  BY ConstantsOK DEF EditQuantity, Inv, TypeOK, Ledger, SaveMaterial
<1> QED
  BY <1>1, <1>2, <1>3, <1>4, <1>5, <1>6 DEF Inv

\* Writing an outdated quantity back is what `overlapped` records.
LEMMA EditOtherInv ==
  ASSUME Inv, NEW r \in Requests, EditOther(r)
  PROVE  Inv'
<1>1. TypeOK'
  BY ConstantsOK DEF EditOther, Inv, TypeOK, Row, SaveMaterial
<1>2. LockInv'
  BY ConstantsOK DEF EditOther, Inv, LockInv, Visible, Free, SaveMaterial
<1>3. CopyInv'
  BY DEF EditOther, Inv, CopyInv, SaveMaterial
<1>4. AbsentInv'
  BY DEF EditOther, Inv, AbsentInv, SaveMaterial
<1>5. NonNegative'
  BY DEF EditOther, Inv, CopyInv, NonNegative, SaveMaterial
<1>6. Ledger'
  BY DEF EditOther, Inv, Ledger, SaveMaterial
<1> QED
  BY <1>1, <1>2, <1>3, <1>4, <1>5, <1>6 DEF Inv

\* A deletion waits for the transaction that draws from the row.
LEMMA DeleteInv ==
  ASSUME Inv, NEW r \in Requests, Delete(r)
  PROVE  Inv'
<1>1. TypeOK'
  BY ConstantsOK DEF Delete, Inv, TypeOK, Row, ledger
<1>2. LockInv'
  BY ConstantsOK DEF Delete, Inv, LockInv, Visible, Free
<1>3. CopyInv'
  BY DEF Delete, Inv, CopyInv
<1>4. AbsentInv'
  BY DEF Delete, Inv, AbsentInv, ledger
<1>5. NonNegative'
  BY DEF Delete, Inv, NonNegative
<1>6. Ledger'
  BY DEF Delete, Inv, Ledger, ledger
<1> QED
  BY <1>1, <1>2, <1>3, <1>4, <1>5, <1>6 DEF Inv

\* A refused request changes no row.
LEMMA RejectInv ==
  ASSUME Inv, NEW r \in Requests, Reject(r)
  PROVE  Inv'
<1>1. TypeOK'
  BY ConstantsOK DEF Reject, Inv, TypeOK, ledger
<1>2. LockInv'
  BY ConstantsOK DEF Reject, Inv, LockInv, Visible
<1>3. CopyInv'
  BY DEF Reject, Inv, CopyInv
<1>4. AbsentInv'
  BY DEF Reject, Inv, AbsentInv, ledger
<1>5. NonNegative'
  BY DEF Reject, Inv, NonNegative
<1>6. Ledger'
  BY DEF Reject, Inv, Ledger, ledger
<1> QED
  BY <1>1, <1>2, <1>3, <1>4, <1>5, <1>6 DEF Inv

\* The audit is no part of the ledger.
LEMMA ReplyInv ==
  ASSUME Inv, NEW r \in Requests, Reply(r)
  PROVE  Inv'
<1>1. TypeOK'
  BY ConstantsOK DEF Reply, Inv, TypeOK, ledger
<1>2. LockInv'
  BY ConstantsOK DEF Reply, Inv, LockInv, Visible
<1>3. CopyInv'
  BY DEF Reply, Inv, CopyInv
<1>4. AbsentInv'
  BY DEF Reply, Inv, AbsentInv, ledger
<1>5. NonNegative'
  BY DEF Reply, Inv, NonNegative
<1>6. Ledger'
  BY DEF Reply, Inv, Ledger, ledger
<1> QED
  BY <1>1, <1>2, <1>3, <1>4, <1>5, <1>6 DEF Inv

\* A transaction that has begun holds nothing yet.
LEMMA DrawBeginInv ==
  ASSUME Inv, NEW r \in Requests, NEW m \in Materials, NEW q \in Quantities, DrawBegin(r, m, q)
  PROVE  Inv'
<1>1. TypeOK'
  BY ConstantsOK DEF DrawBegin, Inv, TypeOK, ledger
<1>2. LockInv'
  BY ConstantsOK DEF DrawBegin, Inv, LockInv, Visible
<1>3. CopyInv'
  BY DEF DrawBegin, Inv, CopyInv
<1>4. AbsentInv'
  BY DEF DrawBegin, Inv, AbsentInv, ledger
<1>5. NonNegative'
  BY DEF DrawBegin, Inv, NonNegative
<1>6. Ledger'
  BY DEF DrawBegin, Inv, Ledger, ledger
<1> QED
  BY <1>1, <1>2, <1>3, <1>4, <1>5, <1>6 DEF Inv

\* The lock is free, so no other transaction is past its SELECT on this row.
LEMMA DrawLockInv ==
  ASSUME Inv, NEW r \in Requests, DrawLock(r)
  PROVE  Inv'
<1>1. TypeOK'
  BY ConstantsOK DEF DrawLock, Inv, TypeOK, Row, ledger
<1>2. LockInv'
  BY ConstantsOK DEF DrawLock, Inv, TypeOK, LockInv, Visible, Free, Enough
<1>3. CopyInv'
  BY DEF DrawLock, Inv, CopyInv
<1>4. AbsentInv'
  BY DEF DrawLock, Inv, AbsentInv, ledger
<1>5. NonNegative'
  BY DEF DrawLock, Inv, NonNegative
<1>6. Ledger'
  BY DEF DrawLock, Inv, Ledger, ledger
<1> QED
  BY <1>1, <1>2, <1>3, <1>4, <1>5, <1>6 DEF Inv

\* Nothing was locked yet.
LEMMA DrawRefusedInv ==
  ASSUME Inv, NEW r \in Requests, DrawRefused(r)
  PROVE  Inv'
<1>1. TypeOK'
  BY ConstantsOK DEF DrawRefused, Inv, TypeOK, ledger
<1>2. LockInv'
  BY ConstantsOK DEF DrawRefused, Inv, LockInv, Visible
<1>3. CopyInv'
  BY DEF DrawRefused, Inv, CopyInv
<1>4. AbsentInv'
  BY DEF DrawRefused, Inv, AbsentInv, ledger
<1>5. NonNegative'
  BY DEF DrawRefused, Inv, NonNegative
<1>6. Ledger'
  BY DEF DrawRefused, Inv, Ledger, ledger
<1> QED
  BY <1>1, <1>2, <1>3, <1>4, <1>5, <1>6 DEF Inv

\* The copy is the row's quantity still, so the subtraction draws from it.
LEMMA DrawCommitInv ==
  ASSUME Inv, NEW r \in Requests, DrawCommit(r)
  PROVE  Inv'
<1>1. TypeOK'
  BY ConstantsOK DEF DrawCommit, Inv, TypeOK, Row, SaveMaterial, Release
<1>2. LockInv'
  BY ConstantsOK DEF DrawCommit, Inv, TypeOK, LockInv, Visible, SaveMaterial,
     Release
<1>3. CopyInv'
  BY DEF DrawCommit, Inv, CopyInv, SaveMaterial
<1>4. AbsentInv'
  BY DEF DrawCommit, Inv, TypeOK, AbsentInv, SaveMaterial
<1>5. NonNegative'
  BY DEF DrawCommit, Inv, TypeOK, LockInv, NonNegative, SaveMaterial
<1>6. Ledger'
  BY DEF DrawCommit, Inv, TypeOK, LockInv, Ledger, SaveMaterial
<1> QED
  BY <1>1, <1>2, <1>3, <1>4, <1>5, <1>6 DEF Inv

\* The row keeps its quantity, and the lock is free again.
LEMMA DrawRollbackInv ==
  ASSUME Inv, NEW r \in Requests, DrawRollback(r)
  PROVE  Inv'
<1>1. TypeOK'
  BY ConstantsOK DEF DrawRollback, Inv, TypeOK, Release, ledger
<1>2. LockInv'
  BY ConstantsOK DEF DrawRollback, Inv, TypeOK, LockInv, Visible, Release
<1>3. CopyInv'
  BY DEF DrawRollback, Inv, CopyInv
<1>4. AbsentInv'
  BY DEF DrawRollback, Inv, AbsentInv, ledger
<1>5. NonNegative'
  BY DEF DrawRollback, Inv, NonNegative
<1>6. Ledger'
  BY DEF DrawRollback, Inv, Ledger, ledger
<1> QED
  BY <1>1, <1>2, <1>3, <1>4, <1>5, <1>6 DEF Inv

\* A stuttering step changes nothing the invariant is about.
LEMMA StutterInv == Inv /\ UNCHANGED vars => Inv'
<1> SUFFICES ASSUME Inv, UNCHANGED vars PROVE Inv'
  OBVIOUS
<1>1. UNCHANGED <<material, lock, pc, op, target, copy, amount, drawn,
                  given, granted, overlapped>>
  BY DEF vars, requests, ledger
<1>2. TypeOK'
  BY <1>1 DEF Inv, TypeOK
<1>3. LockInv' /\ CopyInv' /\ AbsentInv'
  BY <1>1 DEF Inv, LockInv, CopyInv, AbsentInv, Visible
<1>4. NonNegative' /\ Ledger'
  BY <1>1 DEF Inv, NonNegative, Ledger
<1> QED
  BY <1>2, <1>3, <1>4 DEF Inv

\* Every step is one of those.
LEMMA NextInv == Inv /\ [Next]_vars => Inv'
<1> SUFFICES ASSUME Inv, [Next]_vars PROVE Inv'
  OBVIOUS
<1>1. CASE UNCHANGED vars
  BY <1>1, StutterInv
<1>2. CASE Next
  <2>1. PICK r \in Requests : Arrive(r) \/ Reject(r) \/ Statement(r) \/ Reply(r)
    BY <1>2 DEF Next
  <2>2. CASE Arrive(r)
    BY <2>2, FindInv, CreateInv, DrawBeginInv DEF Arrive
  <2>3. CASE Reject(r)
    BY <2>3, RejectInv
  <2>4. CASE Reply(r)
    BY <2>4, ReplyInv
  <2>5. CASE Statement(r)
    <3>1. CASE \E q \in Quantities : EditQuantity(r, q)
      BY <3>1, EditQuantityInv
    <3>2. CASE EditOther(r)
      BY <3>2, EditOtherInv
    <3>3. CASE Delete(r)
      BY <3>3, DeleteInv
    <3>4. CASE DrawLock(r)
      BY <3>4, DrawLockInv
    <3>5. CASE DrawRefused(r)
      BY <3>5, DrawRefusedInv
    <3>6. CASE DrawCommit(r)
      BY <3>6, DrawCommitInv
    <3>7. CASE DrawRollback(r)
      BY <3>7, DrawRollbackInv
    <3> QED
      BY <2>5, <3>1, <3>2, <3>3, <3>4, <3>5, <3>6, <3>7 DEF Statement
  <2> QED
    BY <2>1, <2>2, <2>3, <2>4, <2>5
<1> QED
  BY <1>1, <1>2

\* The inductive invariant holds in every reachable state.
THEOREM Invariance == Spec => []Inv
<1> QED
  BY InitInv, NextInv, PTL DEF Spec

-----------------------------------------------------------------------------
(* A deletion that no copy of the row overlaps.                               *)

\* A row that is gone was not absent, is not locked and is not read again: what
\* could bring it back is Create (absent rows), DrawCommit (visible rows) or an
\* Edit with a copy, and Find reads visible rows only.
LEMMA GoneStep ==
  Inv /\ [Next]_vars => [\A m \in Materials : Gone(m) => Gone(m)']_vars
<1> SUFFICES ASSUME Inv, [Next]_vars, NEW m \in Materials, Gone(m)
             PROVE  Gone(m)'
  OBVIOUS
<1>0. material \in [Materials -> Row]
  BY DEF Inv, TypeOK
<1>1. material[m].life = "deleted"
      /\ \A r \in Requests : ~(pc[r] = "read" /\ op[r] = "edit" /\ target[r] = m)
  BY DEF Gone, HoldsCopy
<1>2. CASE UNCHANGED vars
  BY <1>1, <1>2 DEF vars, requests, Gone, HoldsCopy
<1>3. CASE Next
  <2>1. PICK r \in Requests : Arrive(r) \/ Reject(r) \/ Statement(r) \/ Reply(r)
    BY <1>3 DEF Next
  <2>2. \A n \in Materials, q \in Quantities : Create(r, n, q) => Gone(m)'
    BY <1>0, <1>1 DEF Create, SaveMaterial, Gone, HoldsCopy
  <2>3. \A n \in Materials, o \in {"edit", "delete"} : Find(r, o, n) => Gone(m)'
    BY <1>1 DEF Find, Visible, Gone, HoldsCopy, Inv, TypeOK
  <2>4. \A n \in Materials, q \in Quantities : DrawBegin(r, n, q) => Gone(m)'
    BY <1>1 DEF DrawBegin, Gone, HoldsCopy, Inv, TypeOK
  <2>5. Reject(r) => Gone(m)'
    BY <1>1 DEF Reject, Gone, HoldsCopy, Inv, TypeOK
  <2>6. (\E q \in Quantities : EditQuantity(r, q)) \/ EditOther(r) => Gone(m)'
    <3> SUFFICES ASSUME \/ \E q \in Quantities : EditQuantity(r, q)
                        \/ EditOther(r)
                 PROVE  Gone(m)'
      OBVIOUS
    <3>1. /\ pc[r] = "read" /\ op[r] = "edit"
          /\ pc' = [pc EXCEPT ![r] = "audit"] /\ UNCHANGED <<op, target>>
          /\ \E q : material' = [material EXCEPT ![target[r]] = [life |-> "live", quantity |-> q]]
      BY DEF EditQuantity, EditOther, SaveMaterial
    <3>2. target[r] # m
      BY <1>1, <3>1
    <3> QED
      BY <1>0, <1>1, <3>1, <3>2 DEF Gone, HoldsCopy, Inv, TypeOK
  <2>7. Delete(r) => Gone(m)'
    BY <1>1 DEF Delete, Gone, HoldsCopy, Inv, TypeOK, Row
  <2>8. Reply(r) => Gone(m)'
    BY <1>1 DEF Reply, Gone, HoldsCopy, Inv, TypeOK
  <2>9. DrawLock(r) \/ DrawRefused(r) \/ DrawRollback(r) => Gone(m)'
    BY <1>1 DEF DrawLock, DrawRefused, DrawRollback, Gone, HoldsCopy, Inv, TypeOK
  <2>10. DrawCommit(r) => Gone(m)'
    <3> SUFFICES ASSUME DrawCommit(r) PROVE Gone(m)'
      OBVIOUS
    <3>1. Visible(target[r])
      BY DEF DrawCommit, Inv, LockInv
    <3>2. target[r] # m
      BY <1>1, <3>1 DEF Visible
    <3> QED
      BY <1>0, <1>1, <3>2 DEF DrawCommit, SaveMaterial, Gone, HoldsCopy, Inv, TypeOK
  <2> QED
    BY <2>1, <2>2, <2>3, <2>4, <2>5, <2>6, <2>7, <2>8, <2>9, <2>10
       DEF Arrive, Statement
<1> QED
  BY <1>2, <1>3

-----------------------------------------------------------------------------
(* The theorems.                                                              *)

\* Every variable keeps its type (TypeOK), a request past the read names a row.
THEOREM TypeCorrect == Spec => []TypeOK
<1>1. Inv => TypeOK
  BY DEF Inv
<1> QED
  BY <1>1, Invariance, PTL

\* No interleaving of draws, edits and deletions makes a quantity negative.
THEOREM StockIsNotNegative == Spec => []NonNegative
<1>1. Inv => NonNegative
  BY DEF Inv
<1> QED
  BY <1>1, Invariance, PTL

\* The stock is what was set on purpose minus what was drawn since, except where
\* an Edit wrote an outdated quantity back.
THEOREM StockIsAccounted == Spec => []Ledger
<1>1. Inv => Ledger
  BY DEF Inv
<1> QED
  BY <1>1, Invariance, PTL

\* A deleted material that no Edit holds a copy of stays deleted.
THEOREM FinalDeletion == Spec => DeletionIsFinal
<1>1. Inv /\ [Next]_vars => [\A m \in Materials : Gone(m) => Gone(m)']_vars
  BY GoneStep
<1> QED
  BY <1>1, Invariance, PTL DEF Spec, DeletionIsFinal

-----------------------------------------------------------------------------
(* Inventory implements Stock.                                                *)

\* A request that drew is over, whatever the others do.
LEMMA DrawInvStep == Inv /\ DrawInv /\ [Next]_vars => DrawInv'
<1> SUFFICES ASSUME Inv, DrawInv, [Next]_vars PROVE DrawInv'
  OBVIOUS
<1>1. CASE UNCHANGED vars
  BY <1>1 DEF vars, requests, DrawInv
<1>2. CASE Next
  <2>1. PICK r \in Requests : Arrive(r) \/ Reject(r) \/ Statement(r) \/ Reply(r)
    BY <1>2 DEF Next
  <2>2. /\ pc \in [Requests -> {"idle", "read", "begun", "locked", "audit", "replied", "rejected", "hung"}]
        /\ amount \in [Requests -> Nat]
        /\ drawn \subseteq [by : Requests, from : Materials]
        /\ target[r] \in Materials \cup {None}
    BY DEF Inv, TypeOK
  <2>3. CASE \E m \in Materials, o \in {"edit", "delete"} : Find(r, o, m)
    BY <2>2, <2>3 DEF Find, DrawInv
  <2>4. CASE \E m \in Materials, q \in Quantities : Create(r, m, q)
    BY <2>2, <2>4 DEF Create, DrawInv
  <2>5. CASE \E m \in Materials, q \in Quantities : DrawBegin(r, m, q)
    BY <2>2, <2>5, ConstantsOK DEF DrawBegin, DrawInv
  <2>6. CASE Reject(r)
    BY <2>2, <2>6 DEF Reject, DrawInv
  <2>7. CASE (\E q \in Quantities : EditQuantity(r, q)) \/ EditOther(r) \/ Delete(r)
    BY <2>2, <2>7 DEF EditQuantity, EditOther, Delete, DrawInv
  <2>8. CASE Reply(r)
    BY <2>2, <2>8 DEF Reply, DrawInv
  <2>9. CASE DrawLock(r) \/ DrawRefused(r) \/ DrawRollback(r)
    BY <2>2, <2>9 DEF DrawLock, DrawRefused, DrawRollback, DrawInv
  <2>10. CASE DrawCommit(r)
    <3>1. /\ pc' = [pc EXCEPT ![r] = "replied"] /\ UNCHANGED amount
          /\ drawn' = drawn \cup {[by |-> r, from |-> target[r]]}
      BY <2>10 DEF DrawCommit
    <3>2. \A d \in drawn' : pc'[d.by] = "replied"
      BY <2>2, <3>1 DEF DrawInv
    <3> QED
      BY <2>2, <3>1, <3>2 DEF DrawInv
  <2> QED
    BY <2>1, <2>3, <2>4, <2>5, <2>6, <2>7, <2>8, <2>9, <2>10 DEF Arrive, Statement
<1> QED
  BY <1>1, <1>2

\* Nobody drew yet.
LEMMA DrawInvInit == Init => DrawInv
BY DEF Init, DrawInv

\* A step that inserts no transmutation leaves those there are as they were: the
\* amount of a request that drew is never set again.
LEMMA GrantsKept ==
  ASSUME Inv, DrawInv, drawn' = drawn,
         \/ amount' = amount
         \/ \E r \in Requests, q \in Quantities :
              pc[r] = "idle" /\ amount' = [amount EXCEPT ![r] = q]
  PROVE  grants' = grants
<1>1. \A d \in drawn : amount'[d.by] = amount[d.by]
  BY DEF Inv, TypeOK, DrawInv
<1> QED
  BY <1>1 DEF grants

\* A row that gets a quantity that is not negative is put.
LEMMA SaveIsPut ==
  ASSUME Inv, NonNegative', grants' = grants,
         NEW m \in Materials, NEW q \in Int, SaveMaterial(m, q)
  PROVE  Promise!Next
<1>1. material' = [material EXCEPT ![m] = [life |-> "live", quantity |-> q]]
  BY DEF SaveMaterial
<1>2. material \in [Materials -> Row]
  BY DEF Inv, TypeOK
<1>3. material'[m] = [life |-> "live", quantity |-> q]
  BY <1>1, <1>2
<1>4. q \in Nat
  BY <1>3 DEF NonNegative
<1>5. Promise!Put(m)
  <2>1. material' = [material EXCEPT ![m] = material'[m]]
    BY <1>1, <1>3
  <2>2. material'[m] \in Promise!Row /\ material'[m].life = "live"
    BY <1>3, <1>4 DEF Promise!Row
  <2> QED
    BY <2>1, <2>2 DEF Promise!Put, grants
<1> QED
  BY <1>5 DEF Promise!Next

\* The commit of a draw is the draw: its row is as the transaction read it.
LEMMA CommitIsDraw ==
  ASSUME Inv, DrawInv, NEW r \in Requests, DrawCommit(r)
  PROVE  Promise!Next
<1>0. PICK row \in Materials, q \in Nat : row = target[r] /\ q = amount[r]
  BY DEF DrawCommit, Inv, TypeOK
<1>1. q > 0 /\ pc[r] = "locked"
  BY <1>0 DEF DrawCommit, DrawInv
<1>2. /\ material \in [Materials -> Row]
      /\ material[row].life = "live" /\ copy[r] = material[row].quantity
      /\ q <= material[row].quantity
  BY <1>0 DEF DrawCommit, Inv, TypeOK, LockInv, Visible
<1>3. material[row].quantity \in Int
  BY <1>1, <1>2 DEF Row
<1>4. q \in 1 .. material[row].quantity
  BY <1>1, <1>2, <1>3
<1>5. material' = [material EXCEPT ![row].quantity = @ - q]
  <2>1. material[row] = [life |-> "live", quantity |-> material[row].quantity]
    BY <1>1, <1>2 DEF Row
  <2>2. [material[row] EXCEPT !.quantity = @ - q] = [life |-> "live", quantity |-> copy[r] - q]
    BY <1>2, <2>1
  <2> QED
    BY <1>0, <1>2, <2>2 DEF DrawCommit, SaveMaterial
<1>6. grants' = grants \cup {[by |-> r, from |-> row, amount |-> q]}
  <2>1. drawn' = drawn \cup {[by |-> r, from |-> row]} /\ amount' = amount
    BY <1>0 DEF DrawCommit
  <2> DEFINE grant(d) == [by |-> d.by, from |-> d.from, amount |-> amount[d.by]]
  <2>2. grants = {grant(d) : d \in drawn}
    BY DEF grants
  <2>3. grants' = {grant(d) : d \in drawn'}
    BY <2>1 DEF grants
  <2>4. grant([by |-> r, from |-> row]) = [by |-> r, from |-> row, amount |-> q]
    BY <1>0
  <2> HIDE DEF grant
  <2> QED
    BY <2>1, <2>2, <2>3, <2>4
<1>7. \A g \in grants : g.by # r
  BY <1>1 DEF grants, DrawInv
<1>8. Promise!Draw(r, row)
  BY <1>2, <1>4, <1>5, <1>6, <1>7 DEF Promise!Draw, grants
<1> QED
  BY <1>8 DEF Promise!Next

\* Every step is one of Stock's, or none.
LEMMA StepKeepsPromise ==
  ASSUME Inv, DrawInv, [Next]_vars, Inv'
  PROVE  [Promise!Next]_(Promise!vars)
<1>1. ASSUME UNCHANGED material, grants' = grants
      PROVE  [Promise!Next]_(Promise!vars)
  BY <1>1 DEF Promise!vars, grants
<1>2. CASE UNCHANGED vars
  BY <1>1, <1>2, GrantsKept DEF vars, requests
<1>3. CASE Next
  <2>1. PICK r \in Requests : Arrive(r) \/ Reject(r) \/ Statement(r) \/ Reply(r)
    BY <1>3 DEF Next
  <2>2. NonNegative'
    BY DEF Inv
  <2>3. CASE \E m \in Materials, q \in Quantities : Create(r, m, q)
    <3>1. PICK m \in Materials, q \in Quantities : Create(r, m, q)
      BY <2>3
    <3>2. q \in Int /\ SaveMaterial(m, q) /\ UNCHANGED <<drawn, amount>>
      BY <3>1, ConstantsOK DEF Create
    <3> QED
      BY <2>2, <3>2, GrantsKept, SaveIsPut
  <2>4. CASE \E q \in Quantities : EditQuantity(r, q)
    <3>1. PICK q \in Quantities : EditQuantity(r, q)
      BY <2>4
    <3>2. /\ q \in Int /\ SaveMaterial(target[r], q) /\ UNCHANGED <<drawn, amount>>
          /\ target[r] \in Materials
      BY <3>1, ConstantsOK DEF EditQuantity, Inv, TypeOK
    <3> QED
      BY <2>2, <3>2, GrantsKept, SaveIsPut
  <2>5. CASE EditOther(r)
    <3>1. /\ copy[r] \in Int /\ SaveMaterial(target[r], copy[r]) /\ UNCHANGED <<drawn, amount>>
          /\ target[r] \in Materials
      BY <2>5 DEF EditOther, Inv, TypeOK
    <3> QED
      BY <2>2, <3>1, GrantsKept, SaveIsPut
  <2>6. CASE Delete(r)
    <3>1. grants' = grants
      BY <2>6, GrantsKept DEF Delete
    <3>2. target[r] \in Materials
      BY <2>6 DEF Delete, Inv, TypeOK
    <3>3. Promise!Remove(target[r])
      BY <2>6, <3>1 DEF Delete, Promise!Remove, grants
    <3> QED
      BY <3>2, <3>3 DEF Promise!Next
  <2>7. CASE DrawCommit(r)
    BY <2>7, CommitIsDraw
  <2>8. CASE \E m \in Materials, q \in Quantities : DrawBegin(r, m, q)
    <3>1. PICK m \in Materials, q \in Quantities : DrawBegin(r, m, q)
      BY <2>8
    <3> QED
      BY <1>1, <3>1, GrantsKept DEF DrawBegin
  <2>9. CASE \/ \E m \in Materials, o \in {"edit", "delete"} : Find(r, o, m)
             \/ Reject(r) \/ Reply(r) \/ DrawLock(r) \/ DrawRefused(r) \/ DrawRollback(r)
    <3>1. UNCHANGED <<material, drawn, amount>>
      BY <2>9 DEF Find, Reject, Reply, DrawLock, DrawRefused, DrawRollback
    <3> QED
      BY <1>1, <3>1, GrantsKept
  <2> QED
    BY <2>1, <2>3, <2>4, <2>5, <2>6, <2>7, <2>8, <2>9 DEF Arrive, Statement
<1> QED
  BY <1>2, <1>3

\* A draw is one step for everybody else.
THEOREM InventoryImplementsStock == Spec => DrawsAreAtomic
<1>1. Init => Promise!Init
  <2> SUFFICES ASSUME Init PROVE Promise!Init
    OBVIOUS
  <2>1. material \in [Materials -> Row] /\ \A m \in Materials : material[m].quantity >= 0
    BY InitInv DEF Inv, TypeOK, NonNegative
  <2>2. material \in [Materials -> Promise!Row]
    BY <2>1 DEF Row, Promise!Row
  <2> QED
    BY <2>2 DEF Init, grants, Promise!Init
<1>2. Inv /\ DrawInv /\ [Next]_vars /\ Inv' => [Promise!Next]_(Promise!vars)
  BY StepKeepsPromise
<1>3. Spec => []DrawInv
  BY DrawInvInit, DrawInvStep, Invariance, PTL DEF Spec
<1> QED
  BY <1>1, <1>2, <1>3, Invariance, PTL DEF Spec, DrawsAreAtomic, Promise!Spec
=============================================================================
