------------------------------ MODULE Inventory ------------------------------
(* Table materials and the requests that change it: the handlers Create, Edit *)
(* and Delete of material_handlers.go and the transaction by which a new      *)
(* transmutation draws its material (transmutation_repository.go).            *)
(*                                                                            *)
(* The transaction locks the row it draws from (SELECT ... FOR UPDATE). Edit  *)
(* and Delete read the row without a lock, so other requests commit between   *)
(* their read and their write; their UPDATE waits for the row's lock.         *)
(* Quantities are whole numbers here; the code's are float64.                 *)
EXTENDS Integers

CONSTANTS
  Materials,     \* primary keys of table materials
  Requests,      \* HTTP requests; each is served once
  Stocked,       \* materials init.sql inserts
  Quantities,    \* quantities a client may send, and init.sql's
  None           \* nobody holds the lock; a request not yet about a material

ASSUME ConstantsOK ==
  /\ Stocked \subseteq Materials
  /\ Quantities \subseteq Nat
  /\ None \notin Requests \cup Materials

VARIABLES
  material,      \* the rows: soft-deletion state and quantity
  lock,          \* per row: the transaction that holds its lock
  pc, op, target,  \* per request: step, operation, row id
  copy,          \* per request: the quantity it read
  amount,        \* per request: the quantity it draws
  drawn,         \* table transmutations: who drew from what
  given,         \* history: the quantity last set on purpose
  granted,       \* history: drawn since then
  overlapped     \* history: rows an Edit gave an outdated quantity since then

requests == <<pc, op, target, copy, amount>>
ledger == <<given, granted, overlapped>>
vars == <<material, lock, requests, drawn, ledger>>

Row == [life : {"absent", "live", "deleted"}, quantity : Int]

TypeOK ==
  /\ material \in [Materials -> Row]
  /\ lock \in [Materials -> Requests \cup {None}]
  /\ pc \in [Requests -> {"idle", "read", "begun", "locked", "audit", "replied", "rejected", "hung"}]
  /\ op \in [Requests -> {"create", "edit", "delete", "draw"}]
  /\ target \in [Requests -> Materials \cup {None}]
  /\ \A r \in Requests : pc[r] \in {"read", "begun", "locked"} => target[r] \in Materials
  /\ copy \in [Requests -> Int]
  /\ amount \in [Requests -> Nat]
  /\ drawn \subseteq [by : Requests, from : Materials]
  /\ given \in [Materials -> Nat]
  /\ granted \in [Materials -> Nat]
  /\ overlapped \subseteq Materials

Init ==
  /\ \E q \in [Materials -> Quantities] :
       /\ material = [m \in Materials |->
            IF m \in Stocked THEN [life |-> "live", quantity |-> q[m]]
            ELSE [life |-> "absent", quantity |-> 0]]
       /\ given = [m \in Materials |-> IF m \in Stocked THEN q[m] ELSE 0]
  /\ lock = [m \in Materials |-> None]
  /\ pc = [r \in Requests |-> "idle"]
  /\ op = [r \in Requests |-> "create"]
  /\ target = [r \in Requests |-> None]
  /\ copy = [r \in Requests |-> 0]
  /\ amount = [r \in Requests |-> 0]
  /\ drawn = {}
  /\ granted = [m \in Materials |-> 0]
  /\ overlapped = {}

-----------------------------------------------------------------------------
(* Postgres.                                                                  *)

VisibleMutant(m) == material[m].life # "absent"
\* What First(&m, id) finds: rows with deleted_at IS NULL.
Visible(m) == material[m].life = "live"

FreeMutant(m) == TRUE
\* Nobody holds the row's lock; SELECT ... FOR UPDATE and UPDATE wait for that.
Free(m) == lock[m] = None

EnoughMutant(m, q) == TRUE
\* The check of the transaction that draws.
Enough(m, q) == q <= material[m].quantity

\* gorm's Save: UPDATE of every column or, if the row was soft-deleted since it
\* was read, INSERT ... ON CONFLICT DO UPDATE of every column and deleted_at.
SaveMaterial(m, q) == material' = [material EXCEPT ![m] = [life |-> "live", quantity |-> q]]

-----------------------------------------------------------------------------
(* material_handlers.go                                                       *)

\* Create: a row of its own with the client's quantity, which is not negative.
Create(r, m, q) ==
  /\ pc[r] = "idle" /\ material[m].life = "absent"
  /\ SaveMaterial(m, q)
  /\ given' = [given EXCEPT ![m] = q]
  /\ pc' = [pc EXCEPT ![r] = "audit"]
  /\ UNCHANGED <<lock, op, target, copy, amount, drawn, granted, overlapped>>

\* Edit and Delete begin with FindById.
Find(r, o, m) ==
  /\ pc[r] = "idle" /\ Visible(m)
  /\ pc' = [pc EXCEPT ![r] = "read"]
  /\ op' = [op EXCEPT ![r] = o]
  /\ target' = [target EXCEPT ![r] = m]
  /\ copy' = [copy EXCEPT ![r] = material[m].quantity]
  /\ UNCHANGED <<material, lock, amount, drawn, ledger>>

\* Edit with a quantity in the body: the row gets that quantity.
EditQuantity(r, q) ==
  /\ pc[r] = "read" /\ op[r] = "edit" /\ Free(target[r])
  /\ SaveMaterial(target[r], q)
  /\ given' = [given EXCEPT ![target[r]] = q]
  /\ granted' = [granted EXCEPT ![target[r]] = 0]
  /\ overlapped' = overlapped \ {target[r]}
  /\ pc' = [pc EXCEPT ![r] = "audit"]
  /\ UNCHANGED <<lock, op, target, copy, amount, drawn>>

\* Edit of name or category only: Save writes the quantity back that was read.
EditOther(r) ==
  /\ pc[r] = "read" /\ op[r] = "edit" /\ Free(target[r])
  /\ SaveMaterial(target[r], copy[r])
  /\ overlapped' = IF copy[r] = material[target[r]].quantity THEN overlapped
                   ELSE overlapped \cup {target[r]}
  /\ pc' = [pc EXCEPT ![r] = "audit"]
  /\ UNCHANGED <<lock, op, target, copy, amount, drawn, given, granted>>

\* Delete: soft deletion; a row already deleted is no error.
Delete(r) ==
  /\ pc[r] = "read" /\ op[r] = "delete" /\ Free(target[r])
  /\ material' = [material EXCEPT ![target[r]].life = "deleted"]
  /\ pc' = [pc EXCEPT ![r] = "audit"]
  /\ UNCHANGED <<lock, op, target, copy, amount, drawn, ledger>>

\* An early return after the read: a body that is no JSON, a negative quantity,
\* a failed statement.
Reject(r) ==
  /\ pc[r] = "read"
  /\ pc' = [pc EXCEPT ![r] = "rejected"]
  /\ UNCHANGED <<material, lock, op, target, copy, amount, drawn, ledger>>

\* EnqueueAudit, then the reply. An error of EnqueueAudit is only reported, and
\* what became of the task changes nothing here (TransmutationPipeline models
\* tasks). But EnqueueAudit may never return (redis_client.go 137): no reply.
Reply(r) ==
  /\ pc[r] = "audit"
  /\ \E s \in {"replied", "hung"} : pc' = [pc EXCEPT ![r] = s]
  /\ UNCHANGED <<material, lock, op, target, copy, amount, drawn, ledger>>

-----------------------------------------------------------------------------
(* TransmutationRepository.Create                                             *)

\* A validated request for an amount begins the transaction. (A request for no
\* material, or for nothing of it, touches nothing.)
DrawBegin(r, m, q) ==
  /\ pc[r] = "idle" /\ q > 0
  /\ pc' = [pc EXCEPT ![r] = "begun"]
  /\ op' = [op EXCEPT ![r] = "draw"]
  /\ target' = [target EXCEPT ![r] = m]
  /\ amount' = [amount EXCEPT ![r] = q]
  /\ UNCHANGED <<material, lock, copy, drawn, ledger>>

\* SELECT ... FOR UPDATE, once the row is free, returns it as last committed,
\* and there is enough.
DrawLock(r) ==
  /\ pc[r] = "begun" /\ Free(target[r])
  /\ Visible(target[r]) /\ Enough(target[r], amount[r])
  /\ lock' = [lock EXCEPT ![target[r]] = r]
  /\ pc' = [pc EXCEPT ![r] = "locked"]
  /\ copy' = [copy EXCEPT ![r] = material[target[r]].quantity]
  /\ UNCHANGED <<material, op, target, amount, drawn, ledger>>

\* ErrMaterialNotFound or ErrInsufficientMaterial: ROLLBACK.
DrawRefused(r) ==
  /\ pc[r] = "begun" /\ Free(target[r])
  /\ ~Visible(target[r]) \/ ~Enough(target[r], amount[r])
  /\ pc' = [pc EXCEPT ![r] = "rejected"]
  /\ UNCHANGED <<material, lock, op, target, copy, amount, drawn, ledger>>

ReleaseMutant(m) == UNCHANGED lock
\* COMMIT and ROLLBACK release the row's lock.
Release(m) == lock' = [lock EXCEPT ![m] = None]

\* The UPDATE of the quantity, the INSERT of the transmutation, COMMIT. The
\* request is done with the stock; TransmutationPipeline models what follows.
DrawCommit(r) ==
  /\ pc[r] = "locked"
  /\ SaveMaterial(target[r], copy[r] - amount[r])
  /\ drawn' = drawn \cup {[by |-> r, from |-> target[r]]}
  /\ granted' = [granted EXCEPT ![target[r]] = @ + amount[r]]
  /\ Release(target[r])
  /\ pc' = [pc EXCEPT ![r] = "replied"]
  /\ UNCHANGED <<op, target, copy, amount, given, overlapped>>

\* A statement fails (the owner does not exist, say) or the back end dies:
\* ROLLBACK.
DrawRollback(r) ==
  /\ pc[r] = "locked"
  /\ Release(target[r])
  /\ pc' = [pc EXCEPT ![r] = "rejected"]
  /\ UNCHANGED <<material, op, target, copy, amount, drawn, ledger>>

-----------------------------------------------------------------------------
Arrive(r) ==
  \E m \in Materials :
    \/ \E o \in {"edit", "delete"} : Find(r, o, m)
    \/ \E q \in Quantities : Create(r, m, q) \/ DrawBegin(r, m, q)

\* The next statement of a request that Postgres serves.
Statement(r) ==
  \/ \E q \in Quantities : EditQuantity(r, q)
  \/ EditOther(r) \/ Delete(r)
  \/ DrawLock(r) \/ DrawRefused(r) \/ DrawCommit(r) \/ DrawRollback(r)

Next == \E r \in Requests : Arrive(r) \/ Reject(r) \/ Statement(r) \/ Reply(r)

Spec == Init /\ [][Next]_vars

\* Handlers run between their statements, and Postgres executes the statements
\* it is given, each when the lock it needs is free. No request is sure to be
\* rejected, and none is sure to be answered: Redis may keep it for ever.
FairSpec == Spec /\ \A r \in Requests : WF_vars(Statement(r))

-----------------------------------------------------------------------------
(* Safety.                                                                    *)

\* No interleaving of draws and edits makes the stock negative: the check and
\* the subtraction are under one lock, and an Edit writes what was once there
\* or what was validated (transmutation_repository.go 61-73,
\* material_handlers.go 204-212).
NonNegative == \A m \in Materials : material[m].quantity >= 0

\* The stock is what was last set on purpose minus what was drawn since, so the
\* grants never exceed what there was. The exception is the race the code has:
\* an Edit of another column that read the row before a draw (or before another
\* Edit's quantity) and saved after it puts the old quantity back
\* (material_handlers.go 182-212).
Ledger ==
  \A m \in Materials \ overlapped :
    material[m].quantity = given[m] - granted[m]

\* Who may still write row m back.
HoldsCopy(m) ==
  \E r \in Requests : pc[r] = "read" /\ op[r] = "edit" /\ target[r] = m

Gone(m) == material[m].life = "deleted" /\ ~HoldsCopy(m)

\* A deleted material comes back only through an Edit that read it before the
\* deletion; a draw never brings it back, although it Saves the row too
\* (transmutation_repository.go 61-71, material_handlers.go 162, 212).
DeletionIsFinal == [][\A m \in Materials : Gone(m) => Gone(m)']_vars

-----------------------------------------------------------------------------
(* Refinement.                                                                *)

\* The transmutations, with the amounts they drew.
grants == {[by |-> d.by, from |-> d.from, amount |-> amount[d.by]] : d \in drawn}

Promise == INSTANCE Stock WITH grants <- grants

\* The transaction is one step for everybody else: a transmutation is inserted
\* if and only if its amount leaves a material that is not deleted, has that
\* much at that moment and keeps what is left; nothing ever becomes negative
\* (transmutation_repository.go 60-86).
DrawsAreAtomic == Promise!Spec

-----------------------------------------------------------------------------
(* What else holds in every reachable state and makes the properties above    *)
(* inductive; InventoryProofs proves it.                                      *)

\* A transaction past its SELECT ... FOR UPDATE holds the lock of its row, the
\* row is as it read it, and there is enough. Nobody else holds a lock.
LockInv ==
  /\ \A r \in Requests : pc[r] = "locked" =>
       /\ lock[target[r]] = r
       /\ Visible(target[r])
       /\ copy[r] = material[target[r]].quantity /\ amount[r] <= copy[r]
  /\ \A m \in Materials : lock[m] # None =>
       pc[lock[m]] = "locked" /\ target[lock[m]] = m

\* A row that was read exists, and the quantity read was not negative.
CopyInv ==
  \A r \in Requests : pc[r] = "read" =>
    copy[r] >= 0 /\ material[target[r]].life # "absent"

\* Nothing was drawn from a row that does not exist yet.
AbsentInv ==
  \A m \in Materials : material[m].life = "absent" =>
    given[m] = 0 /\ granted[m] = 0 /\ material[m].quantity = 0

Inv == TypeOK /\ LockInv /\ CopyInv /\ AbsentInv /\ NonNegative /\ Ledger

\* A transaction draws something, and its request is over once it has: the
\* transmutation keeps its amount and is the only one of the request.
DrawInv ==
  /\ \A r \in Requests : pc[r] \in {"begun", "locked"} => amount[r] > 0
  /\ \A d \in drawn : pc[d.by] = "replied"

-----------------------------------------------------------------------------
(* Liveness, under FairSpec.                                                  *)

\* A request about to read or change the stock.
Pending(r) == pc[r] \in {"read", "begun", "locked"}

\* Only the transactions that draw keep a lock from one statement to the next,
\* one row each, and none of them waits for anything but Postgres meanwhile. So
\* nobody waits for a row for ever, not even while other requests hang in Redis:
\* every request gets through its statements or is rejected
\* (transmutation_repository.go 56-86, material_handlers.go 162, 212). That it
\* is then answered is not claimed: the EnqueueAudit that follows may not return.
StatementsEnd == \A r \in Requests : Pending(r) ~> ~Pending(r)
=============================================================================
