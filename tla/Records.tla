------------------------------- MODULE Records -------------------------------
(* Tables missions, alchemists and audits and the requests that change them:  *)
(* mission_handlers.go, alchemist_handlers.go, audit_handlers.go and their    *)
(* repositories.                                                              *)
(*                                                                            *)
(* The three handlers have one shape: Edit, UpdateStatus and Delete read a    *)
(* row, change the copy and Save it whole, without a lock, so that other      *)
(* requests commit in between. Only a mission has a status, and only its      *)
(* handlers decide what to report: a mission that becomes completed is        *)
(* reported as mission_closed. The other columns are one column here, text.   *)

CONSTANTS
  Missions, Alchemists, Audits,  \* primary keys of the three tables
  Requests,      \* HTTP requests; each is served once
  Seed,          \* the rows init.sql inserts: a function from their keys
  Words,         \* what a client may mean by a status, spelling aside
  Texts,         \* what it may write in the other columns
  None           \* a column a body does not have; a table without a status

Rows == Missions \cup Alchemists \cup Audits

\* A status is a word and how it is spelled: as the constants of models/
\* mission.go are, in another case, or with spaces around it.
Status == [word : Words, spelling : {"exact", "case", "spaces"}]
Exact(w) == [word |-> w, spelling |-> "exact"]
Pending == Exact("PENDING")
Completed == Exact("COMPLETED")
AllowedWords == {"PENDING", "IN_PROGRESS", "COMPLETED", "ARCHIVED"}

\* The columns an Edit may set, and the bodies it may come with.
Columns == [status : Status \cup {None}, text : Texts]
Bodies == [status : Status \cup {None}, text : Texts \cup {None}]

ASSUME ConstantsOK ==
  /\ {"PENDING", "COMPLETED"} \subseteq Words
  /\ None \notin Status \cup Texts /\ Texts # {}
  /\ DOMAIN Seed \subseteq Rows
  /\ \A i \in DOMAIN Seed : Seed[i] \in Columns /\ (Seed[i].status = None <=> i \notin Missions)
  /\ Missions \cap (Alchemists \cup Audits) = {}

VARIABLES
  life,          \* per row: absent, live or (softly) deleted
  row,           \* per row: its columns
  pc, op, target,  \* per request: step, operation, row id
  copy,          \* per request: the columns it read and changed
  action,        \* per request: what it reports
  meant,         \* history: per row, what each column was last set to
  outdated,      \* history: columns a Save gave another value than that
  overtaken,     \* history: requests that saved over a status they had not read
  rewritten      \* history: missions that were completed and got another status

requests == <<pc, op, target, copy, action>>
history == <<meant, outdated, overtaken, rewritten>>
vars == <<life, row, requests, history>>

Saved == {"saved", "reported", "unreported"}

TypeOK ==
  /\ life \in [Rows -> {"absent", "live", "deleted"}]
  /\ row \in [Rows -> Columns]
  /\ pc \in [Requests -> {"idle", "read", "replied"} \cup Saved]
  /\ op \in [Requests -> {"create", "edit", "status", "delete"}]
  /\ target \in [Requests -> Rows \cup {None}]
  /\ \A r \in Requests : pc[r] # "idle" => target[r] \in Rows
  /\ copy \in [Requests -> Columns]
  /\ action \in [Requests -> {"none", "created", "updated", "changed", "closed", "deleted"}]
  /\ meant \in [Rows -> Columns]
  /\ outdated \subseteq Rows \X {"status", "text"}
  /\ overtaken \subseteq Requests
  /\ rewritten \subseteq Missions

Blank(i) == [status |-> IF i \in Missions THEN Pending ELSE None,
             text |-> CHOOSE t \in Texts : TRUE]

Init ==
  /\ life = [i \in Rows |-> IF i \in DOMAIN Seed THEN "live" ELSE "absent"]
  /\ row = [i \in Rows |-> IF i \in DOMAIN Seed THEN Seed[i] ELSE Blank(i)]
  /\ meant = row
  /\ pc = [r \in Requests |-> "idle"]
  /\ op = [r \in Requests |-> "create"]
  /\ target = [r \in Requests |-> None]
  /\ copy = [r \in Requests |-> [status |-> None, text |-> CHOOSE t \in Texts : TRUE]]
  /\ action = [r \in Requests |-> "none"]
  /\ outdated = {} /\ overtaken = {} /\ rewritten = {}

-----------------------------------------------------------------------------
(* Statuses.                                                                  *)

\* normalizeMissionStatus: trimmed and in upper case.
Normalize(s) == Exact(s.word)
Allowed(s) == s.word \in AllowedWords

\* strings.EqualFold with COMPLETED: any case, but no spaces.
IsCompleted(s) == s # None /\ s.word = "COMPLETED" /\ s.spelling # "spaces"

-----------------------------------------------------------------------------
(* Postgres.                                                                  *)

VisibleMutant(i) == life[i] # "absent"
\* What First finds: rows with deleted_at IS NULL.
Visible(i) == life[i] = "live"

\* gorm's Save: UPDATE of every column or, if the row was soft-deleted since it
\* was read, INSERT ... ON CONFLICT DO UPDATE of every column and deleted_at.
\* Of the columns in new, the client asked for those that body has.
Save(r, new, body) ==
  LET i == target[r]
  IN /\ life' = [life EXCEPT ![i] = "live"]
     /\ row' = [row EXCEPT ![i] = new]
     /\ meant' = [meant EXCEPT ![i] =
          [c \in {"status", "text"} |-> IF body[c] = None THEN @[c] ELSE body[c]]]
     /\ outdated' =
          {p \in outdated : p[1] # i}
            \cup {p \in {<<i, "status">>, <<i, "text">>} :
                    body[p[2]] = None /\ (p \in outdated \/ row[i][p[2]] # new[p[2]])}
     /\ overtaken' = IF row[i].status = copy[r].status THEN overtaken
                     ELSE overtaken \cup {r}
     /\ rewritten' = IF IsCompleted(row[i].status) /\ new.status # row[i].status
                     THEN rewritten \cup {i} ELSE rewritten

-----------------------------------------------------------------------------
(* The handlers.                                                              *)

\* Create: a row of its own; a mission is pending whatever the body says.
Create(r, i, t) ==
  /\ pc[r] = "idle" /\ life[i] = "absent"
  /\ life' = [life EXCEPT ![i] = "live"]
  /\ row' = [row EXCEPT ![i] = [Blank(i) EXCEPT !.text = t]]
  /\ meant' = [meant EXCEPT ![i] = [Blank(i) EXCEPT !.text = t]]
  /\ pc' = [pc EXCEPT ![r] = "saved"]
  /\ op' = [op EXCEPT ![r] = "create"]
  /\ target' = [target EXCEPT ![r] = i]
  /\ action' = [action EXCEPT ![r] = "created"]
  /\ UNCHANGED <<copy, outdated, overtaken, rewritten>>

\* The other operations begin with FindById.
Find(r, o, i) ==
  /\ pc[r] = "idle" /\ Visible(i)
  /\ o = "status" => i \in Missions
  /\ pc' = [pc EXCEPT ![r] = "read"]
  /\ op' = [op EXCEPT ![r] = o]
  /\ target' = [target EXCEPT ![r] = i]
  /\ copy' = [copy EXCEPT ![r] = row[i]]
  /\ UNCHANGED <<life, row, action, history>>

MergedForgetsMutant(c, b) == [c EXCEPT !.status = IF b.status = None THEN @ ELSE b.status]
\* Edit merges what the body has into the copy.
Merged(c, b) == [status |-> IF b.status = None THEN c.status ELSE b.status,
                 text |-> IF b.text = None THEN c.text ELSE b.text]

EditActionMutant(c, new) == IF c # new /\ new = Completed THEN "closed" ELSE "updated"
EditActionAgainMutant(c, new) == IF IsCompleted(new) THEN "closed" ELSE "updated"
\* What Edit reports: the column has changed and reads COMPLETED.
EditAction(c, new) == IF c # new /\ IsCompleted(new) THEN "closed" ELSE "updated"

Edit(r, b) ==
  LET new == Merged(copy[r], b)
  IN /\ pc[r] = "read" /\ op[r] = "edit"
     /\ target[r] \notin Missions => b.status = None
     /\ Save(r, new, b)
     /\ action' = [action EXCEPT ![r] = EditAction(copy[r].status, new.status)]
     /\ pc' = [pc EXCEPT ![r] = "saved"]
     /\ UNCHANGED <<op, target, copy>>

\* UpdateStatus, to a status the copy does not have.
UpdateStatus(r, s) ==
  LET new == Normalize(s)
  IN /\ pc[r] = "read" /\ op[r] = "status" /\ Allowed(s)
     /\ new # copy[r].status
     /\ Save(r, [copy[r] EXCEPT !.status = new], [status |-> Exact(s.word), text |-> None])
     /\ action' = [action EXCEPT ![r] = IF new = Completed THEN "closed" ELSE "changed"]
     /\ pc' = [pc EXCEPT ![r] = "saved"]
     /\ UNCHANGED <<op, target, copy>>

\* UpdateStatus to the status the copy has: nothing is written or reported.
StatusIsThere(r) ==
  /\ pc[r] = "read" /\ op[r] = "status"
  /\ \E s \in Status : Allowed(s) /\ Normalize(s) = copy[r].status
  /\ pc' = [pc EXCEPT ![r] = "replied"]
  /\ UNCHANGED <<life, row, op, target, copy, action, history>>

\* Delete: soft deletion; a row already deleted is no error.
Delete(r) ==
  /\ pc[r] = "read" /\ op[r] = "delete"
  /\ life' = [life EXCEPT ![target[r]] = "deleted"]
  /\ action' = [action EXCEPT ![r] = "deleted"]
  /\ pc' = [pc EXCEPT ![r] = "saved"]
  /\ UNCHANGED <<row, op, target, copy, history>>

\* A body that is no JSON, a status not allowed, a failed statement.
Reject(r) ==
  /\ pc[r] = "read"
  /\ pc' = [pc EXCEPT ![r] = "replied"]
  /\ UNCHANGED <<life, row, op, target, copy, action, history>>

\* The report: EnqueueAudit, which may fail or never return (redis_client.go
\* 137), or the broadcast of an audit row.
Report(r) ==
  /\ pc[r] = "saved"
  /\ \E result \in IF target[r] \in Audits THEN {"reported"} ELSE {"reported", "unreported"} :
       pc' = [pc EXCEPT ![r] = result]
  /\ UNCHANGED <<life, row, op, target, copy, action, history>>

Next ==
  \E r \in Requests :
    \/ \E i \in Rows :
         \/ \E t \in Texts : Create(r, i, t)
         \/ \E o \in {"edit", "status", "delete"} : Find(r, o, i)
    \/ \E b \in Bodies : Edit(r, b)
    \/ \E s \in Status : UpdateStatus(r, s)
    \/ StatusIsThere(r) \/ Delete(r) \/ Reject(r) \/ Report(r)

Spec == Init /\ [][Next]_vars

-----------------------------------------------------------------------------
(* Safety.                                                                    *)

\* r wrote its copy and has reported, or is about to report, that it closed m.
Reports(r, m) ==
  pc[r] \in {"saved", "reported"} /\ target[r] = m /\ action[r] = "closed"

\* r wrote its copy and noticed that it closed m, but EnqueueAudit failed or
\* never returned: there may be no task, and nobody tries again.
ReportLost(r, m) ==
  pc[r] = "unreported" /\ target[r] = m /\ action[r] = "closed"

\* r noticed that it closed m, whatever became of the report.
Closes(r, m) == Reports(r, m) \/ ReportLost(r, m)

\* It was inserted as completed, or a request noticed that it closed it.
ClosingKnown(m) ==
  \/ m \in DOMAIN Seed /\ IsCompleted(Seed[m].status)
  \/ \E r \in Requests : Closes(r, m)

\* A mission that reads COMPLETED was inserted so by init.sql, or a request has
\* reported or is about to report that it closed it, or one that closed it lost
\* its report in EnqueueAudit (mission_handlers.go 251, 333). No mission becomes
\* completed without a request that notices, in whatever spelling and even if
\* the status came back through a stale Edit (mission_handlers.go 246-250,
\* 326-332).
CompletedWasClosed ==
  \A m \in Missions : IsCompleted(row[m].status) =>
    \/ m \in DOMAIN Seed /\ IsCompleted(Seed[m].status)
    \/ \E r \in Requests : Reports(r, m)
    \/ \E r \in Requests : ReportLost(r, m)

\* At most one request notices that a mission was closed, so the closing is
\* reported at most once, unless the completed status was rewritten or one of
\* the requests had read a status no longer there (mission_handlers.go 247, 301,
\* 329).
ClosedOnce ==
  \A m \in Missions \ rewritten : \A r, s \in Requests \ overtaken :
    Closes(r, m) /\ Closes(s, m) => r = s

\* Every column of every row is what a request last set it to, unless a Save
\* since then wrote back a value it had read earlier (the Edit handlers of
\* missions, alchemists and audits; UpdateStatus).
LastRequestStands ==
  \A i \in Rows : \A c \in {"status", "text"} :
    <<i, c>> \notin outdated => row[i][c] = meant[i][c]

\* Who may still write row i back.
HoldsCopy(i) ==
  \E r \in Requests : pc[r] = "read" /\ op[r] \in {"edit", "status"} /\ target[r] = i

Gone(i) == life[i] = "deleted" /\ ~HoldsCopy(i)

\* A deleted row comes back only through a request that read it before the
\* deletion (mission_handlers.go 186, 239, 320; alchemist_handlers.go 156, 205;
\* audit_handlers.go 173, 215).
DeletionIsFinal == [][\A i \in Rows : Gone(i) => Gone(i)']_vars

-----------------------------------------------------------------------------
(* Why: what holds besides, so that every step preserves it.                  *)

\* Missions have a status, the other rows have none; so have the copies, and
\* UpdateStatus is for missions.
StatusInv ==
  /\ \A i \in Rows : row[i].status = None <=> i \notin Missions
  /\ \A r \in Requests : pc[r] = "read" =>
       /\ copy[r].status = None <=> target[r] \notin Missions
       /\ op[r] = "status" => target[r] \in Missions

\* Requests are about rows that exist, deleted or not.
PresentInv == \A r \in Requests : pc[r] # "idle" => life[target[r]] # "absent"

\* For a copy that reads COMPLETED, stale or not, the closing was noticed, too.
CopyInv ==
  \A r \in Requests :
    pc[r] = "read" /\ IsCompleted(copy[r].status) => ClosingKnown(target[r])

\* A closing stands until the mission gets another status.
CloserInv ==
  \A m \in Missions \ rewritten : \A r \in Requests \ overtaken :
    Closes(r, m) => IsCompleted(row[m].status)

Inv == /\ TypeOK /\ StatusInv /\ PresentInv /\ CopyInv /\ CloserInv
       /\ CompletedWasClosed /\ ClosedOnce /\ LastRequestStands
=============================================================================
