------------------------------- MODULE Accounts -------------------------------
(* From registration to the pages one may use: auth_handlers.go,              *)
(* middleware.go and router.go of the back end; AuthContext.tsx,              *)
(* AppRouter.tsx and Login.tsx of the front end.                              *)
(*                                                                            *)
(* Register looks the address up, inserts the user and inserts the            *)
(* alchemist's profile in three separate statements. Login issues a token     *)
(* that carries the role. The tabs of one browser share its local storage;    *)
(* each keeps a copy of token and user, renewed when it is reloaded.          *)
(* Passwords are left out: who logs in to an account knows its password.      *)

CONSTANTS
  Registrations, \* requests to /auth/register; each is served once
  Seeded,        \* users init.sql inserts
  SeededRole,    \* their roles
  Addresses,     \* the e-mail addresses people register with
  Tabs,          \* the tabs of a browser
  Tokens,        \* tokens; one that nobody keeps any more may be issued again
  None           \* no account, no token, no address

Accounts == Registrations \cup Seeded
Roles == {"alchemist", "supervisor"}
NoSession == [token |-> None, by |-> None, role |-> None]

ASSUME ConstantsOK ==
  /\ SeededRole \in [Seeded -> Roles]
  /\ Registrations \cap (Seeded \cup Addresses) = {}
  /\ Seeded \cap Addresses = {}
  /\ None \notin Accounts \cup Addresses \cup Tokens \cup Roles

VARIABLES
  users,         \* table users
  profiles,      \* table alchemists: the accounts that have a row there
  pc, form,      \* per registration: its step, the address and role it asks for
  claims,        \* per token issued: account and role, as signed
  expired,       \* the tokens issued more than two hours ago
  found,         \* per tab: the row Login has found for it
  session,       \* per tab: its token, and the user it shows
  storage        \* the browser's local storage: the same

server == <<users, profiles, pc, form>>
vars == <<server, claims, expired, found, session, storage>>

User == [by : Accounts, email : Addresses \cup Seeded, role : Roles]
Session == [token : Tokens, by : Accounts, role : Roles] \cup {NoSession}

TypeOK ==
  /\ users \subseteq User
  /\ profiles \subseteq Accounts
  /\ pc \in [Registrations -> {"idle", "checked", "inserted", "confirmed", "refused", "half"}]
  /\ form \in [Registrations -> [email : Addresses \cup {None}, role : Roles]]
  /\ \A r \in Registrations : pc[r] # "idle" => form[r].email # None
  /\ claims \in [Tokens -> [by : Accounts \cup {None}, role : Roles \cup {None}]]
  /\ expired \subseteq Tokens
  /\ found \in [Tabs -> User \cup {None}]
  /\ session \in [Tabs -> Session]
  /\ storage \in Session

Init ==
  /\ users = {[by |-> s, email |-> s, role |-> SeededRole[s]] : s \in Seeded}
  /\ profiles = {s \in Seeded : SeededRole[s] = "alchemist"}
  /\ pc = [r \in Registrations |-> "idle"]
  /\ form = [r \in Registrations |-> [email |-> None, role |-> "alchemist"]]
  /\ claims = [k \in Tokens |-> [by |-> None, role |-> None]]
  /\ expired = {}
  /\ found = [t \in Tabs |-> None]
  /\ session = [t \in Tabs |-> NoSession]
  /\ storage = NoSession

-----------------------------------------------------------------------------
(* Register.                                                                  *)

\* FindByEmail.
Taken(e) == \E u \in users : u.email = e

\* A complete form with a role there is, for an address nobody has (yet).
RegisterCheck(r, e, role) ==
  /\ pc[r] = "idle" /\ ~Taken(e)
  /\ pc' = [pc EXCEPT ![r] = "checked"]
  /\ form' = [form EXCEPT ![r] = [email |-> e, role |-> role]]
  /\ UNCHANGED <<users, profiles, claims, expired, found, session, storage>>

UniqueMutant(e) == TRUE
\* The unique index on users.email.
Unique(e) == ~Taken(e)

\* INSERT INTO users; an alchemist needs a profile as well, the others are done.
InsertUser(r) ==
  /\ pc[r] = "checked" /\ Unique(form[r].email)
  /\ users' = users \cup {[by |-> r, email |-> form[r].email, role |-> form[r].role]}
  /\ pc' = [pc EXCEPT ![r] = IF form[r].role = "alchemist" THEN "inserted" ELSE "confirmed"]
  /\ UNCHANGED <<profiles, form, claims, expired, found, session, storage>>

\* The address is taken by now, or the statement fails: status 500.
InsertRefused(r) ==
  /\ pc[r] = "checked"
  /\ pc' = [pc EXCEPT ![r] = "refused"]
  /\ UNCHANGED <<users, profiles, form, claims, expired, found, session, storage>>

SavesProfileMutant(r) == profiles' = profiles
\* A row of table alchemists for the account.
SavesProfile(r) == profiles' = profiles \cup {r}

\* INSERT INTO alchemists, an audit task that may fail, status 201.
InsertProfile(r) ==
  /\ pc[r] = "inserted"
  /\ SavesProfile(r)
  /\ pc' = [pc EXCEPT ![r] = "confirmed"]
  /\ UNCHANGED <<users, form, claims, expired, found, session, storage>>

\* The INSERT fails or the back end dies: the user stays, without a profile.
ProfileFails(r) ==
  /\ pc[r] = "inserted"
  /\ pc' = [pc EXCEPT ![r] = "half"]
  /\ UNCHANGED <<users, profiles, form, claims, expired, found, session, storage>>

-----------------------------------------------------------------------------
(* Login.                                                                     *)

\* The login page is there for those without a token. The address is known and
\* the password right.
LoginFind(t, u) ==
  /\ session[t].token = None /\ found[t] = None
  /\ u \in users
  /\ found' = [found EXCEPT ![t] = u]
  /\ UNCHANGED <<server, claims, expired, session, storage>>

\* The claims that are signed.
Claims(u) == [by |-> u.by, role |-> u.role]

Kept(k) == storage.token = k \/ \E t \in Tabs : session[t].token = k

\* The token is issued; login() keeps it and the user, in the tab and in the
\* local storage.
LoginDone(t, k) ==
  LET new == [token |-> k, by |-> found[t].by, role |-> found[t].role]
  IN /\ found[t] # None /\ ~Kept(k)
     /\ claims' = [claims EXCEPT ![k] = Claims(found[t])]
     /\ expired' = expired \ {k}
     /\ session' = [session EXCEPT ![t] = new]
     /\ storage' = new
     /\ found' = [found EXCEPT ![t] = None]
     /\ UNCHANGED server

\* logout() forgets both, in the tab and in the local storage.
Logout(t) ==
  /\ session[t].token # None
  /\ session' = [session EXCEPT ![t] = NoSession]
  /\ storage' = NoSession
  /\ UNCHANGED <<server, claims, expired, found>>

\* A tab is opened or reloaded: AuthProvider reads the local storage.
Reload(t) ==
  /\ session' = [session EXCEPT ![t] = storage]
  /\ found' = [found EXCEPT ![t] = None]
  /\ UNCHANGED <<server, claims, expired, storage>>

Expire(k) ==
  /\ expired' = expired \cup {k}
  /\ UNCHANGED <<server, claims, found, session, storage>>

-----------------------------------------------------------------------------
(* What is open to whom.                                                      *)

Tables == {"alchemists", "missions", "transmutations", "materials", "audits"}

PermittedMutant(verb, table) == IF verb = "read" THEN Roles ELSE {"supervisor"}
\* The roles router.go admits to a verb on a table.
Permitted(verb, table) ==
  CASE verb = "read" -> IF table \in {"alchemists", "audits"} THEN {"supervisor"} ELSE Roles
    [] verb = "request" -> IF table = "transmutations" THEN Roles ELSE {"supervisor"}
    [] verb = "status" -> IF table = "missions" THEN Roles ELSE {}
    [] verb \in {"edit", "delete"} -> {"supervisor"}

\* AuthMiddleware: the token is valid and its role is admitted.
Admitted(k, verb, table) ==
  k \notin expired /\ claims[k].role \in Permitted(verb, table)

\* AppRouter: the pages of a tab, by its token and the role of its user.
PagesOf(s) ==
  IF s.token = None THEN {"login", "register"}
  ELSE {"dashboard", "missions", "materials", "transmutations"}
         \cup (IF s.role = "supervisor" THEN {"alchemists", "audits"} ELSE {})

\* What a page asks for by itself and what its buttons do, for that role.
Calls(page, role) ==
  CASE page = "dashboard" ->
         {"read"} \X (IF role = "supervisor" THEN Tables ELSE Tables \ {"alchemists", "audits"})
    [] page = "transmutations" ->
         {<<"read", "transmutations">>, <<"read", "materials">>, <<"request", "transmutations">>}
           \cup (IF role = "supervisor" THEN {<<"delete", "transmutations">>} ELSE {})
    [] page = "missions" ->
         {<<"read", "missions">>}
           \cup (IF role = "supervisor" THEN {"request", "edit", "delete"} \X {"missions"}
                 ELSE {<<"status", "missions">>})
    [] page = "materials" ->
         {<<"read", "materials">>}
           \cup (IF role = "supervisor" THEN {"request", "edit", "delete"} \X {"materials"} ELSE {})
    [] page = "alchemists" -> {"read", "request", "edit", "delete"} \X {"alchemists"}
    [] page = "audits" -> {<<"read", "audits">>}
    [] OTHER -> {}

-----------------------------------------------------------------------------
Next ==
  \/ \E r \in Registrations :
       \/ \E e \in Addresses, role \in Roles : RegisterCheck(r, e, role)
       \/ InsertUser(r) \/ InsertRefused(r) \/ InsertProfile(r) \/ ProfileFails(r)
  \/ \E t \in Tabs :
       \/ \E u \in users : LoginFind(t, u)
       \/ \E k \in Tokens : LoginDone(t, k)
       \/ Logout(t) \/ Reload(t)
  \/ \E k \in Tokens : Expire(k)

Spec == Init /\ [][Next]_vars

-----------------------------------------------------------------------------
(* Safety.                                                                    *)

\* An address has one account, although two registrations may both have found
\* it free (auth_handlers.go 78-86, 104; init.sql UNIQUE).
OneAccount ==
  \A u, v \in users : u.email = v.email => u = v

\* Who was told 201 has the account asked for, nobody else was told so for that
\* address, and an alchemist has a profile, unless the second INSERT failed or
\* is still to come (auth_handlers.go 104-121).
ConfirmedExists ==
  /\ \A r \in Registrations : pc[r] = "confirmed" =>
       [by |-> r, email |-> form[r].email, role |-> form[r].role] \in users
  /\ \A u \in users : u.role = "alchemist" =>
       u.by \in profiles \/ (u.by \in Registrations /\ pc[u.by] \in {"inserted", "half"})

\* What a page offers its user is what the back end admits the page's token to,
\* through log-ins, log-outs and reloads of several tabs, until the token
\* expires (AppRouter.tsx 13-38, router.go 33-190, middleware.go 24-60).
PagesWork ==
  \A t \in Tabs : session[t].token \notin expired \cup {None} =>
    \A p \in PagesOf(session[t]) : \A c \in Calls(p, session[t].role) :
      Admitted(session[t].token, c[1], c[2])

-----------------------------------------------------------------------------
(* Why: what holds besides, so that every step preserves it.                  *)

\* Once its user is inserted, a registration's account exists as asked for.
InsertedExists ==
  \A r \in Registrations : pc[r] \in {"inserted", "half", "confirmed"} =>
    [by |-> r, email |-> form[r].email, role |-> form[r].role] \in users

\* The user a tab shows, or the local storage keeps, is the one in its token.
SessionsSigned ==
  \A s \in {session[t] : t \in Tabs} \cup {storage} :
    s.token # None => claims[s.token] = [by |-> s.by, role |-> s.role]

Inv == TypeOK /\ InsertedExists /\ ConfirmedExists /\ OneAccount /\ SessionsSigned
=============================================================================
