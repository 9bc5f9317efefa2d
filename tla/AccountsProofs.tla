----------------------------- MODULE AccountsProofs -----------------------------
(* Proofs about Accounts, for any registrations, addresses, seeded accounts,  *)
(* tabs and tokens.                                                           *)
EXTENDS Accounts, TLAPS

-----------------------------------------------------------------------------
(* The initial state satisfies the inductive invariant.                       *)

\* Only init.sql's users exist, each with an address of its own; nobody is
\* logged in.
LEMMA InitInv == Init => Inv
<1> SUFFICES ASSUME Init PROVE Inv
  OBVIOUS
<1>1. TypeOK
  BY ConstantsOK DEF Init, TypeOK, User, Session, Accounts, Roles
<1>2. InsertedExists /\ OneAccount
  BY DEF Init, InsertedExists, OneAccount
<1>3. ConfirmedExists
  BY DEF Init, ConfirmedExists
<1>4. SessionsSigned
  BY DEF Init, SessionsSigned, NoSession
<1> QED
  BY <1>1, <1>2, <1>3, <1>4 DEF Inv

-----------------------------------------------------------------------------
(* Every step preserves it.                                                   *)

\* A registration that begins has no user yet, and its form is its own.
LEMMA RegisterCheckInv ==
  ASSUME Inv, NEW r \in Registrations, NEW e \in Addresses, NEW role \in Roles, RegisterCheck(r, e, role)
  PROVE  Inv'
<1> USE DEF RegisterCheck
<1>1. TypeOK'
  BY ConstantsOK DEF Inv, TypeOK, User, Session, Accounts, Roles
<1>2. InsertedExists'
  BY ConstantsOK DEF Inv, TypeOK, InsertedExists
<1>3. ConfirmedExists'
  BY ConstantsOK DEF Inv, TypeOK, InsertedExists, ConfirmedExists
<1>4. OneAccount'
  BY DEF Inv, OneAccount
<1>5. SessionsSigned'
  BY ConstantsOK DEF Inv, TypeOK, SessionsSigned
<1> QED
  BY <1>1, <1>2, <1>3, <1>4, <1>5 DEF Inv

\* The unique index keeps a second account for the address out.
LEMMA InsertUserInv ==
  ASSUME Inv, NEW r \in Registrations, InsertUser(r)
  PROVE  Inv'
<1> USE DEF InsertUser, Unique, Taken
<1>1. TypeOK'
  <2>1. form[r] \in [email : Addresses \cup {None}, role : Roles]
    BY DEF Inv, TypeOK
  <2>2. form[r].email # None
    BY DEF Inv, TypeOK
  <2>3. [by |-> r, email |-> form[r].email, role |-> form[r].role] \in User
    BY <2>1, <2>2 DEF User, Accounts
  <2>4. users' \subseteq User
    BY <2>3 DEF Inv, TypeOK
  <2>5. pc' \in [Registrations -> {"idle", "checked", "inserted", "confirmed", "refused", "half"}]
    BY DEF Inv, TypeOK
  <2> QED
    BY <2>4, <2>5 DEF Inv, TypeOK
<1>2. InsertedExists'
  BY ConstantsOK DEF Inv, TypeOK, InsertedExists
<1>3. ConfirmedExists'
  BY ConstantsOK DEF Inv, TypeOK, InsertedExists, ConfirmedExists
<1>4. OneAccount'
  BY DEF Inv, OneAccount
<1>5. SessionsSigned'
  BY ConstantsOK DEF Inv, TypeOK, SessionsSigned
<1> QED
  BY <1>1, <1>2, <1>3, <1>4, <1>5 DEF Inv

\* A registration refused has inserted nothing.
LEMMA InsertRefusedInv ==
  ASSUME Inv, NEW r \in Registrations, InsertRefused(r)
  PROVE  Inv'
<1> USE DEF InsertRefused
<1>1. TypeOK'
  BY ConstantsOK DEF Inv, TypeOK, User, Session, Accounts, Roles
<1>2. InsertedExists'
  BY ConstantsOK DEF Inv, TypeOK, InsertedExists
<1>3. ConfirmedExists'
  BY ConstantsOK DEF Inv, TypeOK, InsertedExists, ConfirmedExists
<1>4. OneAccount'
  BY DEF Inv, OneAccount
<1>5. SessionsSigned'
  BY ConstantsOK DEF Inv, TypeOK, SessionsSigned
<1> QED
  BY <1>1, <1>2, <1>3, <1>4, <1>5 DEF Inv

\* The profile completes what InsertUser began.
LEMMA InsertProfileInv ==
  ASSUME Inv, NEW r \in Registrations, InsertProfile(r)
  PROVE  Inv'
<1> USE DEF InsertProfile, SavesProfile
<1>1. TypeOK'
  BY ConstantsOK DEF Inv, TypeOK, User, Session, Accounts, Roles
<1>2. InsertedExists'
  BY ConstantsOK DEF Inv, TypeOK, InsertedExists
<1>3. ConfirmedExists'
  BY ConstantsOK DEF Inv, TypeOK, InsertedExists, ConfirmedExists
<1>4. OneAccount'
  BY DEF Inv, OneAccount
<1>5. SessionsSigned'
  BY ConstantsOK DEF Inv, TypeOK, SessionsSigned
<1> QED
  BY <1>1, <1>2, <1>3, <1>4, <1>5 DEF Inv

\* The user stays; the registration is half done.
LEMMA ProfileFailsInv ==
  ASSUME Inv, NEW r \in Registrations, ProfileFails(r)
  PROVE  Inv'
<1> USE DEF ProfileFails
<1>1. TypeOK'
  BY ConstantsOK DEF Inv, TypeOK, User, Session, Accounts, Roles
<1>2. InsertedExists'
  BY ConstantsOK DEF Inv, TypeOK, InsertedExists
<1>3. ConfirmedExists'
  BY ConstantsOK DEF Inv, TypeOK, InsertedExists, ConfirmedExists
<1>4. OneAccount'
  BY DEF Inv, OneAccount
<1>5. SessionsSigned'
  BY ConstantsOK DEF Inv, TypeOK, SessionsSigned
<1> QED
  BY <1>1, <1>2, <1>3, <1>4, <1>5 DEF Inv

\* Finding a row changes nothing but the tab's own step.
LEMMA LoginFindInv ==
  ASSUME Inv, NEW t \in Tabs, NEW u \in users, LoginFind(t, u)
  PROVE  Inv'
<1> USE DEF LoginFind, server
<1>1. TypeOK'
  BY ConstantsOK DEF Inv, TypeOK, User, Session, Accounts, Roles
<1>2. InsertedExists'
  BY ConstantsOK DEF Inv, TypeOK, InsertedExists
<1>3. ConfirmedExists'
  BY ConstantsOK DEF Inv, TypeOK, InsertedExists, ConfirmedExists
<1>4. OneAccount'
  BY DEF Inv, OneAccount
<1>5. SessionsSigned'
  BY ConstantsOK DEF Inv, TypeOK, SessionsSigned
<1> QED
  BY <1>1, <1>2, <1>3, <1>4, <1>5 DEF Inv

\* A new token is kept by nobody, so that no other session refers to its claims.
LEMMA LoginDoneInv ==
  ASSUME Inv, NEW t \in Tabs, NEW k \in Tokens, LoginDone(t, k)
  PROVE  Inv'
<1> USE DEF LoginDone, Kept, Claims, server
<1>1. TypeOK'
  BY ConstantsOK DEF Inv, TypeOK, User, Session, Accounts, Roles
<1>2. InsertedExists'
  BY ConstantsOK DEF Inv, TypeOK, InsertedExists
<1>3. ConfirmedExists'
  BY ConstantsOK DEF Inv, TypeOK, InsertedExists, ConfirmedExists
<1>4. OneAccount'
  BY DEF Inv, OneAccount
<1>5. SessionsSigned'
  BY ConstantsOK DEF Inv, TypeOK, SessionsSigned
<1> QED
  BY <1>1, <1>2, <1>3, <1>4, <1>5 DEF Inv

\* Log-out leaves no session to speak of, here or in the local storage.
LEMMA LogoutInv ==
  ASSUME Inv, NEW t \in Tabs, Logout(t)
  PROVE  Inv'
<1> USE DEF Logout, NoSession, server
<1>1. TypeOK'
  BY ConstantsOK DEF Inv, TypeOK, User, Session, Accounts, Roles
<1>2. InsertedExists'
  BY ConstantsOK DEF Inv, TypeOK, InsertedExists
<1>3. ConfirmedExists'
  BY ConstantsOK DEF Inv, TypeOK, InsertedExists, ConfirmedExists
<1>4. OneAccount'
  BY DEF Inv, OneAccount
<1>5. SessionsSigned'
  BY ConstantsOK DEF Inv, TypeOK, SessionsSigned
<1> QED
  BY <1>1, <1>2, <1>3, <1>4, <1>5 DEF Inv

\* A reloaded tab takes over what the local storage has.
LEMMA ReloadInv ==
  ASSUME Inv, NEW t \in Tabs, Reload(t)
  PROVE  Inv'
<1> USE DEF Reload, server
<1>1. TypeOK'
  BY ConstantsOK DEF Inv, TypeOK, User, Session, Accounts, Roles
<1>2. InsertedExists'
  BY ConstantsOK DEF Inv, TypeOK, InsertedExists
<1>3. ConfirmedExists'
  BY ConstantsOK DEF Inv, TypeOK, InsertedExists, ConfirmedExists
<1>4. OneAccount'
  BY DEF Inv, OneAccount
<1>5. SessionsSigned'
  BY ConstantsOK DEF Inv, TypeOK, SessionsSigned
<1> QED
  BY <1>1, <1>2, <1>3, <1>4, <1>5 DEF Inv

\* Expiry changes no claims.
LEMMA ExpireInv ==
  ASSUME Inv, NEW k \in Tokens, Expire(k)
  PROVE  Inv'
<1> USE DEF Expire, server
<1>1. TypeOK'
  BY ConstantsOK DEF Inv, TypeOK, User, Session, Accounts, Roles
<1>2. InsertedExists'
  BY ConstantsOK DEF Inv, TypeOK, InsertedExists
<1>3. ConfirmedExists'
  BY ConstantsOK DEF Inv, TypeOK, InsertedExists, ConfirmedExists
<1>4. OneAccount'
  BY DEF Inv, OneAccount
<1>5. SessionsSigned'
  BY ConstantsOK DEF Inv, TypeOK, SessionsSigned
<1> QED
  BY <1>1, <1>2, <1>3, <1>4, <1>5 DEF Inv

\* A stuttering step.
LEMMA StutterInv == Inv /\ UNCHANGED vars => Inv'
<1> SUFFICES ASSUME Inv, UNCHANGED vars PROVE Inv'
  OBVIOUS
<1> USE DEF Inv, vars, server
<1>1. TypeOK'
  BY DEF TypeOK
<1>2. InsertedExists' /\ ConfirmedExists' /\ OneAccount'
  BY DEF InsertedExists, ConfirmedExists, OneAccount
<1>3. SessionsSigned'
  BY DEF SessionsSigned
<1> QED
  BY <1>1, <1>2, <1>3

\* Every step of the system.
LEMMA NextInv == Inv /\ [Next]_vars => Inv'
<1> SUFFICES ASSUME Inv, [Next]_vars PROVE Inv'
  OBVIOUS
<1>1. CASE UNCHANGED vars
  BY <1>1, StutterInv
<1>2. ASSUME NEW r \in Registrations,
             \/ \E e \in Addresses, role \in Roles : RegisterCheck(r, e, role)
             \/ InsertUser(r) \/ InsertRefused(r) \/ InsertProfile(r) \/ ProfileFails(r)
      PROVE  Inv'
  BY <1>2, RegisterCheckInv, InsertUserInv, InsertRefusedInv, InsertProfileInv, ProfileFailsInv
<1>3. ASSUME NEW t \in Tabs,
             \/ \E u \in users : LoginFind(t, u)
             \/ \E k \in Tokens : LoginDone(t, k)
             \/ Logout(t) \/ Reload(t)
      PROVE  Inv'
  BY <1>3, LoginFindInv, LoginDoneInv, LogoutInv, ReloadInv
<1>4. ASSUME NEW k \in Tokens, Expire(k)
      PROVE  Inv'
  BY <1>4, ExpireInv
<1> QED
  BY <1>1, <1>2, <1>3, <1>4 DEF Next

\* What holds in every reachable state.
LEMMA Invariance == Spec => []Inv
<1> QED
  BY InitInv, NextInv, PTL DEF Spec

-----------------------------------------------------------------------------
(* Pages and roles.                                                           *)

\* Whatever a page offers a role is on router.go's list for that role.
LEMMA RolesFit ==
  ASSUME NEW s \in Session, s.token # None,
         NEW p \in PagesOf(s), NEW c \in Calls(p, s.role)
  PROVE  s.role \in Permitted(c[1], c[2])
<1>1. s.role \in Roles
  BY DEF Session, NoSession
<1>2. CASE s.role = "supervisor"
  BY <1>2 DEF PagesOf, Calls, Permitted, Roles, Tables
<1>3. CASE s.role = "alchemist"
  BY <1>3 DEF PagesOf, Calls, Permitted, Roles, Tables
<1> QED
  BY <1>1, <1>2, <1>3 DEF Roles

\* The role of a session is the role its token carries, and RolesFit applies.
LEMMA SessionsWork == Inv => PagesWork
<1> SUFFICES ASSUME Inv, NEW t \in Tabs, session[t].token \notin expired \cup {None},
                    NEW p \in PagesOf(session[t]), NEW c \in Calls(p, session[t].role)
             PROVE  Admitted(session[t].token, c[1], c[2])
  BY DEF PagesWork
<1>1. session[t] \in Session
  BY DEF Inv, TypeOK
<1>2. claims[session[t].token].role = session[t].role
  <2>1. session[t] \in {session[x] : x \in Tabs} \cup {storage}
    OBVIOUS
  <2>2. claims[session[t].token] = [by |-> session[t].by, role |-> session[t].role]
    BY <2>1 DEF Inv, SessionsSigned
  <2> QED
    BY <2>2
<1>3. session[t].role \in Permitted(c[1], c[2])
  BY <1>1, RolesFit
<1> QED
  BY <1>2, <1>3 DEF Admitted

-----------------------------------------------------------------------------
(* The theorems.                                                              *)

\* Every variable keeps its type (TypeOK).
THEOREM TypeCorrect == Spec => []TypeOK
<1>1. Inv => TypeOK
  BY DEF Inv
<1> QED
  BY <1>1, Invariance, PTL

\* However many registrations race for an address, one account gets it.
THEOREM AddressesAreUnique == Spec => []OneAccount
<1>1. Inv => OneAccount
  BY DEF Inv
<1> QED
  BY <1>1, Invariance, PTL

\* A confirmed account exists, an alchemist's with its profile unless the second
\* INSERT failed or is still to come.
THEOREM ConfirmedAccountsExist == Spec => []ConfirmedExists
<1>1. Inv => ConfirmedExists
  BY DEF Inv
<1> QED
  BY <1>1, Invariance, PTL

\* The back end admits a page's token to everything the page offers.
THEOREM OfferedIsAdmitted == Spec => []PagesWork
<1> QED
  BY SessionsWork, Invariance, PTL

=============================================================================
