---------------------------- MODULE LivePageProofs ----------------------------
(* Proofs about LivePage, for any number of changes and failures and any      *)
(* capacity of the stream: a page that is behind has a reason, or something   *)
(* under way that will bring it up to date.                                   *)
EXTENDS LivePage, SequenceTheorems, TLAPS

-----------------------------------------------------------------------------
(* What the tables of events say.                                             *)

\* A change the page is to follow is broadcast, and the page listens for it.
LEMMA FollowedIsHeard ==
  ASSUME page \in {"dashboard", "transmutations", "audits"},
         NEW c \in Changes, Follows(c)
  PROVE  Broadcasts(c) /\ Heard(c)
<1>1. CASE c.table = "transmutations"
  BY <1>1 DEF Follows, Broadcasts, Heard, Loaded
<1>2. CASE c.table # "transmutations"
  BY <1>2 DEF Follows, Broadcasts, Heard, Loaded
<1> QED
  BY <1>1, <1>2

\* The parts of the invariant as facts about numbers.
LEMMA Facts ==
  ASSUME Inv
  PROVE  /\ page \in {"dashboard", "transmutations", "audits"}
         /\ MaxChanges \in Nat /\ Unanswered = MaxChanges + 1
         /\ \A t \in Tables : /\ version[t] \in 0 .. MaxChanges /\ last[t] \in 0 .. MaxChanges
                              /\ shown[t] \in 0 .. MaxChanges /\ last[t] <= version[t]
         /\ Total \in 0 .. MaxChanges /\ started \in Nat /\ owed \in Nat
<1>1. MaxChanges \in Nat /\ page \in {"dashboard", "transmutations", "audits"}
  BY ConstantsOK DEF Inv, TypeOK
<1>2. \A t \in Tables : version[t] \in 0 .. MaxChanges /\ last[t] \in 0 .. MaxChanges
                        /\ shown[t] \in 0 .. MaxChanges /\ last[t] <= version[t]
  BY <1>1 DEF Inv, TypeOK, CountInv
<1>3. Total \in 0 .. MaxChanges
  BY <1>1, <1>2 DEF Inv, CountInv, Total, Tables
<1> QED
  BY <1>1, <1>2, <1>3 DEF Inv, TypeOK, Unanswered

-----------------------------------------------------------------------------
(* The initial states.                                                        *)

LEMMA InitInv == Init => Inv
<1> SUFFICES ASSUME Init PROVE Inv
  OBVIOUS
<1>1. /\ MaxChanges \in Nat /\ Capacity \in Nat \ {0} /\ MaxFailures \in Nat
      /\ page \in {"dashboard", "transmutations", "audits"}
  BY ConstantsOK DEF Init
<1>2. Loaded \subseteq Tables
  BY <1>1 DEF Loaded, Tables
<1>3. TypeOK
  BY <1>1, <1>2 DEF Init, TypeOK, Unanswered
<1>4. LoadInv
  BY <1>1, <1>2 DEF Init, LoadInv, Unanswered
<1>5. CountInv
  BY <1>1 DEF Init, CountInv, Total, Tables
<1>6. FollowInv
  BY DEF Init, FollowInv
<1> QED
  BY <1>3, <1>4, <1>5, <1>6 DEF Inv

-----------------------------------------------------------------------------
(* The back end.                                                              *)

\* A change is committed, perhaps by a request of the page itself.
LEMMA CommitInv ==
  ASSUME Inv, NEW c \in Changes, Commit(c),
         owed' = owed \/ (owed' = owed + 1 /\ c.table = "transmutations"),
         UNCHANGED <<page, role, link, stream, loads, started, shown, failures, excused>>
  PROVE  Inv'
<1>1. /\ page \in {"dashboard", "transmutations", "audits"}
      /\ MaxChanges \in Nat /\ Unanswered = MaxChanges + 1
      /\ \A t \in Tables : /\ version[t] \in 0 .. MaxChanges /\ last[t] \in 0 .. MaxChanges
                           /\ shown[t] \in 0 .. MaxChanges /\ last[t] <= version[t]
      /\ Total \in 0 .. MaxChanges /\ started \in Nat /\ owed \in Nat
  BY Facts
<1>2. c.table \in Tables /\ Total < MaxChanges /\ version[c.table] <= Total
  BY <1>1 DEF Changes, Commit, Total, Tables
<1>3. /\ version' \in [Tables -> 0 .. MaxChanges]
      /\ version'[c.table] = version[c.table] + 1
      /\ \A t \in Tables \ {c.table} : version'[t] = version[t]
      /\ \A t \in Tables : version[t] <= version'[t]
  <2>1. version \in [Tables -> 0 .. MaxChanges] /\ version' = [version EXCEPT ![c.table] = @ + 1]
    BY DEF Commit, Inv, TypeOK
  <2>2. /\ version'[c.table] = version[c.table] + 1
        /\ \A t \in Tables \ {c.table} : version'[t] = version[t]
    BY <1>2, <2>1
  <2>3. version[c.table] \in Nat /\ version[c.table] + 1 \in 0 .. MaxChanges
    BY <1>1, <1>2
  <2>4. \A t \in Tables : version'[t] \in 0 .. MaxChanges
    BY <1>1, <2>2, <2>3
  <2> QED
    BY <1>1, <2>1, <2>2, <2>3, <2>4
<1>4. Total' = Total + 1
  <2>1. c.table \in {"transmutations", "audits", "missions"}
    BY <1>2 DEF Tables
  <2> QED
    BY <1>1, <1>3, <2>1 DEF Total, Tables
<1>5. /\ last' \in [Tables -> 0 .. MaxChanges]
      /\ \A t \in Tables : last'[t] <= version'[t]
      /\ \A t \in Tables : t # c.table \/ ~Follows(c) => last'[t] = last[t]
  <2>1. CASE Follows(c)
    BY <1>1, <1>2, <1>3, <2>1 DEF Commit, Inv, TypeOK
  <2>2. CASE ~Follows(c)
    BY <1>1, <1>3, <2>2 DEF Commit, Inv, TypeOK
  <2> QED
    BY <2>1, <2>2
<1>6. /\ due' \subseteq Events
      /\ due \subseteq due'
      /\ Broadcasts(c) => \E d \in due' : d.change = c
  <2> DEFINE d == [change |-> c, number |-> Total + 1]
  <2>1. d \in Events /\ d.change = c
    BY <1>1, <1>2 DEF Events
  <2>2. due \subseteq Events
    BY DEF Inv, TypeOK
  <2>3. due' = IF Broadcasts(c) THEN due \cup {d} ELSE due
    BY DEF Commit
  <2> HIDE DEF d
  <2> QED
    BY <2>1, <2>2, <2>3
<1>7. owed' \in 0 .. MaxChanges /\ owed' <= version'["transmutations"]
  <2>1. owed <= version["transmutations"] /\ "transmutations" \in Tables
    BY DEF Inv, CountInv, Tables
  <2>2. owed' \in Nat /\ owed' <= version'["transmutations"]
    BY <1>1, <1>3, <2>1
  <2>3. version'["transmutations"] \in 0 .. MaxChanges
    BY <1>3, <2>1
  <2> QED
    BY <1>1, <2>2, <2>3
<1>8. TypeOK'
  <2>1. \A t \in Tables : shown[t] <= version'[t]
    BY <1>1, <1>3 DEF Inv, TypeOK
  <2>2. \A l \in loads : l.table \in Tables /\ l.number < started
                         /\ l.saw \in (0 .. version'[l.table]) \cup {Unanswered}
    <3> SUFFICES ASSUME NEW l \in loads
                 PROVE  /\ l.table \in Tables /\ l.number < started
                        /\ l.saw \in (0 .. version'[l.table]) \cup {Unanswered}
      OBVIOUS
    <3>1. /\ l.table \in Tables /\ l.number < started
          /\ l.saw \in (0 .. version[l.table]) \cup {Unanswered}
      BY DEF Inv, TypeOK
    <3>2. /\ version[l.table] \in Nat /\ version'[l.table] \in Nat
          /\ version[l.table] <= version'[l.table]
      BY <1>1, <1>3, <3>1
    <3> QED
      BY <3>1, <3>2
  <2> QED
    BY <1>3, <1>5, <1>6, <1>7, <2>1, <2>2 DEF Inv, TypeOK, Unanswered
<1>9. LoadInv' /\ CountInv'
  BY <1>1, <1>2, <1>4, <1>5, <1>7 DEF Inv, LoadInv, CountInv
<1>10. FollowInv'
  <2> SUFFICES ASSUME NEW t \in Tables, t \notin excused
               PROVE  shown[t] >= last'[t] \/ WillShow(t)' \/ WillHear(t)'
    BY DEF FollowInv
  <2>1. CASE Follows(c) /\ t = c.table
    <3>1. PICK d \in due' : d.change = c
      BY <1>1, <1>6, <2>1, FollowedIsHeard
    <3>2. Follows(c)'
      BY <2>1 DEF Follows
    <3> QED
      BY <2>1, <3>1, <3>2 DEF WillHear
  <2>2. CASE ~(Follows(c) /\ t = c.table)
    <3>1. last'[t] = last[t]
      BY <1>5, <2>2
    <3>2. shown[t] >= last[t] \/ WillShow(t) \/ WillHear(t)
      BY DEF Inv, FollowInv
    <3>3. WillShow(t) => WillShow(t)'
      BY <3>1 DEF WillShow
    <3>4. WillHear(t) => WillHear(t)'
      BY <1>6 DEF WillHear, Follows
    <3> QED
      BY <3>1, <3>2, <3>3, <3>4
  <2> QED
    BY <2>1, <2>2
<1> QED
  BY <1>8, <1>9, <1>10 DEF Inv

LEMMA OthersChangeInv == ASSUME Inv, NEW c \in Changes, OthersChange(c) PROVE Inv'
  BY CommitInv DEF OthersChange

LEMMA SubmitInv == ASSUME Inv, NEW k \in {"created", "deleted"}, Submit(k) PROVE Inv'
<1> DEFINE c == [table |-> "transmutations", kind |-> k]
<1>1. c \in Changes /\ c.table = "transmutations"
  BY DEF Changes, Tables
<1>2. Commit(c) /\ owed' = owed + 1
      /\ UNCHANGED <<page, role, link, stream, loads, started, shown, failures, excused>>
  BY DEF Submit
<1> HIDE DEF c
<1> QED
  BY <1>1, <1>2, CommitInv

\* A broadcast reaches the stream, or the table has a reason to be out of date.
LEMMA BroadcastInv == ASSUME Inv, NEW d \in due, Broadcast(d) PROVE Inv'
<1>1. /\ due' = due \ {d}
      /\ UNCHANGED <<page, role, version, last, link, loads, started, owed, shown, failures>>
      /\ \/ Len(stream) <= Capacity /\ stream' = Append(stream, d) /\ excused' = excused
         \/ excused' = excused \cup {d.change.table} /\ stream' = stream
  BY DEF Broadcast, Feed!Put, Feed!Miss
<1>2. d \in Events /\ d.change \in Changes /\ d.change.table \in Tables
  BY DEF Inv, TypeOK, Changes, Events
<1>3. /\ stream \in Seq(Events) /\ Len(stream) \in Nat /\ Len(stream) <= Capacity + 1
      /\ DOMAIN stream = 1 .. Len(stream) /\ Capacity \in Nat
  BY ConstantsOK DEF Inv, TypeOK
<1>4. CASE excused' = excused \cup {d.change.table} /\ stream' = stream
  <2>1. TypeOK'
    BY <1>1, <1>2, <1>4 DEF Inv, TypeOK, Unanswered
  <2>2. LoadInv' /\ CountInv'
    BY <1>1 DEF Inv, LoadInv, CountInv, Total
  <2>3. FollowInv'
    BY <1>1, <1>4 DEF Inv, FollowInv, WillShow, WillHear, Follows
  <2> QED
    BY <2>1, <2>2, <2>3 DEF Inv
<1>5. CASE Len(stream) <= Capacity /\ stream' = Append(stream, d) /\ excused' = excused
  <2>1. /\ stream' \in Seq(Events) /\ Len(stream') = Len(stream) + 1
        /\ DOMAIN stream' = 1 .. Len(stream) + 1
        /\ \A i \in 1 .. Len(stream) : stream'[i] = stream[i]
        /\ stream'[Len(stream) + 1] = d
    BY <1>2, <1>3, <1>5, AppendProperties
  <2>2. TypeOK'
    <3>1. stream' \in Seq(Events) /\ Len(stream') <= Capacity + 1
      BY <1>3, <1>5, <2>1
    <3> QED
      BY <1>1, <1>5, <3>1 DEF Inv, TypeOK, Unanswered
  <2>3. LoadInv' /\ CountInv'
    BY <1>1 DEF Inv, LoadInv, CountInv, Total
  <2>4. FollowInv'
    <3> SUFFICES ASSUME NEW t \in Tables, t \notin excused, ~(shown[t] >= last[t]), ~WillShow(t)
                 PROVE  WillHear(t)'
      BY <1>1, <1>5 DEF FollowInv, WillShow
    <3>1. WillHear(t)
      BY DEF Inv, FollowInv
    <3>2. CASE \E i \in DOMAIN stream : stream[i].change.table = t /\ Follows(stream[i].change)
      BY <1>1, <1>3, <2>1, <3>2 DEF WillHear, Follows
    <3>3. CASE \E e \in due \ {d} : e.change.table = t /\ Follows(e.change)
      BY <1>1, <3>3 DEF WillHear, Follows
    <3>4. CASE d.change.table = t /\ Follows(d.change)
      <4>1. Len(stream) + 1 \in DOMAIN stream'
        BY <1>3, <2>1
      <4> QED
        BY <1>1, <2>1, <3>4, <4>1 DEF WillHear, Follows
    <3> QED
      BY <3>1, <3>2, <3>3, <3>4 DEF WillHear
  <2> QED
    BY <2>2, <2>3, <2>4 DEF Inv
<1> QED
  BY <1>1, <1>4, <1>5

LEMMA NeverBroadcastInv == ASSUME Inv, NEW d \in due, NeverBroadcast(d) PROVE Inv'
<1>1. TypeOK'
  BY ConstantsOK DEF NeverBroadcast, Inv, TypeOK, Unanswered, Events, Changes
<1>2. LoadInv' /\ CountInv'
  BY DEF NeverBroadcast, Inv, LoadInv, CountInv, Total
<1>3. FollowInv'
  BY DEF NeverBroadcast, Inv, FollowInv, WillShow, WillHear, Follows
<1> QED
  BY <1>1, <1>2, <1>3 DEF Inv

LEMMA SubscribeInv == ASSUME Inv, Subscribe PROVE Inv'
<1>1. TypeOK'
  BY DEF Subscribe, Feed!Open, backend, Inv, TypeOK, Unanswered
<1>2. LoadInv' /\ CountInv'
  BY DEF Subscribe, Feed!Open, backend, Inv, LoadInv, CountInv, Total
<1>3. FollowInv'
  BY DEF Subscribe, Feed!Open, backend, Inv, FollowInv, WillShow, WillHear, Follows
<1> QED
  BY <1>1, <1>2, <1>3 DEF Inv

\* A GET that is served sees whatever was committed.
LEMMA ServeInv == ASSUME Inv, NEW l \in loads, Serve(l) PROVE Inv'
<1> DEFINE m == [l EXCEPT !.saw = version[l.table]]
<1>1. /\ l \in [table : Tables, number : Nat, saw : Nat]
      /\ loads' = (loads \ {l}) \cup {m}
      /\ UNCHANGED <<page, role, version, due, last, link, stream, started, owed, shown,
                     failures, excused>>
  BY DEF Serve, backend, Inv, LoadInv
<1>2. MaxChanges \in Nat /\ version[l.table] \in 0 .. MaxChanges /\ last[l.table] <= version[l.table]
      /\ l.number < started
  BY <1>1, Facts DEF Inv, TypeOK
<1>3. m \in [table : Tables, number : Nat, saw : Nat] /\ m.table = l.table
      /\ m.number = l.number /\ m.saw = version[l.table]
  BY <1>1, <1>2
<1> HIDE DEF m
<1>4. TypeOK'
  <2>1. \A n \in loads' : n.table \in Tables /\ n.number < started
                          /\ n.saw \in (0 .. version[n.table]) \cup {Unanswered}
    BY <1>1, <1>2, <1>3 DEF Inv, TypeOK
  <2> QED
    BY <1>1, <2>1 DEF Inv, TypeOK, Unanswered
<1>5. LoadInv' /\ CountInv'
  BY <1>1, <1>3 DEF Inv, LoadInv, CountInv, Total
<1>6. FollowInv'
  <2> SUFFICES ASSUME NEW t \in Tables, WillShow(t) PROVE WillShow(t)'
    BY <1>1 DEF Inv, FollowInv, WillHear, Follows
  <2>1. PICK n \in loads : n.table = t /\ n.saw >= last[t]
    BY DEF WillShow
  <2>2. CASE n = l
    <3>1. m \in loads' /\ m.table = t /\ m.saw >= last[t]
      BY <1>1, <1>2, <1>3, <2>1, <2>2, Facts
    <3> QED
      BY <1>1, <3>1 DEF WillShow
  <2>3. CASE n # l
    BY <1>1, <2>1, <2>3 DEF WillShow
  <2> QED
    BY <2>2, <2>3
<1> QED
  BY <1>4, <1>5, <1>6 DEF Inv
-----------------------------------------------------------------------------
(* The page.                                                                  *)

\* A GET that is started shows table t up to date; t needs no reason any more.
LEMMA StartLoadFacts ==
  ASSUME Inv, NEW t \in Tables, StartLoad(t)
  PROVE  /\ loads \subseteq loads' /\ started' \in Nat
         /\ loads' \subseteq [table : Tables, number : Nat, saw : Nat]
         /\ \A l \in loads' : l.table \in Tables /\ l.number < started'
                               /\ l.saw \in (0 .. version[l.table]) \cup {Unanswered}
         /\ excused' \subseteq Tables /\ excused \ {t} \subseteq excused'
         /\ \E l \in loads' : l.table = t /\ l.saw >= last[t]
<1> DEFINE n == [table |-> t, number |-> started, saw |-> Unanswered]
<1>1. MaxChanges \in Nat /\ Unanswered = MaxChanges + 1 /\ last[t] \in 0 .. MaxChanges /\ started \in Nat
  BY Facts
<1>2. loads' = loads \cup {n} /\ started' = started + 1 /\ excused' = excused \ {t}
  BY DEF StartLoad
<1>3. /\ n \in [table : Tables, number : Nat, saw : Nat]
      /\ n.table = t /\ n.number = started /\ n.saw = Unanswered
  BY <1>1
<1> HIDE DEF n
<1>4. \A l \in loads' : l.table \in Tables /\ l.number < started'
                        /\ l.saw \in (0 .. version[l.table]) \cup {Unanswered}
  <2>1. \A l \in loads : l.number \in Nat /\ l.table \in Tables /\ l.number < started
                         /\ l.saw \in (0 .. version[l.table]) \cup {Unanswered}
    BY DEF Inv, TypeOK, LoadInv
  <2> QED
    BY <1>1, <1>2, <1>3, <2>1
<1>5. \E l \in loads' : l.table = t /\ l.saw >= last[t]
  BY <1>1, <1>2, <1>3
<1> QED
  BY <1>1, <1>2, <1>3, <1>4, <1>5 DEF Inv, TypeOK, LoadInv

LEMMA OnMessageInv == ASSUME Inv, OnMessage PROVE Inv'
<1>0. /\ stream # <<>> /\ stream \in Seq(Events)
      /\ Len(stream) <= Capacity + 1 /\ Capacity \in Nat
  BY ConstantsOK DEF OnMessage, Feed!Take, Inv, TypeOK
<1> PICK e \in Events : e = Head(stream)
  BY <1>0, HeadTailProperties
<1> PICK c \in Changes : c = e.change
  BY DEF Events
<1>1. /\ UNCHANGED <<page, role, version, due, last, link, owed, shown, failures>>
      /\ IF Heard(c) THEN StartLoad(c.table) ELSE UNCHANGED <<loads, started, excused>>
  BY DEF OnMessage, Feed!Take
<1>2. /\ c.table \in Tables /\ e = stream[1]
      /\ stream' \in Seq(Events) /\ Len(stream) \in Nat \ {0} /\ Len(stream') = Len(stream) - 1
      /\ \A i \in 1 .. Len(stream') : stream'[i] = stream[i + 1]
  <2>1. stream' = Tail(stream) /\ c.table \in Tables
    BY DEF OnMessage, Feed!Take, Changes
  <2> QED
    BY <1>0, <2>1, HeadTailProperties, EmptySeq
<1>3. DOMAIN stream = 1 .. Len(stream) /\ DOMAIN stream' = 1 .. Len(stream')
  BY <1>0, <1>2, LenProperties
<1>4. \A t \in Tables : WillHear(t) => WillHear(t)' \/ (t = c.table /\ Follows(c))
  <2> SUFFICES ASSUME NEW t \in Tables, WillHear(t), ~(t = c.table /\ Follows(c))
               PROVE  WillHear(t)'
    OBVIOUS
  <2>1. CASE \E d \in due : d.change.table = t /\ Follows(d.change)
    BY <1>1, <2>1 DEF WillHear, Follows
  <2>2. CASE \E i \in DOMAIN stream : stream[i].change.table = t /\ Follows(stream[i].change)
    <3>1. PICK i \in DOMAIN stream : stream[i].change.table = t /\ Follows(stream[i].change)
      BY <2>2
    <3>2. i # 1
      BY <1>2, <3>1
    <3>3. i - 1 \in DOMAIN stream' /\ stream'[i - 1] = stream[i]
      BY <1>2, <1>3, <3>1, <3>2
    <3>4. stream'[i - 1].change.table = t /\ Follows(stream[i - 1].change)'
      BY <1>1, <3>1, <3>3 DEF Follows
    <3> QED
      BY <3>3, <3>4 DEF WillHear
  <2> QED
    BY <2>1, <2>2 DEF WillHear
<1>5. CASE Heard(c)
  <2>1. /\ loads \subseteq loads' /\ started' \in Nat
        /\ loads' \subseteq [table : Tables, number : Nat, saw : Nat]
        /\ \A l \in loads' : l.table \in Tables /\ l.number < started'
                              /\ l.saw \in (0 .. version[l.table]) \cup {Unanswered}
        /\ excused' \subseteq Tables /\ excused \ {c.table} \subseteq excused'
        /\ \E l \in loads' : l.table = c.table /\ l.saw >= last[c.table]
    BY <1>1, <1>2, <1>5, StartLoadFacts
  <2>2. TypeOK'
    BY <1>0, <1>1, <1>2, <2>1 DEF Inv, TypeOK, Unanswered
  <2>3. LoadInv' /\ CountInv'
    BY <1>1, <2>1 DEF Inv, LoadInv, CountInv, Total
  <2>4. \A t \in Tables : WillShow(t) => WillShow(t)'
    BY <1>1, <2>1 DEF WillShow
  <2>5. WillShow(c.table)'
    BY <1>1, <2>1 DEF WillShow
  <2>6. FollowInv'
    BY <1>1, <1>4, <2>1, <2>4, <2>5 DEF Inv, FollowInv
  <2> QED
    BY <2>2, <2>3, <2>6 DEF Inv
<1>6. CASE ~Heard(c)
  <2>1. ~Follows(c)
    BY <1>2, <1>6, Facts, FollowedIsHeard
  <2>2. TypeOK'
    BY <1>0, <1>1, <1>2, <1>6 DEF Inv, TypeOK, Unanswered
  <2>3. LoadInv' /\ CountInv'
    BY <1>1, <1>6 DEF Inv, LoadInv, CountInv, Total
  <2>4. FollowInv'
    BY <1>1, <1>4, <1>6, <2>1 DEF Inv, FollowInv, WillShow
  <2> QED
    BY <2>2, <2>3, <2>4 DEF Inv
<1> QED
  BY <1>5, <1>6

\* What is shown is the last change to follow, or something better is under way,
\* or it was there before.
LEMMA ShowInv == ASSUME Inv, NEW l \in loads, Show(l) PROVE Inv'
<1>1. /\ l.saw # Unanswered /\ loads' = loads \ {l}
      /\ shown' = [shown EXCEPT ![l.table] = l.saw]
      /\ excused' = IF l.saw < shown[l.table] THEN excused \cup {l.table} ELSE excused
      /\ UNCHANGED <<page, role, version, due, last, link, stream, owed, started, failures>>
  BY DEF Show, backend
<1>2. l.table \in Tables /\ l.saw \in 0 .. version[l.table]
  BY <1>1 DEF Inv, TypeOK
<1>3. \A t \in Tables : last[t] \in Nat /\ shown[t] \in Nat /\ version[t] \in Nat
  BY Facts
<1>4. \A t \in Tables : shown'[t] = IF t = l.table THEN l.saw ELSE shown[t]
  BY <1>1 DEF Inv, TypeOK
<1>5. TypeOK'
  <2>1. shown' \in [Tables -> 0 .. MaxChanges] /\ \A t \in Tables : shown'[t] <= version[t]
    <3>1. \A t \in Tables : version[t] \in 0 .. MaxChanges /\ MaxChanges \in Nat
      BY Facts
    <3>2. \A t \in Tables : shown'[t] \in 0 .. MaxChanges /\ shown'[t] <= version[t]
      <4>1. \A t \in Tables : shown[t] \in 0 .. MaxChanges /\ shown[t] <= version[t]
        BY DEF Inv, TypeOK
      <4> QED
        BY <1>2, <1>4, <3>1, <4>1
    <3> QED
      BY <1>1, <3>2 DEF Inv, TypeOK
  <2> QED
    BY <1>1, <1>2, <2>1 DEF Inv, TypeOK, Unanswered
<1>6. LoadInv' /\ CountInv'
  BY <1>1 DEF Inv, LoadInv, CountInv, Total
<1>7. FollowInv'
  <2> SUFFICES ASSUME NEW t \in Tables, t \notin excused', ~WillHear(t), ~(shown'[t] >= last[t])
               PROVE  WillShow(t)'
    BY <1>1 DEF FollowInv, WillHear, Follows
  <2>1. t \notin excused
    BY <1>1
  <2>2. ~(shown[t] >= last[t])
    <3>1. CASE t = l.table
      BY <1>1, <1>2, <1>3, <1>4, <3>1
    <3>2. CASE t # l.table
      BY <1>4, <3>2
    <3> QED
      BY <3>1, <3>2
  <2>3. PICK n \in loads : n.table = t /\ n.saw >= last[t]
    BY <2>1, <2>2 DEF Inv, FollowInv, WillShow
  <2>4. n # l
    BY <1>4, <2>3
  <2> QED
    BY <1>1, <2>3, <2>4 DEF WillShow
<1> QED
  BY <1>5, <1>6, <1>7 DEF Inv

LEMMA LoadFailsInv == ASSUME Inv, NEW l \in loads, LoadFails(l) PROVE Inv'
<1>1. TypeOK'
  BY ConstantsOK DEF LoadFails, backend, Inv, TypeOK, Unanswered
<1>2. LoadInv' /\ CountInv'
  BY DEF LoadFails, backend, Inv, LoadInv, CountInv, Total
<1>3. FollowInv'
  BY DEF LoadFails, backend, Inv, FollowInv, WillShow, WillHear, Follows
<1> QED
  BY <1>1, <1>2, <1>3 DEF Inv

\* What was on the stream is lost; its tables have a reason.
LEMMA OnErrorInv == ASSUME Inv, OnError PROVE Inv'
<1>1. /\ link' = "closed" /\ stream' = <<>> /\ failures < MaxFailures /\ failures' = failures + 1
      /\ excused' = excused \cup {stream[i].change.table : i \in 1 .. Len(stream)}
      /\ UNCHANGED <<page, role, version, due, last, loads, started, owed, shown>>
  BY DEF OnError, Feed!Close
<1>2. /\ stream \in Seq(Events) /\ DOMAIN stream = 1 .. Len(stream) /\ Capacity \in Nat
      /\ \A i \in 1 .. Len(stream) : stream[i].change.table \in Tables
  <2>1. stream \in Seq(Events) /\ Capacity \in Nat
    BY ConstantsOK DEF Inv, TypeOK
  <2>2. \A i \in 1 .. Len(stream) : stream[i] \in Events
    BY <2>1
  <2> QED
    BY <2>1, <2>2, LenProperties DEF Events, Changes
<1>3. stream' \in Seq(Events) /\ Len(stream') <= Capacity + 1
  BY <1>1, <1>2
<1>4. TypeOK'
  <2>1. failures' \in 0 .. MaxFailures
    BY <1>1, ConstantsOK DEF Inv, TypeOK
  <2> QED
    BY <1>1, <1>2, <1>3, <2>1 DEF Inv, TypeOK, Unanswered
<1>5. LoadInv' /\ CountInv'
  BY <1>1 DEF Inv, LoadInv, CountInv, Total
<1>6. FollowInv'
  BY <1>1, <1>2 DEF Inv, FollowInv, WillShow, WillHear, Follows
<1> QED
  BY <1>4, <1>5, <1>6 DEF Inv

LEMMA SubmittedInv == ASSUME Inv, Submitted PROVE Inv'
<1> DEFINE t == "transmutations"
<1>1. /\ t \in Tables /\ StartLoad(t) /\ owed > 0 /\ owed' = owed - 1
      /\ UNCHANGED <<page, role, version, due, last, link, stream, shown, failures>>
  BY DEF Submitted, backend, Tables
<1>2. /\ loads \subseteq loads' /\ started' \in Nat
      /\ loads' \subseteq [table : Tables, number : Nat, saw : Nat]
      /\ \A l \in loads' : l.table \in Tables /\ l.number < started'
                            /\ l.saw \in (0 .. version[l.table]) \cup {Unanswered}
      /\ excused' \subseteq Tables /\ excused \ {t} \subseteq excused'
      /\ \E l \in loads' : l.table = t /\ l.saw >= last[t]
  BY <1>1, StartLoadFacts
<1>3. owed' \in 0 .. MaxChanges /\ owed' <= version[t]
  BY <1>1, Facts DEF Inv, TypeOK, CountInv
<1>4. TypeOK'
  BY <1>1, <1>2, <1>3 DEF Inv, TypeOK, Unanswered
<1>5. LoadInv' /\ CountInv'
  BY <1>1, <1>2, <1>3 DEF Inv, LoadInv, CountInv, Total
<1>6. FollowInv'
  BY <1>1, <1>2 DEF Inv, FollowInv, WillShow, WillHear, Follows
<1> QED
  BY <1>4, <1>5, <1>6 DEF Inv

LEMMA SubmitFailsInv == ASSUME Inv, SubmitFails PROVE Inv'
<1>1. /\ owed > 0 /\ owed' = owed - 1 /\ failures < MaxFailures /\ failures' = failures + 1
      /\ UNCHANGED <<page, role, version, due, last, link, stream, loads, started, shown, excused>>
  BY DEF SubmitFails, backend
<1>2. owed' \in 0 .. MaxChanges /\ owed' <= version["transmutations"]
  <2>1. "transmutations" \in Tables
    BY DEF Tables
  <2> QED
    BY <1>1, <2>1, Facts DEF Inv, TypeOK, CountInv
<1>3. failures' \in 0 .. MaxFailures
  BY <1>1, ConstantsOK DEF Inv, TypeOK
<1>4. TypeOK'
  BY <1>1, <1>2, <1>3 DEF Inv, TypeOK, Unanswered
<1>5. LoadInv' /\ CountInv'
  BY <1>1, <1>2 DEF Inv, LoadInv, CountInv, Total
<1>6. FollowInv'
  BY <1>1 DEF Inv, FollowInv, WillShow, WillHear, Follows
<1> QED
  BY <1>4, <1>5, <1>6 DEF Inv

-----------------------------------------------------------------------------
(* The theorems.                                                              *)

\* Every step keeps the invariant.
LEMMA NextInv == Inv /\ [Next]_vars => Inv'
<1> SUFFICES ASSUME Inv, [Next]_vars PROVE Inv'
  OBVIOUS
<1>1. CASE Settle
  BY <1>1, BroadcastInv, SubscribeInv, OnMessageInv, SubmittedInv, ServeInv, ShowInv DEF Settle
<1>2. CASE Disturb
  BY <1>2, OthersChangeInv, SubmitInv, NeverBroadcastInv, LoadFailsInv, SubmitFailsInv, OnErrorInv
  DEF Disturb
<1>3. CASE UNCHANGED vars
  <2>1. TypeOK' /\ LoadInv'
    BY <1>3 DEF vars, backend, Inv, TypeOK, Unanswered, LoadInv
  <2>2. CountInv'
    BY <1>3 DEF vars, backend, Inv, CountInv, Total
  <2>3. FollowInv'
    BY <1>3 DEF vars, backend, Inv, FollowInv, WillShow, WillHear, Follows
  <2> QED
    BY <2>1, <2>2, <2>3 DEF Inv
<1> QED
  BY <1>1, <1>2, <1>3 DEF Next

\* The invariant holds in every reachable state.
THEOREM Invariance == Spec => []Inv
<1>1. Init => Inv
  BY InitInv
<1>2. Inv /\ [Next]_vars => Inv'
  BY NextInv
<1> QED
  BY <1>1, <1>2, PTL DEF Spec

\* Every variable of the page keeps its type (Dashboard.tsx, Transmutations.tsx,
\* Audits.tsx).
THEOREM TypesAreKept == Spec => []TypeOK
<1>1. Inv => TypeOK
  BY DEF Inv
<1> QED
  BY <1>1, Invariance, PTL

\* A page that is behind, with nothing under way, has a reason
\* (Dashboard.tsx 129-251, Transmutations.tsx 29-127, events.go 31-43).
THEOREM StalenessIsExplained == Spec => []StaleHasReason
<1>1. Inv => StaleHasReason
  <2> SUFFICES ASSUME Inv, NEW t \in Tables, Quiet(t), t \notin excused
               PROVE  shown[t] >= last[t]
    BY DEF StaleHasReason
  <2>1. ~WillShow(t)
    BY DEF Quiet, WillShow
  <2>2. ~WillHear(t)
    <3>1. DOMAIN stream = 1 .. Len(stream)
      BY DEF Inv, TypeOK
    <3> QED
      BY <3>1 DEF Quiet, WillHear
  <2> QED
    BY <2>1, <2>2 DEF Inv, FollowInv
<1> QED
  BY <1>1, Invariance, PTL
=============================================================================
