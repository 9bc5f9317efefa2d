--------------------------- MODULE RedisClientProofs ---------------------------
(* Proofs about RedisClient, for any number of tasks, connections and         *)
(* failures: the list keeps its order and every task, and the client          *)
(* implements TaskList.                                                       *)
EXTENDS RedisClient, SequenceTheorems, TLAPS

-----------------------------------------------------------------------------
(* Sequences.                                                                 *)

\* What Append adds to the range of a sequence.
LEMMA RangeAppend ==
  ASSUME NEW S, NEW s \in Seq(S), NEW e \in S
  PROVE  Range(Append(s, e)) = Range(s) \cup {e}
<1>1. DOMAIN s = 1 .. Len(s) /\ Len(s) \in Nat
  BY LenProperties
<1>2. /\ DOMAIN Append(s, e) = 1 .. Len(s) + 1
      /\ \A i \in 1 .. Len(s) : Append(s, e)[i] = s[i]
      /\ Append(s, e)[Len(s) + 1] = e
  <2>1. Append(s, e) \in Seq(S) /\ Len(Append(s, e)) = Len(s) + 1
    BY AppendProperties
  <2> QED
    BY <2>1, AppendProperties, LenProperties
<1> QED
  BY <1>1, <1>2 DEF Range

\* Head and Tail keep the range together.
LEMMA RangeHeadTail ==
  ASSUME NEW S, NEW s \in Seq(S), s # <<>>
  PROVE  /\ Head(s) \in S /\ Tail(s) \in Seq(S)
         /\ <<Head(s)>> \o Tail(s) = s
         /\ Range(<<Head(s)>>) \cup Range(Tail(s)) = Range(s)
<1>1. Head(s) \in S /\ Tail(s) \in Seq(S)
  BY HeadTailProperties
<1>2. <<Head(s)>> \o Tail(s) = s
  <2>1. /\ <<Head(s)>> \in Seq(S) /\ Len(<<Head(s)>>) = 1
        /\ <<Head(s)>>[1] = Head(s) /\ Head(s) = s[1]
    BY <1>1
  <2>2. /\ Len(s) \in Nat \ {0} /\ Len(Tail(s)) = Len(s) - 1
        /\ \A i \in 1 .. Len(Tail(s)) : Tail(s)[i] = s[i + 1]
    BY HeadTailProperties, EmptySeq
  <2> DEFINE c == <<Head(s)>> \o Tail(s)
  <2>3. /\ c \in Seq(S) /\ Len(c) = 1 + Len(Tail(s))
        /\ \A i \in 1 .. 1 + Len(Tail(s)) :
             c[i] = IF i <= 1 THEN <<Head(s)>>[i] ELSE Tail(s)[i - 1]
    BY <1>1, <2>1, ConcatProperties
  <2> HIDE DEF c
  <2>4. Len(c) = Len(s)
    BY <2>2, <2>3
  <2>5. ASSUME NEW i \in 1 .. Len(c) PROVE c[i] = s[i]
    <3>1. CASE i = 1
      BY <2>1, <2>2, <2>3, <3>1
    <3>2. CASE i # 1
      BY <2>2, <2>3, <3>2
    <3> QED
      BY <3>1, <3>2
  <2>6. c = s
    BY <2>3, <2>4, <2>5, SeqEqual
  <2> QED
    BY <2>6 DEF c
<1>3. Range(<<Head(s)>> \o Tail(s)) = Range(<<Head(s)>>) \cup Range(Tail(s))
  <2> DEFINE one == <<Head(s)>>
             rest == Tail(s)
  <2>1. one \in Seq(S) /\ rest \in Seq(S)
    BY <1>1
  <2> HIDE DEF one, rest
  <2>2. Range(one \o rest) = Range(one) \cup Range(rest)
    BY <2>1, RangeConcatenation
  <2> QED
    BY <2>2 DEF one, rest
<1> QED
  BY <1>1, <1>2, <1>3

\* The range of three sequences in a row.
LEMMA RangeOfThree ==
  ASSUME NEW S, NEW a \in Seq(S), NEW b \in Seq(S), NEW c \in Seq(S)
  PROVE  /\ a \o b \o c \in Seq(S)
         /\ Range(a \o b \o c) = Range(a) \cup Range(b) \cup Range(c)
<1> DEFINE ab == a \o b
<1>1. ab \in Seq(S) /\ Range(ab) = Range(a) \cup Range(b)
  BY ConcatProperties, RangeConcatenation
<1> HIDE DEF ab
<1>2. ab \o c \in Seq(S) /\ Range(ab \o c) = Range(ab) \cup Range(c)
  BY <1>1, ConcatProperties, RangeConcatenation
<1> QED
  BY <1>1, <1>2 DEF ab

\* Appending to the last of two sequences appends to both.
LEMMA AppendToLast ==
  ASSUME NEW S, NEW a \in Seq(S), NEW b \in Seq(S), NEW e \in S
  PROVE  a \o Append(b, e) = Append(a \o b, e)
<1> DEFINE one == <<e>>
<1>1. one \in Seq(S)
  OBVIOUS
<1>2. Append(b, e) = b \o one
  BY AppendIsConcat
<1>3. a \o b \in Seq(S)
  BY ConcatProperties
<1>4. Append(a \o b, e) = (a \o b) \o one
  BY <1>3, AppendIsConcat
<1> HIDE DEF one
<1>5. (a \o b) \o one = a \o (b \o one)
  BY <1>1, ConcatAssociative
<1> QED
  BY <1>2, <1>4, <1>5

\* A later push changes nothing in the order of the earlier ones.
LEMMA BeforeAppend ==
  ASSUME NEW S, NEW p \in Seq(S), NEW e \in S
  PROVE  /\ \A a, b : Before(p, a, b) => Before(Append(p, e), a, b)
         /\ \A a \in Range(p) : Before(Append(p, e), a, e)
<1>1. DOMAIN p = 1 .. Len(p) /\ Len(p) \in Nat
  BY LenProperties
<1>2. /\ DOMAIN Append(p, e) = 1 .. Len(p) + 1
      /\ \A i \in 1 .. Len(p) : Append(p, e)[i] = p[i]
      /\ Append(p, e)[Len(p) + 1] = e
  <2>1. Append(p, e) \in Seq(S) /\ Len(Append(p, e)) = Len(p) + 1
    BY AppendProperties
  <2> QED
    BY <2>1, AppendProperties, LenProperties
<1>3. ASSUME NEW a, NEW b, Before(p, a, b)
      PROVE  Before(Append(p, e), a, b)
  <2>1. PICK i, j \in DOMAIN p : i < j /\ p[i] = a /\ p[j] = b
    BY <1>3 DEF Before
  <2>2. i \in DOMAIN Append(p, e) /\ j \in DOMAIN Append(p, e)
    BY <1>1, <1>2
  <2>3. Append(p, e)[i] = a /\ Append(p, e)[j] = b
    BY <1>1, <1>2, <2>1
  <2> QED
    BY <2>1, <2>2, <2>3 DEF Before
<1>4. ASSUME NEW a \in Range(p)
      PROVE  Before(Append(p, e), a, e)
  <2>1. PICK i \in DOMAIN p : p[i] = a
    BY DEF Range
  <2>2. i \in DOMAIN Append(p, e) /\ Len(p) + 1 \in DOMAIN Append(p, e) /\ i < Len(p) + 1
    BY <1>1, <1>2
  <2>3. Append(p, e)[i] = a /\ Append(p, e)[Len(p) + 1] = e
    BY <1>1, <1>2, <2>1
  <2> QED
    BY <2>2, <2>3 DEF Before
<1> QED
  BY <1>3, <1>4

\* A task that is pushed comes last in the order of the pushes and of the list.
LEMMA SortedAppend ==
  ASSUME NEW S, NEW p \in Seq(S), NEW s \in Seq(S), NEW e \in S,
         Sorted(p, s), Range(s) \subseteq Range(p)
  PROVE  Sorted(Append(p, e), Append(s, e))
<1>1. DOMAIN s = 1 .. Len(s) /\ Len(s) \in Nat
  BY LenProperties
<1>2. /\ DOMAIN Append(s, e) = 1 .. Len(s) + 1
      /\ \A i \in 1 .. Len(s) : Append(s, e)[i] = s[i]
      /\ Append(s, e)[Len(s) + 1] = e
  <2>1. Append(s, e) \in Seq(S) /\ Len(Append(s, e)) = Len(s) + 1
    BY AppendProperties
  <2> QED
    BY <2>1, AppendProperties, LenProperties
<1> SUFFICES ASSUME NEW i \in DOMAIN Append(s, e), NEW j \in DOMAIN Append(s, e), i < j
             PROVE  Before(Append(p, e), Append(s, e)[i], Append(s, e)[j])
  BY DEF Sorted
<1>3. i \in DOMAIN s /\ Append(s, e)[i] = s[i]
  BY <1>1, <1>2
<1>4. CASE j = Len(s) + 1
  <2>1. s[i] \in Range(p)
    BY <1>3 DEF Range
  <2> QED
    BY <1>2, <1>3, <1>4, <2>1, BeforeAppend
<1>5. CASE j # Len(s) + 1
  <2>1. j \in DOMAIN s /\ Append(s, e)[j] = s[j]
    BY <1>1, <1>2, <1>5
  <2>2. Before(p, s[i], s[j])
    BY <1>3, <2>1 DEF Sorted
  <2> QED
    BY <1>3, <2>1, <2>2, BeforeAppend
<1> QED
  BY <1>4, <1>5

\* Losing the task on its way leaves the others in order.
LEMMA SortedWithout ==
  ASSUME NEW S, NEW p, NEW a \in Seq(S), NEW b \in Seq(S), NEW c \in Seq(S),
         Sorted(p, a \o b \o c)
  PROVE  Sorted(p, a \o <<>> \o c)
<1> DEFINE ac == a \o c
           abc == a \o b \o c
<1>1. a \o <<>> \o c = ac
  BY ConcatEmptySeq
<1>2. /\ Len(a) \in Nat /\ Len(b) \in Nat /\ Len(c) \in Nat
  BY LenProperties
<1>3. /\ ac \in Seq(S) /\ Len(ac) = Len(a) + Len(c)
      /\ \A i \in 1 .. Len(a) + Len(c) : ac[i] = IF i <= Len(a) THEN a[i] ELSE c[i - Len(a)]
  BY ConcatProperties
<1>4. /\ a \o b \in Seq(S) /\ Len(a \o b) = Len(a) + Len(b)
      /\ \A i \in 1 .. Len(a) + Len(b) :
           (a \o b)[i] = IF i <= Len(a) THEN a[i] ELSE b[i - Len(a)]
  BY ConcatProperties
<1>5. /\ abc \in Seq(S) /\ Len(abc) = Len(a) + Len(b) + Len(c)
      /\ \A i \in 1 .. Len(a) + Len(b) + Len(c) :
           abc[i] = IF i <= Len(a) + Len(b) THEN (a \o b)[i] ELSE c[i - (Len(a) + Len(b))]
  BY <1>4, ConcatProperties
<1>6. DOMAIN ac = 1 .. Len(a) + Len(c) /\ DOMAIN abc = 1 .. Len(a) + Len(b) + Len(c)
  BY <1>3, <1>5, LenProperties
<1> HIDE DEF ac, abc
<1> DEFINE at(i) == IF i <= Len(a) THEN i ELSE i + Len(b)
<1>7. ASSUME NEW i \in DOMAIN ac
      PROVE  at(i) \in DOMAIN abc /\ abc[at(i)] = ac[i]
  <2>1. CASE i <= Len(a)
    <3>1. /\ i \in 1 .. Len(a) + Len(c) /\ i \in 1 .. Len(a) + Len(b) + Len(c)
          /\ i \in 1 .. Len(a) + Len(b) /\ i <= Len(a) + Len(b)
      BY <1>2, <1>6, <2>1
    <3>2. ac[i] = a[i] /\ (a \o b)[i] = a[i]
      BY <1>3, <1>4, <2>1, <3>1
    <3>3. abc[i] = (a \o b)[i]
      BY <1>5, <3>1
    <3> QED
      BY <1>6, <2>1, <3>1, <3>2, <3>3
  <2>2. CASE ~(i <= Len(a))
    <3>1. /\ i \in 1 .. Len(a) + Len(c) /\ i + Len(b) \in 1 .. Len(a) + Len(b) + Len(c)
          /\ ~(i + Len(b) <= Len(a) + Len(b)) /\ (i + Len(b)) - (Len(a) + Len(b)) = i - Len(a)
      BY <1>2, <1>6, <2>2
    <3>2. ac[i] = c[i - Len(a)]
      BY <1>3, <2>2, <3>1
    <3>3. abc[i + Len(b)] = c[i - Len(a)]
      BY <1>5, <3>1
    <3> QED
      BY <1>6, <2>2, <3>1, <3>2, <3>3
  <2> QED
    BY <2>1, <2>2
<1>8. ASSUME NEW i \in DOMAIN ac, NEW j \in DOMAIN ac, i < j
      PROVE  at(i) < at(j)
  BY <1>2, <1>6, <1>8
<1> HIDE DEF at
<1>9. ASSUME NEW i \in DOMAIN ac, NEW j \in DOMAIN ac, i < j
      PROVE  Before(p, ac[i], ac[j])
  <2>1. at(i) \in DOMAIN abc /\ at(j) \in DOMAIN abc /\ at(i) < at(j)
    BY <1>7, <1>8, <1>9
  <2>2. Before(p, abc[at(i)], abc[at(j)])
    BY <2>1 DEF Sorted, abc
  <2> QED
    BY <1>7, <2>2
<1> QED
  BY <1>1, <1>9 DEF Sorted

-----------------------------------------------------------------------------
(* The initial state satisfies the inductive invariant.                       *)

\* Nothing was pushed and nobody has called yet.
LEMMA InitInv == Init => Inv
<1> SUFFICES ASSUME Init PROVE Inv
  OBVIOUS
<1>1. Range(<<>>) = {} /\ DOMAIN <<>> = {}
  BY DEF Range
<1>2. /\ list = <<>> /\ saved = <<>> /\ taken = <<>> /\ pushed = <<>> /\ popped = <<>>
      /\ <<>> \in Seq(Tasks)
  BY DEF Init
<1>3. TypeOK
  <2>1. Len(popped) <= 1
    BY <1>2
  <2>2. \A c \in Callers : pc[c] = "idle" /\ conn[c] = "none" /\ ~reply[c]
    BY DEF Init
  <2>3. Worker \in Callers
    BY DEF Callers
  <2>4. /\ pc \in [Callers -> {"idle", "dialed", "waiting", "spin", "ok", "error"}]
        /\ conn \in [Callers -> {"none", "open", "eof", "reset"}]
        /\ wire \in [Callers -> {"none", "sent", "served"}]
        /\ reply \in [Callers -> BOOLEAN]
    BY DEF Init
  <2>5. up \in BOOLEAN /\ lost \subseteq Tasks /\ restored \in BOOLEAN
    BY DEF Init
  <2>6. faults \in 0 .. MaxFaults
    BY ConstantsOK DEF Init
  <2> QED
    BY <1>2, <2>1, <2>2, <2>3, <2>4, <2>5, <2>6 DEF TypeOK
<1>4. CallInv
  <2>1. \A c \in Callers : wire[c] = "none" /\ ~reply[c] /\ pc[c] = "idle"
    BY DEF Init
  <2> QED
    BY <2>1 DEF CallInv, Callers
<1>5. PushedInv
  BY <1>1, <1>2 DEF PushedInv
<1>6. KeptInv
  BY <1>1, <1>2 DEF KeptInv
<1>7. OrderInv
  <2>1. Onward = <<>>
    BY <1>2 DEF Onward
  <2> QED
    BY <1>1, <1>2, <2>1 DEF OrderInv, Sorted
<1> QED
  BY <1>3, <1>4, <1>5, <1>6, <1>7 DEF Inv

-----------------------------------------------------------------------------
(* Every action preserves the inductive invariant.                            *)

\* The order and the whereabouts of the tasks only depend on Redis, the task on
\* its way to the worker and what the worker took.
LEMMA Undisturbed ==
  ASSUME Inv, UNCHANGED <<popped, redis, history>>
  PROVE  KeptInv' /\ OrderInv'
<1>1. UNCHANGED <<popped, list, saved, taken, pushed, lost, restored>>
  BY DEF redis, history
<1>2. KeptInv'
  BY <1>1 DEF Inv, KeptInv
<1>3. Onward' = Onward
  BY <1>1 DEF Onward
<1>4. OrderInv'
  <2>1. (Range(taken) \cup Range(popped) \cup Range(list) \cup Range(saved) \subseteq Range(pushed))'
    BY <1>1 DEF Inv, OrderInv
  <2>2. (~restored => Sorted(pushed, Onward))'
    BY <1>1, <1>3 DEF Inv, OrderInv
  <2> QED
    BY <2>1, <2>2 DEF OrderInv
<1> QED
  BY <1>2, <1>4

\* Dialing sends nothing.
LEMMA DialInv ==
  ASSUME Inv, NEW c \in Callers, Dial(c) \/ DialFails(c)
  PROVE  Inv'
<1>1. UNCHANGED <<wire, reply, popped, redis, history, faults>>
  BY DEF Dial, DialFails, sockets
<1>2. TypeOK'
  BY <1>1 DEF Dial, DialFails, Inv, TypeOK, redis, history, sockets
<1>3. CallInv'
  BY <1>1 DEF Dial, DialFails, Inv, TypeOK, CallInv, Callers, history, sockets
<1>4. PushedInv'
  BY <1>1 DEF Dial, DialFails, Inv, TypeOK, PushedInv, Callers, history
<1> QED
  BY <1>1, <1>2, <1>3, <1>4, Undisturbed DEF Inv

\* A command is written once, before it takes effect.
LEMMA WriteCommandInv ==
  ASSUME Inv, NEW c \in Callers, WriteCommand(c)
  PROVE  Inv'
<1>1. TypeOK'
  BY DEF WriteCommand, Inv, TypeOK, redis, history
<1>2. CallInv'
  BY DEF WriteCommand, Inv, TypeOK, CallInv, Callers, history
<1>3. PushedInv'
  BY DEF WriteCommand, Inv, TypeOK, PushedInv, Callers, history
<1> QED
  BY <1>1, <1>2, <1>3, Undisturbed DEF Inv, WriteCommand

\* A call that fails leaves its command and its reply behind.
LEMMA ReturnErrorInv ==
  ASSUME Inv, NEW c \in Callers, pc[c] \in {"dialed", "waiting"}, ~reply[c],
         Return(c, ResetResult), UNCHANGED <<popped, redis, history, faults>>
  PROVE  Inv'
<1>1. TypeOK'
  BY DEF Return, Closed, ResetResult, Inv, TypeOK, redis, history
<1>2. CallInv'
  BY DEF Return, Closed, ResetResult, Inv, TypeOK, CallInv, Callers, history
<1>3. PushedInv'
  BY DEF Return, Closed, ResetResult, Inv, TypeOK, PushedInv, Callers, history
<1> QED
  BY <1>1, <1>2, <1>3, Undisturbed DEF Inv

\* Neither a failed write nor a failed read loses a reply that is there.
LEMMA FailsInv ==
  ASSUME Inv, NEW c \in Callers, WriteFails(c) \/ ReadFails(c)
  PROVE  Inv'
<1>1. CASE WriteFails(c)
  <2>1. pc[c] = "dialed" /\ ~reply[c]
    BY <1>1 DEF WriteFails, Inv, CallInv
  <2> QED
    BY <1>1, <2>1, ReturnErrorInv DEF WriteFails
<1>2. CASE ReadFails(c) /\ Return(c, ResetResult)
  BY <1>2, ReturnErrorInv DEF ReadFails
<1>3. CASE ReadFails(c) /\ pc' = [pc EXCEPT ![c] = "spin"] /\ UNCHANGED <<conn, wire, reply>>
  <2>1. /\ pc[c] = "waiting" /\ ~reply[c] /\ conn[c] = "eof"
        /\ UNCHANGED <<popped, redis, history, faults>>
    BY <1>3 DEF ReadFails, ReadsAgain, Return, Closed, ResetResult, Inv, TypeOK
  <2>2. TypeOK'
    BY <1>3, <2>1 DEF Inv, TypeOK, redis, history
  <2>3. CallInv'
    BY <1>3, <2>1 DEF Inv, TypeOK, CallInv, Callers, history
  <2>4. PushedInv'
    BY <1>3, <2>1 DEF Inv, TypeOK, PushedInv, Callers, history
  <2> QED
    BY <2>1, <2>2, <2>3, <2>4, Undisturbed DEF Inv
<1> QED
  BY <1>1, <1>2, <1>3 DEF ReadFails

\* LPUSH reports success of a task that was pushed.
LEMMA PushedReplyInv ==
  ASSUME Inv, NEW t \in Tasks, Pushed(t)
  PROVE  Inv'
<1> t \in Callers /\ t # Worker
  BY ConstantsOK DEF Callers
<1>1. TypeOK'
  BY DEF Pushed, Return, Closed, Inv, TypeOK, redis, history
<1>2. CallInv'
  BY DEF Pushed, Return, Closed, Inv, TypeOK, CallInv, Callers, history
<1>3. PushedInv'
  BY DEF Pushed, Return, Closed, Inv, TypeOK, PushedInv, Callers, history
<1> QED
  BY <1>1, <1>2, <1>3, Undisturbed DEF Inv, Pushed

\* BRPOP hands over the task on its way.
LEMMA PoppedInv ==
  ASSUME Inv, Popped
  PROVE  Inv'
<1> Worker \in Callers /\ \A t \in Tasks : t \in Callers /\ t # Worker
  BY ConstantsOK DEF Callers
<1>1. /\ taken \in Seq(Tasks) /\ popped \in Seq(Tasks) /\ list \in Seq(Tasks)
      /\ taken' = taken \o popped /\ popped' = <<>>
      /\ UNCHANGED <<redis, pushed, lost, restored>>
  BY DEF Popped, Inv, TypeOK
<1>2. taken' \in Seq(Tasks) /\ Range(taken') = Range(taken) \cup Range(popped)
  BY <1>1, ConcatProperties, RangeConcatenation
<1>3. popped' \in Seq(Tasks) /\ Len(popped') <= 1 /\ Range(popped') = {}
  BY <1>1 DEF Range
<1>4. TypeOK'
  BY <1>1, <1>2, <1>3 DEF Popped, Return, Closed, Inv, TypeOK, redis
<1>5. CallInv'
  BY <1>1 DEF Popped, Return, Closed, Inv, TypeOK, CallInv, Callers
<1>6. PushedInv'
  BY <1>1 DEF Popped, Return, Closed, Inv, TypeOK, PushedInv, Callers
<1>7. KeptInv'
  BY <1>1, <1>2, <1>3 DEF Inv, KeptInv, redis
<1>8. Onward' = Onward
  <2>1. (taken \o popped) \o <<>> = taken \o popped
    BY <1>1, <1>2, ConcatEmptySeq
  <2> QED
    BY <1>1, <2>1 DEF Onward, redis
<1>9. OrderInv'
  BY <1>1, <1>2, <1>3, <1>8 DEF Inv, OrderInv, redis
<1> QED
  BY <1>4, <1>5, <1>6, <1>7, <1>9 DEF Inv

\* The worker calls again.
LEMMA NextCallInv ==
  ASSUME Inv, NextCall
  PROVE  Inv'
<1> Worker \in Callers /\ \A t \in Tasks : t \in Callers /\ t # Worker
  BY ConstantsOK DEF Callers
<1>1. TypeOK'
  BY DEF NextCall, Again, Inv, TypeOK, sockets, redis, history
<1>2. CallInv'
  BY DEF NextCall, Again, Inv, TypeOK, CallInv, Callers, sockets, history
<1>3. PushedInv'
  BY DEF NextCall, Again, Inv, TypeOK, PushedInv, Callers, sockets, history
<1> QED
  BY <1>1, <1>2, <1>3, Undisturbed DEF Inv, NextCall, sockets

\* Redis reads a command once: who pushed has none left to be read.
LEMMA ServeInv ==
  ASSUME Inv, NEW c \in Callers, Serve(c)
  PROVE  Inv'
<1>1. TypeOK'
  BY DEF Serve, Inv, TypeOK, redis, history
<1>2. CallInv'
  BY DEF Serve, Inv, TypeOK, CallInv, Callers, history
<1>3. PushedInv'
  BY DEF Serve, Inv, TypeOK, PushedInv, Callers, history
<1> QED
  BY <1>1, <1>2, <1>3, Undisturbed DEF Inv, Serve

\* A pushed task is the last one of the list and of the pushes.
LEMMA ServePushInv ==
  ASSUME Inv, NEW t \in Tasks, ServePush(t)
  PROVE  Inv'
<1> t \in Callers /\ t # Worker
  BY ConstantsOK DEF Callers
<1>1. /\ taken \in Seq(Tasks) /\ popped \in Seq(Tasks) /\ list \in Seq(Tasks)
      /\ pushed \in Seq(Tasks) /\ saved \in Seq(Tasks)
      /\ list' = Append(list, t) /\ pushed' = Append(pushed, t)
      /\ UNCHANGED <<taken, popped, saved, lost, restored>>
  BY DEF ServePush, PushEnd, Inv, TypeOK
<1>2. /\ list' \in Seq(Tasks) /\ Range(list') = Range(list) \cup {t}
      /\ pushed' \in Seq(Tasks) /\ Range(pushed') = Range(pushed) \cup {t}
  BY <1>1, AppendProperties, RangeAppend
<1>3. t \notin Range(pushed)
  BY DEF ServePush, Inv, PushedInv
<1>4. TypeOK'
  BY <1>1, <1>2 DEF ServePush, Inv, TypeOK
<1>5. CallInv'
  BY <1>2 DEF ServePush, Inv, TypeOK, CallInv, Callers
<1>6. PushedInv'
  <2>1. ASSUME NEW u \in Tasks, u \in Range(pushed')
        PROVE  /\ pc'[u] \notin {"idle", "dialed"}
               /\ wire'[u] # "none" => wire'[u] = "served" /\ reply'[u]
    BY <1>2, <2>1 DEF ServePush, Inv, TypeOK, CallInv, PushedInv, Callers
  <2>2. /\ DOMAIN pushed = 1 .. Len(pushed) /\ Len(pushed) \in Nat
        /\ DOMAIN pushed' = 1 .. Len(pushed) + 1
        /\ \A i \in 1 .. Len(pushed) : pushed'[i] = pushed[i]
        /\ pushed'[Len(pushed) + 1] = t
    <3>1. Len(pushed') = Len(pushed) + 1
      BY <1>1, AppendProperties
    <3> QED
      BY <1>1, <1>2, <3>1, AppendProperties, LenProperties
  <2>3. ASSUME NEW i \in DOMAIN pushed', NEW j \in DOMAIN pushed', pushed'[i] = pushed'[j]
        PROVE  i = j
    <3>1. \A k \in DOMAIN pushed : pushed[k] # t
      BY <1>3 DEF Range
    <3> QED
      BY <2>2, <2>3, <3>1 DEF Inv, PushedInv
  <2> QED
    BY <2>1, <2>3 DEF PushedInv
<1>7. KeptInv'
  BY <1>1, <1>2 DEF Inv, KeptInv
<1>8. OrderInv'
  <2>1. taken \o popped \in Seq(Tasks)
    BY <1>1, ConcatProperties
  <2>2. Onward \in Seq(Tasks) /\ Range(Onward) \subseteq Range(pushed)
    BY <1>1, RangeOfThree DEF Onward, Inv, OrderInv
  <2>3. Onward' = Append(Onward, t)
    <3> DEFINE ahead == taken \o popped
    <3>1. Onward = ahead \o list /\ Onward' = ahead \o Append(list, t)
      BY <1>1 DEF Onward
    <3>2. ahead \in Seq(Tasks) /\ list \in Seq(Tasks) /\ t \in Tasks
      BY <1>1, <2>1
    <3> HIDE DEF ahead
    <3>3. ahead \o Append(list, t) = Append(ahead \o list, t)
      BY <3>2, AppendToLast
    <3> QED
      BY <3>1, <3>3
  <2>4. ~restored' => Sorted(pushed', Onward')
    BY <1>1, <2>2, <2>3, SortedAppend DEF Inv, OrderInv
  <2> QED
    BY <1>1, <1>2, <2>4 DEF Inv, OrderInv
<1> QED
  BY <1>4, <1>5, <1>6, <1>7, <1>8 DEF Inv

\* BRPOP takes the oldest task, which is then on its way.
LEMMA ServePopInv ==
  ASSUME Inv, ServePop
  PROVE  Inv'
<1> Worker \in Callers /\ \A t \in Tasks : t \in Callers /\ t # Worker
  BY ConstantsOK DEF Callers
<1>1. /\ taken \in Seq(Tasks) /\ list \in Seq(Tasks) /\ list # <<>> /\ popped = <<>>
      /\ popped' = <<Head(list)>> /\ list' = Tail(list)
      /\ UNCHANGED <<taken, pushed, saved, lost, restored>>
  BY DEF ServePop, Inv, TypeOK, history
<1>2. /\ Head(list) \in Tasks /\ Tail(list) \in Seq(Tasks)
      /\ <<Head(list)>> \o Tail(list) = list
      /\ Range(popped') \cup Range(list') = Range(list)
  BY <1>1, RangeHeadTail
<1>3. popped' \in Seq(Tasks) /\ Len(popped') = 1 /\ popped' # <<>> /\ Range(popped) = {}
  BY <1>1, <1>2 DEF Range
<1>4. TypeOK'
  BY <1>1, <1>2, <1>3 DEF ServePop, Inv, TypeOK, history
<1>5. CallInv'
  BY <1>1 DEF ServePop, Inv, TypeOK, CallInv, Callers
<1>6. PushedInv'
  BY <1>1 DEF ServePop, Inv, TypeOK, PushedInv, Callers
<1>7. KeptInv'
  BY <1>1, <1>2, <1>3 DEF Inv, KeptInv
<1>8. Onward' = Onward
  <2>1. taken \o <<>> = taken
    BY <1>1, ConcatEmptySeq
  <2>2. (taken \o <<Head(list)>>) \o Tail(list) = taken \o (<<Head(list)>> \o Tail(list))
    BY <1>1, <1>2, <1>3, ConcatAssociative
  <2> QED
    BY <1>1, <1>2, <2>1, <2>2 DEF Onward
<1>9. OrderInv'
  BY <1>1, <1>2, <1>8 DEF Inv, OrderInv
<1> QED
  BY <1>4, <1>5, <1>6, <1>7, <1>9 DEF Inv

\* What the end of connections leaves: the task on its way to the worker stays
\* or is gone, and no command is left on a closed connection.
LEMMA HangupFacts ==
  ASSUME Inv, NEW C \in SUBSET Connected, Hangup(C)
  PROVE  /\ conn' \in [Callers -> {"none", "open", "eof", "reset"}]
         /\ wire' \in [Callers -> {"none", "sent", "served"}]
         /\ reply' \in [Callers -> BOOLEAN]
         /\ \A c \in Callers :
              /\ conn'[c] = "none" <=> conn[c] = "none"
              /\ wire'[c] # "none" => wire'[c] = wire[c] /\ conn'[c] = "open" /\ reply'[c] = reply[c]
              /\ reply'[c] => reply[c]
         /\ popped' = (IF reply'[Worker] THEN popped ELSE <<>>)
<1> Worker \in Callers
  BY DEF Callers
<1>1. PICK how \in [C -> Endings], arrives \in [C -> BOOLEAN] :
        /\ conn' = [c \in Callers |-> IF c \in C THEN how[c] ELSE conn[c]]
        /\ wire' = [c \in Callers |-> IF c \in C THEN "none" ELSE wire[c]]
        /\ reply' = [c \in Callers |-> reply[c] /\ (c \in C => arrives[c])]
        /\ popped' = IF reply'[Worker] THEN popped ELSE <<>>
  BY DEF Hangup
<1>2. \A c \in C : how[c] \in {"eof", "reset"} /\ c \in Callers /\ conn[c] = "open"
  BY ConstantsOK DEF Connected
<1>3. conn' \in [Callers -> {"none", "open", "eof", "reset"}]
  BY <1>1, <1>2 DEF Inv, TypeOK
<1>4. wire' \in [Callers -> {"none", "sent", "served"}]
  BY <1>1 DEF Inv, TypeOK
<1>5. reply' \in [Callers -> BOOLEAN]
  BY <1>1
<1>6. ASSUME NEW c \in Callers
      PROVE  /\ conn'[c] = "none" <=> conn[c] = "none"
             /\ wire'[c] # "none" => wire'[c] = wire[c] /\ conn'[c] = "open" /\ reply'[c] = reply[c]
             /\ reply'[c] => reply[c]
  <2>1. CASE c \in C
    BY <1>1, <1>2, <2>1
  <2>2. CASE c \notin C
    <3>1. conn'[c] = conn[c] /\ wire'[c] = wire[c]
      BY <1>1, <2>2
    <3>2. reply'[c] = reply[c]
      <4>1. reply'[c] = (reply[c] /\ (c \in C => arrives[c]))
        BY <1>1
      <4>2. reply[c] \in BOOLEAN
        BY DEF Inv, TypeOK
      <4> QED
        BY <2>2, <4>1, <4>2
    <3> QED
      BY <3>1, <3>2 DEF Inv, CallInv
  <2> QED
    BY <2>1, <2>2
<1> QED
  BY <1>1, <1>3, <1>4, <1>5, <1>6

\* Lost connections disturb neither the calls nor the order of the tasks.
LEMMA HangupInv ==
  ASSUME Inv, NEW C \in SUBSET Connected, Hangup(C), UNCHANGED <<pc, taken, pushed>>
  PROVE  /\ conn' \in [Callers -> {"none", "open", "eof", "reset"}]
         /\ wire' \in [Callers -> {"none", "sent", "served"}]
         /\ reply' \in [Callers -> BOOLEAN]
         /\ popped' \in Seq(Tasks) /\ Len(popped') <= 1
         /\ popped' # <<>> <=> reply'[Worker]
         /\ \A c \in Callers : conn'[c] = "none" <=> pc'[c] \in {"idle", "ok", "error"}
         /\ Range(popped') \subseteq Range(popped)
         /\ CallInv' /\ PushedInv'
         /\ Sorted(pushed, Onward) => Sorted(pushed, taken \o popped' \o list)
<1> Worker \in Callers /\ \A t \in Tasks : t \in Callers
  BY DEF Callers
<1>1. /\ conn' \in [Callers -> {"none", "open", "eof", "reset"}]
      /\ wire' \in [Callers -> {"none", "sent", "served"}]
      /\ reply' \in [Callers -> BOOLEAN]
      /\ popped' = (IF reply'[Worker] THEN popped ELSE <<>>)
  BY HangupFacts
<1>2. \A c \in Callers :
        /\ conn'[c] = "none" <=> conn[c] = "none"
        /\ wire'[c] # "none" => wire'[c] = wire[c] /\ conn'[c] = "open" /\ reply'[c] = reply[c]
        /\ reply'[c] => reply[c]
  BY HangupFacts
<1>3. /\ popped' \in Seq(Tasks) /\ Len(popped') <= 1
      /\ popped' # <<>> <=> reply'[Worker]
      /\ popped' \in {popped, <<>>}
  BY <1>1, <1>2 DEF Inv, TypeOK
<1>4. Range(popped') \subseteq Range(popped)
  BY <1>3 DEF Range
<1>5. \A c \in Callers : conn'[c] = "none" <=> pc'[c] \in {"idle", "ok", "error"}
  BY <1>2 DEF Inv, TypeOK
<1>6. CallInv'
  BY <1>1, <1>2 DEF Inv, CallInv
<1>7. PushedInv'
  BY <1>1, <1>2 DEF Inv, PushedInv
<1>8. Sorted(pushed, Onward) => Sorted(pushed, taken \o popped' \o list)
  <2>1. CASE popped' = popped
    BY <2>1 DEF Onward
  <2>2. CASE popped' = <<>>
    BY <2>2, SortedWithout DEF Onward, Inv, TypeOK
  <2> QED
    BY <1>3, <2>1, <2>2
<1> QED
  BY <1>1, <1>3, <1>4, <1>5, <1>6, <1>7, <1>8

\* One connection is lost, and perhaps the task on its way with it.
LEMMA CutInv ==
  ASSUME Inv, NEW c \in Callers, Cut(c)
  PROVE  Inv'
<1>1. /\ {c} \in SUBSET Connected /\ Hangup({c})
      /\ UNCHANGED <<pc, taken, pushed, up, list, saved, restored>>
      /\ lost' = lost \cup (Range(popped) \ Range(popped'))
      /\ faults < MaxFaults /\ faults' = faults + 1
  BY DEF Cut, Fault, redis
<1> DEFINE kept == Range(popped') \subseteq Range(popped)
<1>2. kept /\ CallInv' /\ PushedInv'
  BY <1>1, HangupInv
<1>3. TypeOK'
  <2>1. Range(popped) \subseteq Tasks
    BY RangeOfSeq DEF Inv, TypeOK
  <2>2. lost' \subseteq Tasks /\ faults' \in 0 .. MaxFaults
    BY <1>1, <2>1, ConstantsOK DEF Inv, TypeOK
  <2>3. /\ conn' \in [Callers -> {"none", "open", "eof", "reset"}]
        /\ wire' \in [Callers -> {"none", "sent", "served"}]
        /\ reply' \in [Callers -> BOOLEAN]
        /\ popped' \in Seq(Tasks) /\ Len(popped') <= 1
        /\ popped' # <<>> <=> reply'[Worker]
        /\ \A d \in Callers : conn'[d] = "none" <=> pc'[d] \in {"idle", "ok", "error"}
    BY <1>1, HangupInv
  <2> QED
    BY <1>1, <2>2, <2>3 DEF Inv, TypeOK
<1>4. KeptInv'
  BY <1>1, <1>2 DEF Inv, KeptInv
<1>5. OrderInv'
  <2>1. Onward' = taken \o popped' \o list
    BY <1>1 DEF Onward
  <2>2. Sorted(pushed, Onward) => Sorted(pushed, taken \o popped' \o list)
    BY <1>1, HangupInv
  <2> QED
    BY <1>1, <1>2, <2>1, <2>2 DEF Inv, OrderInv
<1> QED
  BY <1>2, <1>3, <1>4, <1>5 DEF Inv

\* Redis stops; `restored` tells when it comes back with another list.
LEMMA StopInv ==
  ASSUME Inv, Stop
  PROVE  Inv'
<1>1. /\ Connected \in SUBSET Connected /\ Hangup(Connected) /\ up' = FALSE
      /\ UNCHANGED <<pc, taken, pushed>>
      /\ list' \in {list, saved} /\ saved' = list'
      /\ restored' = (restored \/ list' # list)
      /\ lost' = lost \cup (Range(popped) \ Range(popped')) \cup (Range(list) \ Range(list'))
      /\ faults < MaxFaults /\ faults' = faults + 1
  BY DEF Stop, Fault
<1> DEFINE kept == Range(popped') \subseteq Range(popped)
<1>2. kept /\ CallInv' /\ PushedInv'
  BY <1>1, HangupInv
<1>3. TypeOK'
  <2>1. Range(popped) \subseteq Tasks /\ Range(list) \subseteq Tasks
    BY RangeOfSeq DEF Inv, TypeOK
  <2>2. /\ lost' \subseteq Tasks /\ faults' \in 0 .. MaxFaults
        /\ list' \in Seq(Tasks) /\ saved' \in Seq(Tasks) /\ restored' \in BOOLEAN
    BY <1>1, <2>1, ConstantsOK DEF Inv, TypeOK
  <2>3. /\ conn' \in [Callers -> {"none", "open", "eof", "reset"}]
        /\ wire' \in [Callers -> {"none", "sent", "served"}]
        /\ reply' \in [Callers -> BOOLEAN]
        /\ popped' \in Seq(Tasks) /\ Len(popped') <= 1
        /\ popped' # <<>> <=> reply'[Worker]
        /\ \A d \in Callers : conn'[d] = "none" <=> pc'[d] \in {"idle", "ok", "error"}
    BY <1>1, HangupInv
  <2> QED
    BY <1>1, <2>2, <2>3 DEF Inv, TypeOK
<1>4. KeptInv'
  BY <1>1, <1>2 DEF Inv, KeptInv
<1>5. OrderInv'
  <2>1. Range(list') \cup Range(saved') \subseteq Range(pushed')
    BY <1>1 DEF Inv, OrderInv
  <2>2. ASSUME ~restored' PROVE Sorted(pushed', Onward')
    <3>1. list' = list /\ ~restored
      BY <1>1, <2>2 DEF Inv, TypeOK
    <3>2. Onward' = taken \o popped' \o list
      BY <1>1, <3>1 DEF Onward
    <3>3. Sorted(pushed, Onward) => Sorted(pushed, taken \o popped' \o list)
      BY <1>1, HangupInv
    <3> QED
      BY <1>1, <3>1, <3>2, <3>3 DEF Inv, OrderInv
  <2> QED
    BY <1>1, <1>2, <2>1, <2>2 DEF Inv, OrderInv
<1> QED
  BY <1>2, <1>3, <1>4, <1>5 DEF Inv

\* Redis comes back, or writes a snapshot.
LEMMA RedisInv ==
  ASSUME Inv, Restart \/ Snapshot
  PROVE  Inv'
<1>1. /\ UNCHANGED <<pc, conn, wire, reply, popped, list, taken, pushed, lost, restored>>
      /\ saved' \in {saved, list} /\ up' \in BOOLEAN /\ faults' \in 0 .. MaxFaults
  <2>1. CASE Restart
    BY <2>1 DEF Restart, sockets, history, Inv, TypeOK
  <2>2. CASE Snapshot
    <3>1. faults' \in 0 .. MaxFaults
      BY <2>2, ConstantsOK DEF Snapshot, Fault, Inv, TypeOK
    <3> QED
      BY <2>2, <3>1 DEF Snapshot, sockets, history, Inv, TypeOK
  <2> QED
    BY <2>1, <2>2
<1>2. TypeOK'
  BY <1>1 DEF Inv, TypeOK
<1>3. CallInv'
  BY <1>1 DEF Inv, CallInv
<1>4. PushedInv'
  BY <1>1 DEF Inv, PushedInv
<1>5. KeptInv'
  BY <1>1 DEF Inv, KeptInv
<1>6. OrderInv'
  BY <1>1 DEF Inv, OrderInv, Onward
<1> QED
  BY <1>2, <1>3, <1>4, <1>5, <1>6 DEF Inv

\* Doing nothing changes nothing.
LEMMA StutterInv == Inv /\ UNCHANGED vars => Inv'
BY DEF Inv, TypeOK, CallInv, PushedInv, KeptInv, OrderInv, Onward,
       vars, sockets, redis, history

\* The inductive invariant holds in every reachable state.
THEOREM Invariance == Spec => []Inv
<1>1. Init => Inv
  BY InitInv
<1>2. Inv /\ [Next]_vars => Inv'
  <2> SUFFICES ASSUME Inv, [Next]_vars PROVE Inv'
    OBVIOUS
  <2>1. ASSUME NEW c \in Callers, Step(c) PROVE Inv'
    BY <2>1, DialInv, WriteCommandInv, FailsInv, PushedReplyInv, PoppedInv, NextCallInv DEF Step
  <2>2. ASSUME NEW c \in Callers, Command(c) PROVE Inv'
    BY <2>2, ServeInv, ServePushInv, ServePopInv DEF Command
  <2>3. ASSUME NEW c \in Callers, Cut(c) PROVE Inv'
    BY <2>3, CutInv
  <2> QED
    BY <2>1, <2>2, <2>3, StopInv, RedisInv, StutterInv DEF Next
<1> QED
  BY <1>1, <1>2, PTL DEF Spec

-----------------------------------------------------------------------------
(* What a reader should know of.                                              *)

\* Calls, connections and the list stay consistent.
THEOREM TypesAreKept == Spec => []TypeOK
<1>1. Inv => TypeOK
  BY DEF Inv
<1> QED
  BY <1>1, Invariance, PTL

\* A task whose push reported success is listed, on its way, taken, or lost with
\* a reply or a restart.
THEOREM SuccessIsNotLost == Spec => []SuccessIsKept
<1>1. Inv => SuccessIsKept
  <2> SUFFICES ASSUME Inv, NEW t \in Tasks, pc[t] = "ok"
               PROVE  t \in Range(list \o popped \o taken) \cup lost
    BY DEF SuccessIsKept
  <2>1. list \in Seq(Tasks) /\ popped \in Seq(Tasks) /\ taken \in Seq(Tasks)
    BY DEF Inv, TypeOK
  <2>2. Range(list \o popped \o taken) = Range(list) \cup Range(popped) \cup Range(taken)
    BY <2>1, RangeOfThree
  <2>3. t \in Range(pushed)
    BY DEF Inv, CallInv
  <2> QED
    BY <2>2, <2>3 DEF Inv, KeptInv
<1> QED
  BY <1>1, Invariance, PTL

\* The worker gets no task twice and all in the order of the pushes, unless Redis
\* came back with an older list.
THEOREM TasksComeOnceInOrder == Spec => []OnceInOrder
<1>1. Inv => OnceInOrder
  <2> SUFFICES ASSUME Inv, ~restored,
                      NEW i \in DOMAIN Onward, NEW j \in DOMAIN Onward, i < j
               PROVE  Onward[i] # Onward[j] /\ Before(pushed, Onward[i], Onward[j])
    BY DEF OnceInOrder
  <2>1. Before(pushed, Onward[i], Onward[j])
    BY DEF Inv, OrderInv, Sorted
  <2>2. PICK k, l \in DOMAIN pushed : k < l /\ pushed[k] = Onward[i] /\ pushed[l] = Onward[j]
    BY <2>1 DEF Before
  <2>3. k \in Nat /\ l \in Nat
    <3>1. DOMAIN pushed = 1 .. Len(pushed) /\ Len(pushed) \in Nat
      BY LenProperties DEF Inv, TypeOK
    <3> QED
      BY <3>1
  <2>4. k # l
    BY <2>2, <2>3
  <2> QED
    BY <2>1, <2>2, <2>4 DEF Inv, PushedInv
<1> QED
  BY <1>1, Invariance, PTL

-----------------------------------------------------------------------------
(* The client implements TaskList.                                            *)

\* A step of one caller changes what that caller knows of its call.
LEMMA CallOfOthers ==
  ASSUME TypeOK, NEW c \in Callers, NEW x, pc' = [pc EXCEPT ![c] = x]
  PROVE  \A t \in Tasks : t # c => Call(t)' = Call(t)
BY DEF TypeOK, Call, Callers

\* A call that is begun, ends or fails is that for the promise; what only the
\* connection knows of changes nothing.
LEMMA StepKeepsPromise ==
  ASSUME Inv, NEW c \in Callers, Step(c)
  PROVE  [Promise!Next]_(Promise!vars)
<1> DEFINE known == [t \in Tasks |-> Call(t)]
<1>1. Worker \notin Tasks /\ \A t \in Tasks : t \in Callers
  BY ConstantsOK DEF Callers
<1>2. TypeOK
  BY DEF Inv
<1>3. ASSUME Dial(c)
      PROVE  [Promise!Next]_(Promise!vars)
  <2>1. /\ pc[c] = "idle" /\ pc' = [pc EXCEPT ![c] = "dialed"]
        /\ UNCHANGED <<popped, list, saved, taken, pushed>>
    BY <1>3 DEF Dial, redis, history
  <2>2. CASE c \in Tasks
    <3>1. Call(c) = "idle" /\ Call(c)' = "begun"
      BY <1>2, <2>1 DEF Call, TypeOK
    <3>2. known' = [known EXCEPT ![c] = "begun"]
      BY <1>2, <2>1, <2>2, <3>1, CallOfOthers
    <3>3. Promise!Begin(c)
      BY <2>1, <2>2, <3>1, <3>2 DEF Promise!Begin
    <3> QED
      BY <2>2, <3>3 DEF Promise!Next
  <2>3. CASE c \notin Tasks
    <3>1. known' = known
      BY <1>2, <2>1, <2>3, CallOfOthers
    <3> QED
      BY <2>1, <3>1 DEF Promise!vars
  <2> QED
    BY <2>2, <2>3
<1>4. ASSUME pc[c] \in {"idle", "dialed", "waiting"}, pc' = [pc EXCEPT ![c] = "error"],
             UNCHANGED <<popped, redis, history>>
      PROVE  [Promise!Next]_(Promise!vars)
  <2>1. UNCHANGED <<popped, list, saved, taken, pushed>>
    BY <1>4 DEF redis, history
  <2>2. CASE c \in Tasks
    <3>1. Call(c) \in {"idle", "begun"} /\ Call(c)' = "error"
      BY <1>2, <1>4 DEF Call, TypeOK
    <3>2. known' = [known EXCEPT ![c] = "error"]
      BY <1>2, <1>4, <2>2, <3>1, CallOfOthers
    <3>3. Promise!Fail(c)
      BY <2>1, <2>2, <3>1, <3>2 DEF Promise!Fail
    <3> QED
      BY <2>2, <3>3 DEF Promise!Next
  <2>3. CASE c \notin Tasks
    <3>1. known' = known
      BY <1>2, <1>4, <2>3, CallOfOthers
    <3> QED
      BY <2>1, <3>1 DEF Promise!vars
  <2> QED
    BY <2>2, <2>3
<1>5. ASSUME NEW x, pc' = [pc EXCEPT ![c] = x], UNCHANGED <<popped, redis, history>>,
             c = Worker \/ (pc[c] \in {"dialed", "waiting"} /\ x \in {"waiting", "spin"})
      PROVE  [Promise!Next]_(Promise!vars)
  <2>1. UNCHANGED <<popped, list, saved, taken, pushed>>
    BY <1>5 DEF redis, history
  <2>2. c \in Tasks => Call(c)' = Call(c)
    BY <1>1, <1>2, <1>5 DEF Call, TypeOK
  <2>3. known' = known
    BY <1>2, <1>5, <2>2, CallOfOthers
  <2> QED
    BY <2>1, <2>3 DEF Promise!vars
<1>6. ASSUME c \in Tasks, Pushed(c)
      PROVE  [Promise!Next]_(Promise!vars)
  <2>1. /\ pc[c] = "waiting" /\ reply[c] /\ pc' = [pc EXCEPT ![c] = "ok"]
        /\ UNCHANGED <<popped, list, saved, taken, pushed>>
    BY <1>6 DEF Pushed, Return, redis, history
  <2>2. Call(c) = "begun" /\ Call(c)' = "ok"
    BY <1>2, <2>1 DEF Call, TypeOK
  <2>3. known' = [known EXCEPT ![c] = "ok"]
    BY <1>2, <1>6, <2>1, <2>2, CallOfOthers
  <2>4. c \in Range(pushed)
    BY <1>6, <2>1 DEF Inv, CallInv
  <2>5. Promise!Succeed(c)
    BY <1>6, <2>1, <2>2, <2>3, <2>4 DEF Promise!Succeed
  <2> QED
    BY <1>6, <2>5 DEF Promise!Next
<1>7. ASSUME c = Worker, Popped
      PROVE  [Promise!Next]_(Promise!vars)
  <2>1. /\ popped # <<>> /\ taken' = taken \o popped /\ popped' = <<>>
        /\ pc' = [pc EXCEPT ![c] = "ok"]
        /\ UNCHANGED <<list, saved, pushed>>
    BY <1>2, <1>7 DEF Popped, Return, TypeOK, redis
  <2>2. known' = known
    BY <1>1, <1>2, <1>7, <2>1, CallOfOthers
  <2>3. Promise!Deliver
    BY <2>1, <2>2 DEF Promise!Deliver
  <2> QED
    BY <2>3 DEF Promise!Next
<1>8. CASE Dial(c)
  BY <1>3, <1>8
<1>9. CASE DialFails(c)
  BY <1>4, <1>9 DEF DialFails, sockets
<1>10. CASE WriteCommand(c)
  BY <1>5, <1>10 DEF WriteCommand
<1>11. CASE WriteFails(c)
  BY <1>4, <1>11 DEF WriteFails, Return, ResetResult
<1>12. CASE ReadFails(c)
  <2>1. pc[c] = "waiting" /\ UNCHANGED <<popped, redis, history>>
    BY <1>12 DEF ReadFails
  <2>2. pc' = [pc EXCEPT ![c] = "spin"] \/ pc' = [pc EXCEPT ![c] = "error"]
    BY <1>12 DEF ReadFails, Return, ResetResult
  <2> QED
    BY <1>4, <1>5, <2>1, <2>2
<1>13. CASE c \in Tasks /\ Pushed(c)
  BY <1>6, <1>13
<1>14. CASE c = Worker /\ Popped
  BY <1>7, <1>14
<1>15. CASE c = Worker /\ NextCall
  BY <1>5, <1>15 DEF NextCall, sockets
<1> QED
  BY <1>8, <1>9, <1>10, <1>11, <1>12, <1>13, <1>14, <1>15 DEF Step

\* A command takes effect while its caller waits.
LEMMA CommandKeepsPromise ==
  ASSUME Inv, NEW c \in Callers, Command(c)
  PROVE  [Promise!Next]_(Promise!vars)
<1> DEFINE known == [t \in Tasks |-> Call(t)]
<1>1. pc' = pc
  BY DEF Command, Serve, ServePush, ServePop
<1>2. known' = known
  BY <1>1 DEF Call
<1>3. CASE Serve(c)
  BY <1>2, <1>3 DEF Serve, Promise!vars, redis, history
<1>4. CASE c \in Tasks /\ ServePush(c)
  <2>1. /\ wire[c] = "served" /\ ~reply[c]
        /\ list' = Append(list, c) /\ pushed' = Append(pushed, c)
        /\ UNCHANGED <<popped, saved, taken>>
    BY <1>4 DEF ServePush, PushEnd
  <2>2. Call(c) = "begun"
    BY <2>1 DEF Call, Inv, CallInv
  <2>3. c \notin Range(pushed)
    BY <1>4, <2>1 DEF Inv, PushedInv
  <2>4. Range(pushed') = Range(pushed) \cup {c}
    BY <1>4, <2>1, RangeAppend DEF Inv, TypeOK
  <2>5. Promise!Enter(c)
    BY <1>2, <1>4, <2>1, <2>2, <2>3, <2>4 DEF Promise!Enter
  <2> QED
    BY <1>4, <2>5 DEF Promise!Next
<1>5. CASE c = Worker /\ ServePop
  <2>1. /\ popped = <<>> /\ list # <<>> /\ popped' = <<Head(list)>> /\ list' = Tail(list)
        /\ UNCHANGED <<saved, taken, pushed>>
    BY <1>5 DEF ServePop, Inv, TypeOK, history
  <2>2. Promise!Remove
    BY <1>2, <2>1 DEF Promise!Remove
  <2> QED
    BY <2>2 DEF Promise!Next
<1> QED
  BY <1>3, <1>4, <1>5 DEF Command

\* A failure loses no more than the task on its way, or what Redis had not saved.
LEMMA FaultKeepsPromise ==
  ASSUME Inv, (\E c \in Callers : Cut(c)) \/ Stop \/ Restart \/ Snapshot
  PROVE  [Promise!Next]_(Promise!vars)
<1> DEFINE known == [t \in Tasks |-> Call(t)]
<1>1. pc' = pc
  BY DEF Cut, Stop, Restart, Snapshot
<1>2. known' = known
  BY <1>1 DEF Call
<1>3. CASE \E c \in Callers : Cut(c)
  <2>1. PICK c \in Callers : Cut(c)
    BY <1>3
  <2>2. popped' \in {popped, <<>>} /\ UNCHANGED <<list, saved, taken, pushed>>
    BY <2>1 DEF Cut, Hangup, redis
  <2>3. CASE popped' = popped
    BY <1>2, <2>2, <2>3 DEF Promise!vars
  <2>4. CASE popped' = <<>>
    <3>1. Promise!Lose
      BY <1>2, <2>2, <2>4 DEF Promise!Lose
    <3> QED
      BY <3>1 DEF Promise!Next
  <2> QED
    BY <2>2, <2>3, <2>4
<1>4. CASE Stop
  <2>1. /\ popped' \in {popped, <<>>} /\ list' \in {list, saved} /\ saved' = list'
        /\ UNCHANGED <<taken, pushed>>
    BY <1>4 DEF Stop, Hangup
  <2>2. Promise!Fallback
    BY <1>2, <2>1 DEF Promise!Fallback
  <2> QED
    BY <2>2 DEF Promise!Next
<1>5. CASE Restart
  BY <1>2, <1>5 DEF Restart, Promise!vars, sockets, history
<1>6. CASE Snapshot
  <2>1. saved' = list /\ UNCHANGED <<popped, list, taken, pushed>>
    BY <1>6 DEF Snapshot, sockets, history
  <2>2. Promise!Save
    BY <1>2, <2>1 DEF Promise!Save
  <2> QED
    BY <2>2 DEF Promise!Next
<1> QED
  BY <1>3, <1>4, <1>5, <1>6

\* The client implements the list of tasks: every step is one of its steps, or
\* none.
THEOREM ClientImplementsTaskList == Spec => KeepsPromise
<1>1. Init => Promise!Init
  <2> SUFFICES ASSUME Init PROVE Promise!Init
    OBVIOUS
  <2>1. \A t \in Tasks : Call(t) = "idle"
    BY DEF Init, Call, Callers
  <2>2. Range(<<>>) = {}
    BY DEF Range
  <2> QED
    BY <2>1, <2>2 DEF Init, Promise!Init
<1>2. Inv /\ [Next]_vars => [Promise!Next]_(Promise!vars)
  <2> SUFFICES ASSUME Inv, [Next]_vars PROVE [Promise!Next]_(Promise!vars)
    OBVIOUS
  <2>1. CASE UNCHANGED vars
    <3>1. UNCHANGED <<pc, popped, list, saved, taken, pushed>>
      BY <2>1 DEF vars, sockets, redis, history
    <3>2. [t \in Tasks |-> Call(t)]' = [t \in Tasks |-> Call(t)]
      BY <3>1 DEF Call
    <3> QED
      BY <3>1, <3>2 DEF Promise!vars
  <2> QED
    BY <2>1, StepKeepsPromise, CommandKeepsPromise, FaultKeepsPromise DEF Next
<1> QED
  BY <1>1, <1>2, Invariance, PTL DEF Spec, KeepsPromise, Promise!Spec
=============================================================================
