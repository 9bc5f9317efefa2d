---------------------------- MODULE EventHubProofs ----------------------------
(* Proofs about EventHub, for any number of goroutines, streams and events    *)
(* and any capacity: no send to a closed channel, no event out of order, none *)
(* lost unnoticed.                                                            *)
EXTENDS EventHub, SequenceTheorems, TLAPS

-----------------------------------------------------------------------------
(* Sequences.                                                                 *)

\* What Append adds.
LEMMA AppendFacts ==
  ASSUME NEW S, NEW s \in Seq(S), NEW e \in S
  PROVE  /\ Append(s, e) \in Seq(S) /\ Append(s, e) # <<>>
         /\ Len(s) \in Nat /\ DOMAIN s = 1 .. Len(s)
         /\ Len(Append(s, e)) = Len(s) + 1 /\ DOMAIN Append(s, e) = 1 .. Len(s) + 1
         /\ \A i \in 1 .. Len(s) : Append(s, e)[i] = s[i]
         /\ Append(s, e)[Len(s) + 1] = e
         /\ Range(Append(s, e)) = Range(s) \cup {e}
<1>1. /\ Append(s, e) \in Seq(S) /\ Append(s, e) # <<>> /\ Len(Append(s, e)) = Len(s) + 1
      /\ \A i \in 1 .. Len(s) : Append(s, e)[i] = s[i]
      /\ Append(s, e)[Len(s) + 1] = e
  BY AppendProperties
<1>2. Len(s) \in Nat /\ DOMAIN s = 1 .. Len(s)
  BY LenProperties
<1>3. DOMAIN Append(s, e) = 1 .. Len(s) + 1
  BY <1>1, LenProperties
<1>4. Range(Append(s, e)) = Range(s) \cup {e}
  BY <1>1, <1>2, <1>3 DEF Range
<1> QED
  BY <1>1, <1>2, <1>3, <1>4

\* A sequence that is not empty is its head and its tail.
LEMMA HeadAndTail ==
  ASSUME NEW S, NEW s \in Seq(S), s # <<>>
  PROVE  /\ Head(s) \in S /\ Tail(s) \in Seq(S) /\ Len(Tail(s)) = Len(s) - 1 /\ Len(s) \in Nat
         /\ <<Head(s)>> \o Tail(s) = s
<1>1. /\ Head(s) \in S /\ Tail(s) \in Seq(S) /\ Len(Tail(s)) = Len(s) - 1
      /\ \A i \in 1 .. Len(Tail(s)) : Tail(s)[i] = s[i + 1]
      /\ Len(s) \in Nat \ {0}
  BY HeadTailProperties, EmptySeq
<1>2. /\ <<Head(s)>> \in Seq(S) /\ Len(<<Head(s)>>) = 1
      /\ <<Head(s)>>[1] = Head(s) /\ Head(s) = s[1]
  BY <1>1
<1> DEFINE c == <<Head(s)>> \o Tail(s)
<1>3. /\ c \in Seq(S) /\ Len(c) = 1 + Len(Tail(s))
      /\ \A i \in 1 .. 1 + Len(Tail(s)) :
           c[i] = IF i <= 1 THEN <<Head(s)>>[i] ELSE Tail(s)[i - 1]
  BY <1>1, <1>2, ConcatProperties
<1> HIDE DEF c
<1>4. Len(c) = Len(s)
  BY <1>1, <1>3
<1>5. ASSUME NEW i \in 1 .. Len(c) PROVE c[i] = s[i]
  <2>1. CASE i = 1
    BY <1>1, <1>2, <1>3, <2>1
  <2>2. CASE i # 1
    BY <1>1, <1>3, <2>2
  <2> QED
    BY <2>1, <2>2
<1>6. c = s
  BY <1>3, <1>4, <1>5, SeqEqual
<1> QED
  BY <1>1, <1>6 DEF c

\* Moving the head of the third part to an empty second one changes nothing.
LEMMA MoveHead ==
  ASSUME NEW S, NEW a \in Seq(S), NEW s \in Seq(S), s # <<>>
  PROVE  a \o <<Head(s)>> \o Tail(s) = a \o <<>> \o s
<1>1. Head(s) \in S /\ Tail(s) \in Seq(S) /\ <<Head(s)>> \o Tail(s) = s
  BY HeadAndTail
<1>2. <<Head(s)>> \in Seq(S)
  BY <1>1
<1>3. (a \o <<Head(s)>>) \o Tail(s) = a \o (<<Head(s)>> \o Tail(s))
  BY <1>1, <1>2, ConcatAssociative
<1>4. a \o <<>> = a
  BY ConcatEmptySeq
<1> QED
  BY <1>1, <1>3, <1>4

\* Moving the second part to the first changes nothing.
LEMMA MoveWritten ==
  ASSUME NEW S, NEW a \in Seq(S), NEW w \in Seq(S), NEW s \in Seq(S)
  PROVE  (a \o w) \o <<>> \o s = a \o w \o s
<1> DEFINE aw == a \o w
<1>1. aw \in Seq(S)
  BY ConcatProperties
<1> HIDE DEF aw
<1>2. aw \o <<>> = aw
  BY <1>1, ConcatEmptySeq
<1> QED
  BY <1>2 DEF aw

\* Appending to the last part appends to the whole.
LEMMA AppendToLast ==
  ASSUME NEW S, NEW a \in Seq(S), NEW b \in Seq(S), NEW e \in S
  PROVE  a \o Append(b, e) = Append(a \o b, e)
<1> DEFINE one == <<e>>
<1>1. one \in Seq(S)
  OBVIOUS
<1>2. Append(b, e) = b \o one
  BY AppendIsConcat
<1>3. a \o b \in Seq(S)
  BY ConcatProperties
<1>4. Append(a \o b, e) = (a \o b) \o one
  BY <1>3, AppendIsConcat
<1> HIDE DEF one
<1>5. (a \o b) \o one = a \o (b \o one)
  BY <1>1, ConcatAssociative
<1> QED
  BY <1>2, <1>4, <1>5

\* Of a sequence of one element and another sequence, the other is the tail.
LEMMA TailOfOne ==
  ASSUME NEW S, NEW a \in Seq(S), NEW b \in Seq(S), Len(a) = 1
  PROVE  a \o b # <<>> /\ Tail(a \o b) = b
<1> DEFINE c == a \o b
<1>0. /\ c \in Seq(S) /\ Len(c) = Len(a) + Len(b) /\ Len(b) \in Nat
      /\ \A i \in 1 .. Len(a) + Len(b) : c[i] = IF i <= Len(a) THEN a[i] ELSE b[i - Len(a)]
  BY ConcatProperties, LenProperties
<1> HIDE DEF c
<1>1. /\ c \in Seq(S) /\ Len(c) = 1 + Len(b) /\ Len(b) \in Nat
      /\ \A i \in 1 .. 1 + Len(b) : c[i] = IF i <= 1 THEN a[i] ELSE b[i - 1]
  BY <1>0
<1>2. c # <<>>
  BY <1>1, EmptySeq
<1>3. /\ Tail(c) \in Seq(S) /\ Len(Tail(c)) = Len(c) - 1
      /\ \A i \in 1 .. Len(Tail(c)) : Tail(c)[i] = c[i + 1]
  BY <1>1, <1>2, HeadTailProperties
<1>4. Len(Tail(c)) = Len(b) /\ \A i \in 1 .. Len(b) : Tail(c)[i] = b[i]
  BY <1>1, <1>3
<1>5. Tail(c) = b
  BY <1>3, <1>4, SeqEqual
<1> QED
  BY <1>2, <1>5 DEF c

\* An event that is later than the others of its goroutine keeps the order.
LEMMA OrderedAppend ==
  ASSUME NEW f \in Seq(Event), NEW e \in Event, Ordered(f),
         \A d \in Range(f) : d.by = e.by => d.n < e.n
  PROVE  Ordered(Append(f, e))
<1>1. /\ Len(f) \in Nat /\ DOMAIN f = 1 .. Len(f)
      /\ DOMAIN Append(f, e) = 1 .. Len(f) + 1
      /\ \A i \in 1 .. Len(f) : Append(f, e)[i] = f[i]
      /\ Append(f, e)[Len(f) + 1] = e
  BY AppendFacts
<1> SUFFICES ASSUME NEW i \in DOMAIN Append(f, e), NEW j \in DOMAIN Append(f, e),
                    i < j, Append(f, e)[i].by = Append(f, e)[j].by
             PROVE  Append(f, e)[i].n < Append(f, e)[j].n
  BY DEF Ordered
<1>2. i \in DOMAIN f /\ Append(f, e)[i] = f[i]
  BY <1>1
<1>3. CASE j = Len(f) + 1
  BY <1>1, <1>2, <1>3 DEF Range
<1>4. CASE j # Len(f) + 1
  BY <1>1, <1>2, <1>4 DEF Ordered
<1> QED
  BY <1>3, <1>4

-----------------------------------------------------------------------------
(* Events and feeds.                                                          *)

\* An event has a goroutine and a number.
LEMMA EventFacts == \A e \in Event : e.by \in Broadcasters /\ e.n \in Nat
<1> SUFFICES ASSUME NEW e \in Event PROVE e.by \in Broadcasters /\ e.n \in Nat
  OBVIOUS
<1>1. PICK b \in Broadcasters : e \in [by : {b}, n : 1 .. MaxEvents[b]]
  BY DEF Event
<1> QED
  BY <1>1, ConstantsOK

\* What a goroutine broadcasts is an event.
LEMMA CurrentIsEvent ==
  ASSUME Inv, NEW b \in Broadcasters, bpc[b] # "idle"
  PROVE  /\ Current(b) \in Event
         /\ Current(b).by = b /\ Current(b).n = made[b] + 1 /\ made[b] \in Nat
<1>1. made[b] \in Nat /\ made[b] < MaxEvents[b] /\ MaxEvents[b] \in Nat
  BY ConstantsOK DEF Inv, TypeOK, LockInv
<1>2. Current(b) \in [by : {b}, n : 1 .. MaxEvents[b]]
  BY <1>1 DEF Current
<1> QED
  BY <1>1, <1>2 DEF Event, Current

\* What a stream received or will receive are events.
LEMMA FeedType ==
  ASSUME TypeOK, NEW s \in Streams
  PROVE  /\ Feed(s) \in Seq(Event) /\ Range(Feed(s)) \subseteq Event
         /\ log[s] \in Seq(Event) /\ writing[s] \in Seq(Event) /\ buffer[s] \in Seq(Event)
         /\ log[s] \o writing[s] \in Seq(Event)
         /\ Len(buffer[s]) \in Nat
<1>1. log[s] \in Seq(Event) /\ writing[s] \in Seq(Event) /\ buffer[s] \in Seq(Event)
  BY DEF TypeOK
<1> DEFINE lw == log[s] \o writing[s]
<1>2. lw \in Seq(Event)
  BY <1>1, ConcatProperties
<1> HIDE DEF lw
<1>3. lw \o buffer[s] \in Seq(Event)
  BY <1>1, <1>2, ConcatProperties
<1>4. Range(lw \o buffer[s]) \subseteq Event
  BY <1>3, RangeOfSeq
<1>5. Len(buffer[s]) \in Nat
  BY <1>1, LenProperties
<1> QED
  BY <1>1, <1>2, <1>3, <1>4, <1>5 DEF lw, Feed

-----------------------------------------------------------------------------
(* The initial state satisfies the inductive invariant.                       *)

LEMMA InitInv == Init => Inv
<1> SUFFICES ASSUME Init PROVE Inv
  OBVIOUS
<1>1. <<>> \in Seq(Event) /\ Len(<<>>) = 0
  OBVIOUS
<1>2. TypeOK
  <2>1. \A s \in Streams : Len(buffer[s]) <= Capacity
    BY <1>1, ConstantsOK DEF Init
  <2>2. \A s \in Streams : Len(writing[s]) = IF spc[s] = "write" THEN 1 ELSE 0
    BY <1>1 DEF Init
  <2> QED
    BY <1>1, <2>1, <2>2 DEF Init, TypeOK
<1>3. LockInv
  BY DEF Init, LockInv
<1>4. SendsToOpenChannels
  BY DEF Init, SendsToOpenChannels
<1>5. \A s \in Streams : Feed(s) = <<>> /\ Range(Feed(s)) = {} /\ DOMAIN Feed(s) = {}
  BY DEF Init, Feed, Range
<1>6. CurrentInv
  BY <1>5 DEF Init, CurrentInv
<1>7. InOrder
  BY <1>5 DEF InOrder, Ordered
<1>8. Accounted
  BY DEF Init, Accounted
<1>9. MissIsFollowed
  BY DEF Init, MissIsFollowed
<1> QED
  BY <1>2, <1>3, <1>4, <1>6, <1>7, <1>8, <1>9 DEF Inv

-----------------------------------------------------------------------------
(* Steps that change no feed.                                                 *)

\* Who neither broadcasts nor registers leaves what streams received in order
\* and accounted for.
LEMMA QuietInv ==
  ASSUME Inv, UNCHANGED <<made, pending, missed, since>>,
         gone \subseteq gone', clients' \subseteq clients,
         \A b \in Broadcasters : bpc'[b] = "sending" <=> bpc[b] = "sending",
         \A s \in Streams \ gone' : Feed(s)' = Feed(s)
  PROVE  CurrentInv' /\ InOrder' /\ Accounted'
<1>1. \A b \in Broadcasters : Current(b)' = Current(b)
  BY DEF Current
<1>2. \A s \in Streams \ gone : \A e \in Range(Feed(s)) : e.by \in Broadcasters
  BY FeedType, EventFacts DEF Inv
<1>3. CurrentInv'
  <2>1. ASSUME NEW s \in Streams \ gone', NEW e \in Range(Feed(s)')
        PROVE  \/ e.n <= made'[e.by]
               \/ e = Current(e.by)' /\ bpc'[e.by] = "sending" /\ s \notin pending'[e.by]
    <3>1. s \in Streams \ gone /\ e \in Range(Feed(s)) /\ e.by \in Broadcasters
      BY <1>2, <2>1
    <3> QED
      BY <1>1, <3>1 DEF Inv, CurrentInv
  <2>2. ASSUME NEW s \in clients' \ gone', NEW b \in Broadcasters,
               bpc'[b] = "sending", s \notin pending'[b]
        PROVE  Current(b)' \in Range(Feed(s)') \cup missed'[s]
    <3>1. s \in clients \ gone /\ s \in Streams /\ Feed(s)' = Feed(s)
      BY DEF Inv, TypeOK
    <3> QED
      BY <1>1, <2>2, <3>1 DEF Inv, CurrentInv
  <2> QED
    BY <2>1, <2>2 DEF CurrentInv
<1>4. InOrder'
  BY DEF Inv, InOrder
<1>5. Accounted'
  BY DEF Inv, TypeOK, Accounted
<1> QED
  BY <1>3, <1>4, <1>5

\* A step of one goroutine's lock or of one stream's life.
LEMMA FeedsKept ==
  ASSUME UNCHANGED <<log, writing, buffer>>
  PROVE  \A s \in Streams : Feed(s)' = Feed(s)
BY DEF Feed

\* RLock.
LEMMA RLockInv ==
  ASSUME Inv, NEW b \in Broadcasters, RLock(b)
  PROVE  Inv'
<1>1. /\ bpc[b] = "idle" /\ made[b] < MaxEvents[b]
      /\ UNCHANGED <<clients, writer, made, pending, spc, buffer, writing, gone,
                     log, missed, behind, since>>
      /\ \/ readers' = readers \cup {b} /\ bpc' = [bpc EXCEPT ![b] = "locked"]
         \/ readers' = readers /\ bpc' = [bpc EXCEPT ![b] = "rlock"]
  BY DEF RLock, streams, history
<1>2. TypeOK'
  BY <1>1 DEF Inv, TypeOK
<1>3. LockInv'
  BY <1>1 DEF Inv, TypeOK, LockInv
<1>4. SendsToOpenChannels' /\ MissIsFollowed'
  BY <1>1 DEF Inv, SendsToOpenChannels, MissIsFollowed
<1>5. \A c \in Broadcasters : bpc'[c] = "sending" <=> bpc[c] = "sending"
  BY <1>1 DEF Inv, TypeOK
<1> QED
  BY <1>1, <1>2, <1>3, <1>4, <1>5, QuietInv, FeedsKept DEF Inv

\* A stream connects, announces its Lock, loses its browser or its loop ends.
LEMMA StreamInv ==
  ASSUME Inv, NEW s \in Streams, Connect(s) \/ Announce(s) \/ Disconnect(s) \/ Leave(s)
  PROVE  Inv'
<1>1. /\ UNCHANGED <<clients, readers, bpc, made, pending, buffer, writing,
                     log, missed, behind, since>>
      /\ gone \subseteq gone' /\ gone' \subseteq Streams
      /\ writer' \in Streams \cup {None}
  BY DEF Connect, Announce, Disconnect, Leave, mutex, senders, streams, history, Inv, TypeOK
<1>2. \/ spc' = spc
      \/ spc[s] = "off" /\ spc' = [spc EXCEPT ![s] = "subscribe"]
      \/ spc[s] = "select" /\ spc' = [spc EXCEPT ![s] = "unsubscribe"]
  BY DEF Connect, Announce, Disconnect, Leave, streams
<1>3. TypeOK'
  BY <1>1, <1>2 DEF Inv, TypeOK
<1>4. LockInv'
  BY <1>1, <1>2 DEF Inv, TypeOK, LockInv
<1>5. SendsToOpenChannels' /\ MissIsFollowed'
  BY <1>1 DEF Inv, SendsToOpenChannels, MissIsFollowed
<1> QED
  BY <1>1, <1>3, <1>4, <1>5, QuietInv, FeedsKept DEF Inv

\* The loop takes an event from the channel to write it.
LEMMA ReceiveInv ==
  ASSUME Inv, NEW s \in Streams, Receive(s)
  PROVE  Inv'
<1>1. /\ UNCHANGED <<clients, writer, readers, bpc, made, pending, gone,
                     log, missed, behind, since>>
      /\ spc[s] = "select" /\ spc' = [spc EXCEPT ![s] = "write"]
      /\ buffer[s] # <<>>
      /\ writing' = [writing EXCEPT ![s] = <<Head(buffer[s])>>]
      /\ buffer' = [buffer EXCEPT ![s] = Tail(buffer[s])]
  BY DEF Receive, Ready, NextEvent, mutex, senders, history
<1>2. /\ buffer[s] \in Seq(Event) /\ log[s] \in Seq(Event)
      /\ Head(buffer[s]) \in Event /\ Tail(buffer[s]) \in Seq(Event)
      /\ Len(Tail(buffer[s])) = Len(buffer[s]) - 1 /\ Len(buffer[s]) \in Nat
  BY <1>1, FeedType, HeadAndTail DEF Inv
<1>3. /\ <<Head(buffer[s])>> \in Seq(Event) /\ Len(<<Head(buffer[s])>>) = 1
      /\ <<Head(buffer[s])>> # <<>>
  BY <1>2
<1>4. TypeOK'
  <2>1. buffer' \in [Streams -> Seq(Event)] /\ \A u \in Streams : Len(buffer'[u]) <= Capacity
    BY <1>1, <1>2, ConstantsOK DEF Inv, TypeOK
  <2>2. /\ writing' \in [Streams -> Seq(Event)]
        /\ \A u \in Streams : Len(writing'[u]) = IF spc'[u] = "write" THEN 1 ELSE 0
    BY <1>1, <1>3 DEF Inv, TypeOK
  <2> QED
    BY <1>1, <2>1, <2>2 DEF Inv, TypeOK
<1>5. LockInv'
  BY <1>1 DEF Inv, TypeOK, LockInv
<1>6. SendsToOpenChannels'
  BY <1>1 DEF Inv, SendsToOpenChannels
<1>7. \A u \in Streams : Feed(u)' = Feed(u)
  <2> SUFFICES ASSUME NEW u \in Streams PROVE Feed(u)' = Feed(u)
    OBVIOUS
  <2>1. CASE u = s
    <3>1. writing[s] = <<>>
      <4>1. Len(writing[s]) = 0 /\ writing[s] \in Seq(Event)
        BY <1>1 DEF Inv, TypeOK
      <4> QED
        BY <4>1, EmptySeq
    <3>2. log[s] \o <<Head(buffer[s])>> \o Tail(buffer[s]) = log[s] \o <<>> \o buffer[s]
      BY <1>1, <1>2, MoveHead
    <3>3. writing'[s] = <<Head(buffer[s])>> /\ buffer'[s] = Tail(buffer[s])
      BY <1>1 DEF Inv, TypeOK
    <3> QED
      BY <1>1, <2>1, <3>1, <3>2, <3>3 DEF Feed
  <2>2. CASE u # s
    BY <1>1, <2>2 DEF Feed, Inv, TypeOK
  <2> QED
    BY <2>1, <2>2
<1>8. MissIsFollowed'
  <2> SUFFICES ASSUME NEW u \in behind' \ gone' PROVE writing'[u] \o buffer'[u] # <<>>
    BY DEF MissIsFollowed
  <2>1. CASE u = s
    <3>1. writing'[s] \in Seq(Event) /\ buffer'[s] \in Seq(Event) /\ writing'[s] # <<>>
      BY <1>1, <1>2, <1>3 DEF Inv, TypeOK
    <3> QED
      BY <2>1, <3>1, ConcatEqualIffEmpty
  <2>2. CASE u # s
    BY <1>1, <2>2 DEF Inv, TypeOK, MissIsFollowed
  <2> QED
    BY <2>1, <2>2
<1> QED
  BY <1>1, <1>4, <1>5, <1>6, <1>7, <1>8, QuietInv DEF Inv

\* The event is written, or the browser has gone.
LEMMA WriteInv ==
  ASSUME Inv, NEW s \in Streams, Write(s)
  PROVE  Inv'
<1>1. /\ UNCHANGED <<clients, writer, readers, bpc, made, pending, buffer, gone, missed, since>>
      /\ spc[s] = "write" /\ spc' = [spc EXCEPT ![s] = "select"]
      /\ writing' = [writing EXCEPT ![s] = <<>>]
      /\ \/ s \in gone /\ UNCHANGED <<log, behind>>
         \/ log' = [log EXCEPT ![s] = log[s] \o writing[s]] /\ behind' = behind \ {s}
  BY DEF Write, mutex, senders
<1>2. /\ buffer[s] \in Seq(Event) /\ log[s] \in Seq(Event) /\ writing[s] \in Seq(Event)
      /\ log[s] \o writing[s] \in Seq(Event)
      /\ <<>> \in Seq(Event) /\ Len(<<>>) = 0
  BY FeedType DEF Inv
<1>3. TypeOK'
  <2>1. log' \in [Streams -> Seq(Event)]
    BY <1>1, <1>2 DEF Inv, TypeOK
  <2>2. /\ writing' \in [Streams -> Seq(Event)]
        /\ \A u \in Streams : Len(writing'[u]) = IF spc'[u] = "write" THEN 1 ELSE 0
    <3>1. writing' \in [Streams -> Seq(Event)]
      BY <1>1, <1>2 DEF Inv, TypeOK
    <3>2. /\ writing'[s] = <<>> /\ spc'[s] = "select"
          /\ \A u \in Streams \ {s} : writing'[u] = writing[u] /\ spc'[u] = spc[u]
      BY <1>1 DEF Inv, TypeOK
    <3>3. \A u \in Streams \ {s} : Len(writing[u]) = IF spc[u] = "write" THEN 1 ELSE 0
      BY DEF Inv, TypeOK
    <3> QED
      BY <1>2, <3>1, <3>2, <3>3
  <2> QED
    BY <1>1, <2>1, <2>2 DEF Inv, TypeOK
<1>4. LockInv'
  BY <1>1 DEF Inv, TypeOK, LockInv
<1>5. SendsToOpenChannels'
  BY <1>1 DEF Inv, SendsToOpenChannels
<1>6. \A u \in Streams \ gone' : Feed(u)' = Feed(u)
  <2> SUFFICES ASSUME NEW u \in Streams \ gone' PROVE Feed(u)' = Feed(u)
    OBVIOUS
  <2>1. CASE u = s
    <3>1. /\ log'[s] = log[s] \o writing[s] /\ writing'[s] = <<>> /\ buffer'[s] = buffer[s]
      BY <1>1, <2>1 DEF Inv, TypeOK
    <3>2. (log[s] \o writing[s]) \o <<>> \o buffer[s] = log[s] \o writing[s] \o buffer[s]
      BY <1>2, MoveWritten
    <3> QED
      BY <2>1, <3>1, <3>2 DEF Feed
  <2>2. CASE u # s
    BY <1>1, <2>2 DEF Feed, Inv, TypeOK
  <2> QED
    BY <2>1, <2>2
<1>7. MissIsFollowed'
  <2> SUFFICES ASSUME NEW u \in behind' \ gone' PROVE writing'[u] \o buffer'[u] # <<>>
    BY DEF MissIsFollowed
  <2>1. u # s /\ u \in behind \ gone
    BY <1>1
  <2> QED
    BY <1>1, <2>1 DEF Inv, TypeOK, MissIsFollowed
<1> QED
  BY <1>1, <1>3, <1>4, <1>5, <1>6, <1>7, QuietInv DEF Inv

-----------------------------------------------------------------------------
(* The two Locks of a stream.                                                 *)

\* Nobody is in the loop of Broadcast while a stream holds the write lock; the
\* RLocks that waited are granted at its end.
LEMMA UnlockFacts ==
  ASSUME Inv, readers = {}, Unlock
  PROVE  /\ writer' \in Streams \cup {None} /\ readers' \subseteq Broadcasters
         /\ bpc' \in [Broadcasters -> {"idle", "rlock", "locked", "sending"}]
         /\ \A b \in Broadcasters :
              /\ bpc[b] \notin {"locked", "sending"} /\ pending[b] = {}
              /\ b \in readers' <=> bpc'[b] \in {"locked", "sending"}
              /\ bpc'[b] = "idle" <=> bpc[b] = "idle"
              /\ bpc'[b] # "sending"
BY DEF Unlock, Inv, TypeOK, LockInv

\* A new stream has missed nothing yet.
LEMMA SubscribeInv ==
  ASSUME Inv, NEW s \in Streams, Subscribe(s)
  PROVE  Inv'
<1>1. /\ UNCHANGED <<made, pending, buffer, writing, gone, log, missed, behind>>
      /\ readers = {} /\ Unlock
      /\ spc[s] = "subscribe" /\ spc' = [spc EXCEPT ![s] = "select"]
      /\ clients' = clients \cup {s} /\ since' = [since EXCEPT ![s] = made]
  BY DEF Subscribe, HasLock
<1>2. /\ writer' \in Streams \cup {None} /\ readers' \subseteq Broadcasters
      /\ bpc' \in [Broadcasters -> {"idle", "rlock", "locked", "sending"}]
      /\ \A b \in Broadcasters :
           /\ bpc[b] \notin {"locked", "sending"} /\ pending[b] = {}
           /\ b \in readers' <=> bpc'[b] \in {"locked", "sending"}
           /\ bpc'[b] = "idle" <=> bpc[b] = "idle"
           /\ bpc'[b] # "sending"
  BY <1>1, UnlockFacts
<1>3. TypeOK'
  BY <1>1, <1>2 DEF Inv, TypeOK
<1>4. LockInv'
  BY <1>1, <1>2 DEF Inv, TypeOK, LockInv
<1>5. SendsToOpenChannels' /\ MissIsFollowed'
  BY <1>1 DEF Inv, SendsToOpenChannels, MissIsFollowed
<1>6. \A u \in Streams : Feed(u)' = Feed(u)
  BY <1>1, FeedsKept
<1>7. CurrentInv'
  <2>1. ASSUME NEW u \in Streams \ gone', NEW e \in Range(Feed(u)')
        PROVE  e.n <= made'[e.by]
    <3>1. e \in Range(Feed(u)) /\ e.by \in Broadcasters /\ u \in Streams \ gone
      BY <1>1, <1>6, <2>1, FeedType, EventFacts DEF Inv
    <3> QED
      BY <1>1, <1>2, <3>1 DEF Inv, CurrentInv
  <2> QED
    BY <1>2, <2>1 DEF CurrentInv
<1>8. InOrder'
  BY <1>1, <1>6 DEF Inv, InOrder
<1>9. Accounted'
  <2> SUFFICES ASSUME NEW u \in clients' \ gone', NEW b \in Broadcasters,
                      NEW n \in since'[u][b] + 1 .. made'[b]
               PROVE  [by |-> b, n |-> n] \in Range(Feed(u)') \cup missed'[u]
    BY DEF Accounted
  <2>1. CASE u = s
    <3>1. since'[u][b] = made[b] /\ made[b] \in Nat /\ made'[b] = made[b]
      BY <1>1, <2>1 DEF Inv, TypeOK
    <3> QED
      BY <3>1
  <2>2. CASE u # s
    <3>1. u \in clients \ gone /\ u \in Streams /\ since'[u] = since[u]
      BY <1>1, <2>2 DEF Inv, TypeOK
    <3> QED
      BY <1>1, <1>6, <3>1 DEF Inv, Accounted
  <2> QED
    BY <2>1, <2>2
<1> QED
  BY <1>3, <1>4, <1>5, <1>7, <1>8, <1>9 DEF Inv

\* A channel is closed when nobody is about to send to it.
LEMMA UnsubscribeInv ==
  ASSUME Inv, NEW s \in Streams, Unsubscribe(s)
  PROVE  Inv'
<1>1. /\ UNCHANGED <<made, pending, buffer, writing, gone, log, missed, behind, since>>
      /\ readers = {} /\ Unlock
      /\ spc[s] = "unsubscribe" /\ spc' = [spc EXCEPT ![s] = "closed"]
      /\ clients' = clients \ {s}
  BY DEF Unsubscribe, HasLock, history
<1>2. /\ writer' \in Streams \cup {None} /\ readers' \subseteq Broadcasters
      /\ bpc' \in [Broadcasters -> {"idle", "rlock", "locked", "sending"}]
      /\ \A b \in Broadcasters :
           /\ bpc[b] \notin {"locked", "sending"} /\ pending[b] = {}
           /\ b \in readers' <=> bpc'[b] \in {"locked", "sending"}
           /\ bpc'[b] = "idle" <=> bpc[b] = "idle"
           /\ bpc'[b] # "sending"
  BY <1>1, UnlockFacts
<1>3. TypeOK'
  BY <1>1, <1>2 DEF Inv, TypeOK
<1>4. LockInv'
  BY <1>1, <1>2 DEF Inv, TypeOK, LockInv
<1>5. SendsToOpenChannels'
  BY <1>1, <1>2 DEF SendsToOpenChannels
<1>6. MissIsFollowed'
  BY <1>1 DEF Inv, MissIsFollowed
<1>7. \A b \in Broadcasters : bpc'[b] = "sending" <=> bpc[b] = "sending"
  BY <1>2
<1> QED
  BY <1>1, <1>3, <1>4, <1>5, <1>6, <1>7, QuietInv, FeedsKept DEF Inv

-----------------------------------------------------------------------------
(* Broadcast.                                                                 *)

\* What another goroutine broadcasts is not what this one does.
LEMMA OtherCurrent ==
  ASSUME NEW b, NEW c, made'[c] = made[c]
  PROVE  Current(c)' = Current(c) /\ (Current(c) = Current(b) => b = c)
BY DEF Current

\* The loop begins with all registered streams.
LEMMA BeginInv ==
  ASSUME Inv, NEW b \in Broadcasters, Begin(b)
  PROVE  Inv'
<1>1. /\ UNCHANGED <<clients, writer, readers, made, spc, buffer, writing, gone,
                     log, missed, behind, since>>
      /\ bpc[b] = "locked" /\ bpc' = [bpc EXCEPT ![b] = "sending"]
      /\ pending' = [pending EXCEPT ![b] = clients]
  BY DEF Begin, mutex, streams, history
<1>2. TypeOK'
  BY <1>1 DEF Inv, TypeOK
<1>3. LockInv'
  BY <1>1 DEF Inv, TypeOK, LockInv
<1>4. SendsToOpenChannels' /\ MissIsFollowed'
  BY <1>1 DEF Inv, TypeOK, SendsToOpenChannels, MissIsFollowed
<1>5. \A u \in Streams : Feed(u)' = Feed(u)
  BY <1>1, FeedsKept
<1>6. \A c \in Broadcasters : Current(c)' = Current(c)
  BY <1>1 DEF Current
<1>7. \A c \in Broadcasters \ {b} : bpc'[c] = bpc[c] /\ pending'[c] = pending[c]
  BY <1>1 DEF Inv, TypeOK
<1>8. bpc'[b] = "sending" /\ pending'[b] = clients
  BY <1>1 DEF Inv, TypeOK
<1>9. CurrentInv'
  <2>1. ASSUME NEW u \in Streams \ gone', NEW e \in Range(Feed(u)')
        PROVE  \/ e.n <= made'[e.by]
               \/ e = Current(e.by)' /\ bpc'[e.by] = "sending" /\ u \notin pending'[e.by]
    <3>1. e \in Range(Feed(u)) /\ e.by \in Broadcasters /\ u \in Streams \ gone
      BY <1>1, <1>5, <2>1, FeedType, EventFacts DEF Inv
    <3> QED
      BY <1>1, <1>6, <1>7, <3>1 DEF Inv, CurrentInv
  <2>2. ASSUME NEW u \in clients' \ gone', NEW c \in Broadcasters,
               bpc'[c] = "sending", u \notin pending'[c]
        PROVE  Current(c)' \in Range(Feed(u)') \cup missed'[u]
    <3>1. u \in clients \ gone /\ u \in Streams /\ c # b
      BY <1>1, <1>8, <2>2 DEF Inv, TypeOK
    <3> QED
      BY <1>1, <1>5, <1>6, <1>7, <2>2, <3>1 DEF Inv, CurrentInv
  <2> QED
    BY <2>1, <2>2 DEF CurrentInv
<1>10. InOrder'
  BY <1>1, <1>5 DEF Inv, InOrder
<1>11. Accounted'
  BY <1>1, <1>5 DEF Inv, TypeOK, Accounted
<1> QED
  BY <1>2, <1>3, <1>4, <1>9, <1>10, <1>11 DEF Inv

\* The event of the loop goes to the end of a channel that has room.
LEMMA SendInv ==
  ASSUME Inv, NEW b \in Broadcasters, NEW s \in Streams, Send(b, s)
  PROVE  Inv'
<1>1. /\ UNCHANGED <<clients, writer, readers, bpc, made, spc, writing, gone,
                     log, missed, behind, since>>
      /\ bpc[b] = "sending" /\ s \in pending[b] /\ Len(buffer[s]) # Capacity
      /\ buffer' = [buffer EXCEPT ![s] = Append(buffer[s], Current(b))]
      /\ pending' = [pending EXCEPT ![b] = pending[b] \ {s}]
  BY DEF Send, Full, mutex, history
<1>2. /\ Current(b) \in Event /\ Current(b).by = b /\ Current(b).n = made[b] + 1
      /\ made[b] \in Nat
  BY <1>1, CurrentIsEvent
<1>3. /\ buffer[s] \in Seq(Event) /\ Len(buffer[s]) \in Nat
      /\ log[s] \o writing[s] \in Seq(Event) /\ writing[s] \in Seq(Event)
      /\ Feed(s) \in Seq(Event) /\ Range(Feed(s)) \subseteq Event
  BY FeedType DEF Inv
<1>4. /\ Append(buffer[s], Current(b)) \in Seq(Event)
      /\ Append(buffer[s], Current(b)) # <<>>
      /\ Len(Append(buffer[s], Current(b))) = Len(buffer[s]) + 1
  BY <1>2, <1>3, AppendFacts
<1>5. TypeOK'
  <2>1. Len(buffer[s]) + 1 <= Capacity
    BY <1>1, <1>3, ConstantsOK DEF Inv, TypeOK
  <2>2. buffer' \in [Streams -> Seq(Event)] /\ \A u \in Streams : Len(buffer'[u]) <= Capacity
    BY <1>1, <1>4, <2>1 DEF Inv, TypeOK
  <2> QED
    BY <1>1, <2>2 DEF Inv, TypeOK
<1>6. LockInv'
  BY <1>1 DEF Inv, TypeOK, LockInv
<1>7. SendsToOpenChannels'
  BY <1>1 DEF Inv, TypeOK, SendsToOpenChannels
<1>8. MissIsFollowed'
  <2> SUFFICES ASSUME NEW u \in behind' \ gone' PROVE writing'[u] \o buffer'[u] # <<>>
    BY DEF MissIsFollowed
  <2>1. CASE u = s
    <3>1. buffer'[s] \in Seq(Event) /\ buffer'[s] # <<>> /\ writing'[s] \in Seq(Event)
      BY <1>1, <1>3, <1>4 DEF Inv, TypeOK
    <3> QED
      BY <2>1, <3>1, ConcatEqualIffEmpty
  <2>2. CASE u # s
    BY <1>1, <2>2 DEF Inv, TypeOK, MissIsFollowed
  <2> QED
    BY <2>1, <2>2
<1>9. \A u \in Streams : Feed(u)' = IF u = s THEN Append(Feed(s), Current(b)) ELSE Feed(u)
  <2> SUFFICES ASSUME NEW u \in Streams
               PROVE  Feed(u)' = IF u = s THEN Append(Feed(s), Current(b)) ELSE Feed(u)
    OBVIOUS
  <2>1. CASE u = s
    <3>1. buffer'[s] = Append(buffer[s], Current(b))
      BY <1>1 DEF Inv, TypeOK
    <3>2. /\ (log[s] \o writing[s]) \o Append(buffer[s], Current(b))
             = Append((log[s] \o writing[s]) \o buffer[s], Current(b))
      <4> DEFINE lw == log[s] \o writing[s]
                 next == Current(b)
      <4>1. lw \in Seq(Event) /\ next \in Event
        BY <1>2, <1>3
      <4> HIDE DEF lw, next
      <4> DEFINE buf == buffer[s]
      <4>2. buf \in Seq(Event)
        BY <1>3
      <4> HIDE DEF buf
      <4>3. lw \o Append(buf, next) = Append(lw \o buf, next)
        BY <4>1, <4>2, AppendToLast
      <4> QED
        BY <4>3 DEF lw, next, buf
    <3> QED
      BY <1>1, <2>1, <3>1, <3>2 DEF Feed
  <2>2. CASE u # s
    BY <1>1, <2>2 DEF Feed, Inv, TypeOK
  <2> QED
    BY <2>1, <2>2
<1>10. /\ Feed(s)' = Append(Feed(s), Current(b))
       /\ Range(Feed(s)') = Range(Feed(s)) \cup {Current(b)}
  <2>1. Range(Append(Feed(s), Current(b))) = Range(Feed(s)) \cup {Current(b)}
    BY <1>2, <1>3, AppendFacts
  <2>2. Feed(s)' = Append(Feed(s), Current(b))
    BY <1>9
  <2> QED
    BY <2>1, <2>2
<1>11. \A u \in Streams : u # s => Feed(u)' = Feed(u)
  BY <1>9
<1>12. \A c \in Broadcasters : Current(c)' = Current(c)
  BY <1>1 DEF Current
<1>13. /\ pending'[b] = pending[b] \ {s}
       /\ \A c \in Broadcasters \ {b} : pending'[c] = pending[c]
  BY <1>1 DEF Inv, TypeOK
<1>14. \A u \in Streams \ gone : \A e \in Range(Feed(u)) :
         /\ e.by \in Broadcasters
         /\ \/ e.n <= made[e.by]
            \/ e = Current(e.by) /\ bpc[e.by] = "sending" /\ u \notin pending[e.by]
  BY FeedType, EventFacts DEF Inv, CurrentInv
<1>15. CurrentInv'
  <2>1. ASSUME NEW u \in Streams \ gone', NEW e \in Range(Feed(u)')
        PROVE  \/ e.n <= made'[e.by]
               \/ e = Current(e.by)' /\ bpc'[e.by] = "sending" /\ u \notin pending'[e.by]
    <3>1. CASE u = s /\ e = Current(b)
      BY <1>1, <1>2, <1>12, <1>13, <3>1
    <3>2. CASE e \in Range(Feed(u))
      <4>1. /\ e.by \in Broadcasters
            /\ \/ e.n <= made[e.by]
               \/ e = Current(e.by) /\ bpc[e.by] = "sending" /\ u \notin pending[e.by]
        BY <1>1, <1>14, <3>2
      <4> QED
        BY <1>1, <1>12, <1>13, <4>1
    <3> QED
      BY <1>10, <1>11, <2>1, <3>1, <3>2
  <2>2. ASSUME NEW u \in clients' \ gone', NEW c \in Broadcasters,
               bpc'[c] = "sending", u \notin pending'[c]
        PROVE  Current(c)' \in Range(Feed(u)') \cup missed'[u]
    <3>1. u \in clients \ gone /\ u \in Streams /\ bpc[c] = "sending" /\ missed'[u] = missed[u]
      BY <1>1, <2>2 DEF Inv, TypeOK
    <3>2. CASE c = b /\ u = s
      BY <1>10, <1>12, <3>2
    <3>3. CASE ~(c = b /\ u = s)
      <4>1. u \notin pending[c]
        BY <1>13, <2>2, <3>3
      <4>2. Current(c) \in Range(Feed(u)) \cup missed[u]
        BY <3>1, <4>1 DEF Inv, CurrentInv
      <4>3. Range(Feed(u)) \subseteq Range(Feed(u)')
        BY <1>10, <1>11, <3>1
      <4> QED
        BY <1>12, <3>1, <4>2, <4>3
    <3> QED
      BY <3>2, <3>3
  <2> QED
    BY <2>1, <2>2 DEF CurrentInv
<1>16. InOrder'
  <2> SUFFICES ASSUME NEW u \in Streams \ gone' PROVE Ordered(Feed(u)')
    BY DEF InOrder
  <2>1. Ordered(Feed(u))
    BY <1>1 DEF Inv, InOrder
  <2>2. CASE u = s
    <3>1. ASSUME NEW d \in Range(Feed(s)), d.by = Current(b).by
          PROVE  d.n < Current(b).n
      <4>1. d.by = b /\ s \in Streams \ gone
        BY <1>1, <1>2, <2>2, <3>1
      <4>2. d.n <= made[b] /\ d.n \in Nat
        BY <1>1, <1>3, <1>14, <4>1, EventFacts
      <4> QED
        BY <1>2, <4>2
    <3> QED
      BY <1>2, <1>3, <1>10, <2>1, <2>2, <3>1, OrderedAppend
  <2>3. CASE u # s
    BY <1>11, <2>1, <2>3
  <2> QED
    BY <2>2, <2>3
<1>17. Accounted'
  <2> SUFFICES ASSUME NEW u \in clients' \ gone', NEW c \in Broadcasters,
                      NEW n \in since'[u][c] + 1 .. made'[c]
               PROVE  [by |-> c, n |-> n] \in Range(Feed(u)') \cup missed'[u]
    BY DEF Accounted
  <2>1. u \in clients \ gone /\ u \in Streams /\ missed'[u] = missed[u]
    BY <1>1 DEF Inv, TypeOK
  <2>2. [by |-> c, n |-> n] \in Range(Feed(u)) \cup missed[u]
    BY <1>1, <2>1 DEF Inv, Accounted
  <2>3. Range(Feed(u)) \subseteq Range(Feed(u)')
    BY <1>10, <1>11, <2>1
  <2> QED
    BY <2>1, <2>2, <2>3
<1> QED
  BY <1>5, <1>6, <1>7, <1>8, <1>15, <1>16, <1>17 DEF Inv

\* A channel that is full holds something the browser is still to be told.
LEMMA DropInv ==
  ASSUME Inv, NEW b \in Broadcasters, NEW s \in Streams, Drop(b, s)
  PROVE  Inv'
<1>1. /\ UNCHANGED <<clients, writer, readers, bpc, made, spc, buffer, writing, gone, log, since>>
      /\ bpc[b] = "sending" /\ s \in pending[b] /\ Len(buffer[s]) = Capacity
      /\ missed' = [missed EXCEPT ![s] = missed[s] \cup {Current(b)}]
      /\ behind' = behind \cup {s}
      /\ pending' = [pending EXCEPT ![b] = pending[b] \ {s}]
  BY DEF Drop, Overflow, Full, mutex, streams
<1>2. Current(b) \in Event
  BY <1>1, CurrentIsEvent
<1>3. TypeOK'
  BY <1>1, <1>2 DEF Inv, TypeOK
<1>4. LockInv'
  BY <1>1 DEF Inv, TypeOK, LockInv
<1>5. SendsToOpenChannels'
  BY <1>1 DEF Inv, TypeOK, SendsToOpenChannels
<1>6. MissIsFollowed'
  <2> SUFFICES ASSUME NEW u \in behind' \ gone' PROVE writing[u] \o buffer[u] # <<>>
    BY <1>1 DEF MissIsFollowed
  <2>1. CASE u = s
    <3>1. writing[s] \in Seq(Event) /\ buffer[s] \in Seq(Event) /\ buffer[s] # <<>>
      <4>1. Len(buffer[s]) # 0
        BY <1>1, ConstantsOK
      <4> QED
        BY <4>1, EmptySeq DEF Inv, TypeOK
    <3> QED
      BY <2>1, <3>1, ConcatEqualIffEmpty
  <2>2. CASE u # s
    BY <1>1, <2>2 DEF Inv, MissIsFollowed
  <2> QED
    BY <2>1, <2>2
<1>7. \A u \in Streams : Feed(u)' = Feed(u)
  BY <1>1, FeedsKept
<1>8. \A c \in Broadcasters : Current(c)' = Current(c)
  BY <1>1 DEF Current
<1>9. /\ pending'[b] = pending[b] \ {s}
      /\ \A c \in Broadcasters \ {b} : pending'[c] = pending[c]
      /\ missed'[s] = missed[s] \cup {Current(b)}
      /\ \A u \in Streams : missed[u] \subseteq missed'[u]
  BY <1>1 DEF Inv, TypeOK
<1>10. CurrentInv'
  <2>1. ASSUME NEW u \in Streams \ gone', NEW e \in Range(Feed(u)')
        PROVE  \/ e.n <= made'[e.by]
               \/ e = Current(e.by)' /\ bpc'[e.by] = "sending" /\ u \notin pending'[e.by]
    <3>1. e \in Range(Feed(u)) /\ e.by \in Broadcasters /\ u \in Streams \ gone
      BY <1>1, <1>7, <2>1, FeedType, EventFacts DEF Inv
    <3> QED
      BY <1>1, <1>8, <1>9, <3>1 DEF Inv, CurrentInv
  <2>2. ASSUME NEW u \in clients' \ gone', NEW c \in Broadcasters,
               bpc'[c] = "sending", u \notin pending'[c]
        PROVE  Current(c)' \in Range(Feed(u)') \cup missed'[u]
    <3>1. u \in clients \ gone /\ u \in Streams /\ bpc[c] = "sending"
      BY <1>1, <2>2 DEF Inv, TypeOK
    <3>2. CASE c = b /\ u = s
      BY <1>8, <1>9, <3>2
    <3>3. CASE ~(c = b /\ u = s)
      <4>1. u \notin pending[c]
        BY <1>9, <2>2, <3>3
      <4>2. Current(c) \in Range(Feed(u)) \cup missed[u]
        BY <3>1, <4>1 DEF Inv, CurrentInv
      <4> QED
        BY <1>7, <1>8, <1>9, <3>1, <4>2
    <3> QED
      BY <3>2, <3>3
  <2> QED
    BY <2>1, <2>2 DEF CurrentInv
<1>11. InOrder'
  BY <1>1, <1>7 DEF Inv, InOrder
<1>12. Accounted'
  <2> SUFFICES ASSUME NEW u \in clients' \ gone', NEW c \in Broadcasters,
                      NEW n \in since'[u][c] + 1 .. made'[c]
               PROVE  [by |-> c, n |-> n] \in Range(Feed(u)') \cup missed'[u]
    BY DEF Accounted
  <2>1. u \in clients \ gone /\ u \in Streams
    BY <1>1 DEF Inv, TypeOK
  <2>2. [by |-> c, n |-> n] \in Range(Feed(u)) \cup missed[u]
    BY <1>1, <2>1 DEF Inv, Accounted
  <2> QED
    BY <1>7, <1>9, <2>1, <2>2
<1> QED
  BY <1>3, <1>4, <1>5, <1>6, <1>10, <1>11, <1>12 DEF Inv

\* When Broadcast returns, every stream has its event or dropped it.
LEMMA ReturnInv ==
  ASSUME Inv, NEW b \in Broadcasters, Return(b)
  PROVE  Inv'
<1>1. /\ UNCHANGED <<clients, writer, pending, spc, buffer, writing, gone,
                     log, missed, behind, since>>
      /\ bpc[b] = "sending" /\ pending[b] = {}
      /\ readers' = readers \ {b}
      /\ made' = [made EXCEPT ![b] = made[b] + 1]
      /\ bpc' = [bpc EXCEPT ![b] = "idle"]
  BY DEF Return, streams, history
<1>2. TypeOK'
  BY <1>1 DEF Inv, TypeOK
<1>3. LockInv'
  BY <1>1 DEF Inv, TypeOK, LockInv
<1>4. SendsToOpenChannels' /\ MissIsFollowed'
  BY <1>1 DEF Inv, SendsToOpenChannels, MissIsFollowed
<1>5. \A u \in Streams : Feed(u)' = Feed(u)
  BY <1>1, FeedsKept
<1>6. /\ made'[b] = made[b] + 1 /\ made[b] \in Nat /\ Current(b) = [by |-> b, n |-> made[b] + 1]
      /\ \A c \in Broadcasters \ {b} :
           made'[c] = made[c] /\ bpc'[c] = bpc[c] /\ Current(c)' = Current(c)
      /\ bpc'[b] = "idle"
  BY <1>1 DEF Inv, TypeOK, Current
<1>7. CurrentInv'
  <2>1. ASSUME NEW u \in Streams \ gone', NEW e \in Range(Feed(u)')
        PROVE  \/ e.n <= made'[e.by]
               \/ e = Current(e.by)' /\ bpc'[e.by] = "sending" /\ u \notin pending'[e.by]
    <3>1. /\ e \in Range(Feed(u)) /\ e.by \in Broadcasters /\ e.n \in Nat
          /\ u \in Streams \ gone
      BY <1>1, <1>5, <2>1, FeedType, EventFacts DEF Inv
    <3>2. \/ e.n <= made[e.by]
          \/ e = Current(e.by) /\ bpc[e.by] = "sending" /\ u \notin pending[e.by]
      BY <3>1 DEF Inv, CurrentInv
    <3>3. CASE e.by = b
      <4>1. e.n <= made[b] \/ e.n = made[b] + 1
        BY <1>6, <3>2, <3>3
      <4> QED
        BY <1>6, <3>1, <3>3, <4>1
    <3>4. CASE e.by # b
      BY <1>1, <1>6, <3>1, <3>2, <3>4
    <3> QED
      BY <3>3, <3>4
  <2>2. ASSUME NEW u \in clients' \ gone', NEW c \in Broadcasters,
               bpc'[c] = "sending", u \notin pending'[c]
        PROVE  Current(c)' \in Range(Feed(u)') \cup missed'[u]
    <3>1. u \in clients \ gone /\ u \in Streams /\ c # b
      BY <1>1, <1>6, <2>2 DEF Inv, TypeOK
    <3> QED
      BY <1>1, <1>5, <1>6, <2>2, <3>1 DEF Inv, CurrentInv
  <2> QED
    BY <2>1, <2>2 DEF CurrentInv
<1>8. InOrder'
  BY <1>1, <1>5 DEF Inv, InOrder
<1>9. Accounted'
  <2> SUFFICES ASSUME NEW u \in clients' \ gone', NEW c \in Broadcasters,
                      NEW n \in since'[u][c] + 1 .. made'[c]
               PROVE  [by |-> c, n |-> n] \in Range(Feed(u)') \cup missed'[u]
    BY DEF Accounted
  <2>1. u \in clients \ gone /\ u \in Streams /\ since'[u] = since[u] /\ missed'[u] = missed[u]
    BY <1>1 DEF Inv, TypeOK
  <2>2. since[u][c] \in Nat /\ made[c] \in Nat
    BY <2>1 DEF Inv, TypeOK
  <2>3. CASE n <= made[c]
    <3>1. n \in since[u][c] + 1 .. made[c]
      BY <1>6, <2>1, <2>2, <2>3
    <3> QED
      BY <1>5, <2>1, <3>1 DEF Inv, Accounted
  <2>4. CASE ~(n <= made[c])
    <3>1. c = b /\ n = made[b] + 1
      BY <1>6, <2>1, <2>2, <2>4
    <3>2. Current(b) \in Range(Feed(u)) \cup missed[u]
      BY <1>1, <2>1 DEF Inv, CurrentInv
    <3> QED
      BY <1>5, <1>6, <2>1, <3>1, <3>2
  <2> QED
    BY <2>3, <2>4
<1> QED
  BY <1>2, <1>3, <1>4, <1>7, <1>8, <1>9 DEF Inv

-----------------------------------------------------------------------------
(* Every step preserves the inductive invariant.                              *)

LEMMA StutterInv == Inv /\ UNCHANGED vars => Inv'
<1> SUFFICES ASSUME Inv, UNCHANGED vars PROVE Inv'
  OBVIOUS
<1>1. UNCHANGED <<clients, writer, readers, bpc, made, pending, spc, buffer, writing, gone,
                  log, missed, behind, since>>
  BY DEF vars, mutex, senders, streams, history
<1>2. TypeOK'
  BY <1>1 DEF Inv, TypeOK
<1>3. LockInv' /\ SendsToOpenChannels' /\ MissIsFollowed'
  BY <1>1 DEF Inv, LockInv, SendsToOpenChannels, MissIsFollowed
<1> QED
  BY <1>1, <1>2, <1>3, QuietInv, FeedsKept DEF Inv

\* The inductive invariant holds in every reachable state.
THEOREM Invariance == Spec => []Inv
<1>1. Init => Inv
  BY InitInv
<1>2. Inv /\ [Next]_vars => Inv'
  <2> SUFFICES ASSUME Inv, [Next]_vars PROVE Inv'
    OBVIOUS
  <2>1. ASSUME NEW b \in Broadcasters, RLock(b) \/ Broadcast(b) PROVE Inv'
    BY <2>1, RLockInv, BeginInv, ReturnInv, SendInv, DropInv DEF Broadcast
  <2>2. ASSUME NEW s \in Streams,
               Connect(s) \/ Lock(s) \/ Receive(s) \/ Write(s) \/ Disconnect(s) \/ Leave(s)
        PROVE  Inv'
    BY <2>2, StreamInv, SubscribeInv, UnsubscribeInv, ReceiveInv, WriteInv DEF Lock
  <2> QED
    BY <2>1, <2>2, StutterInv DEF Next
<1> QED
  BY <1>1, <1>2, PTL DEF Spec

-----------------------------------------------------------------------------
(* What a reader should know of.                                              *)

\* Channels hold no more than their capacity, streams write one event at a time.
THEOREM TypesAreKept == Spec => []TypeOK
<1>1. Inv => TypeOK
  BY DEF Inv
<1> QED
  BY <1>1, Invariance, PTL

\* No goroutine sends on a closed channel.
THEOREM NoSendPanics == Spec => []SendsToOpenChannels
<1>1. Inv => SendsToOpenChannels
  BY DEF Inv
<1> QED
  BY <1>1, Invariance, PTL

\* Every stream gets the events of a goroutine in order and once.
THEOREM EventsComeInOrder == Spec => []InOrder
<1>1. Inv => InOrder
  BY DEF Inv
<1> QED
  BY <1>1, Invariance, PTL

\* Every event since a stream registered is on the stream or was dropped.
THEOREM EventsAreAccounted == Spec => []Accounted
<1>1. Inv => Accounted
  BY DEF Inv
<1> QED
  BY <1>1, Invariance, PTL

\* A dropped event is followed by another one that is written.
THEOREM MissesAreFollowed == Spec => []MissIsFollowed
<1>1. Inv => MissIsFollowed
  BY DEF Inv
<1> QED
  BY <1>1, Invariance, PTL

-----------------------------------------------------------------------------
(* Every stream is a feed.                                                    *)

\* A stream is unsubscribed after its browser has gone.
LEMMA LeaveStep ==
  ASSUME Inv, LeaveInv, [Next]_vars
  PROVE  LeaveInv'
<1>1. spc \in [Streams -> {"off", "subscribe", "select", "write", "unsubscribe", "closed"}]
  BY DEF Inv, TypeOK
<1>2. ASSUME NEW b \in Broadcasters, RLock(b) \/ Broadcast(b) PROVE UNCHANGED <<spc, gone>>
  BY <1>2 DEF RLock, Broadcast, Begin, Send, Drop, Return, streams
<1>3. ASSUME NEW s \in Streams,
             Connect(s) \/ Lock(s) \/ Receive(s) \/ Write(s) \/ Disconnect(s) \/ Leave(s)
      PROVE  LeaveInv'
  <2>1. /\ gone \subseteq gone'
        /\ \/ spc' = spc
           \/ \E v \in {"subscribe", "select", "write"} : spc' = [spc EXCEPT ![s] = v]
           \/ s \in gone /\ spc' = [spc EXCEPT ![s] = "unsubscribe"]
           \/ spc[s] = "unsubscribe" /\ spc' = [spc EXCEPT ![s] = "closed"]
    BY <1>3 DEF Connect, Lock, Announce, Subscribe, Unsubscribe, Receive, Write, Disconnect, Leave,
                streams
  <2> QED
    BY <1>1, <2>1 DEF LeaveInv
<1>4. CASE UNCHANGED vars
  BY <1>4 DEF vars, streams, LeaveInv
<1> QED
  BY <1>2, <1>3, <1>4 DEF Next, LeaveInv

\* What a broadcast changes of the events that stream s is still to get or to
\* miss: b enters Broadcast, decides s, or does neither.
LEMMA DueFacts ==
  ASSUME NEW s, NEW b \in Broadcasters,
         \A x \in Broadcasters \ {b} :
           made'[x] = made[x] /\ (Undecided(x, s)' <=> Undecided(x, s))
  PROVE  /\ (/\ Undecided(b, s)' <=> Undecided(b, s)
             /\ Undecided(b, s) => made'[b] = made[b]) => Due(s)' = Due(s)
         /\ (Undecided(b, s)' /\ ~Undecided(b, s) /\ made'[b] = made[b]) =>
              Current(b) \notin Due(s) /\ Due(s)' = Due(s) \cup {Current(b)}
         /\ (~Undecided(b, s)' /\ Undecided(b, s) /\ made'[b] = made[b]) =>
              Current(b) \in Due(s) /\ Due(s)' = Due(s) \ {Current(b)}
<1>1. \A x, y \in Broadcasters : Current(x) = Current(y) => x = y
  BY DEF Current
<1>2. \A x \in Broadcasters : made'[x] = made[x] => Current(x)' = Current(x)
  BY DEF Current
<1>3. \A e : e \in Due(s) <=> \E x \in Broadcasters : Undecided(x, s) /\ e = Current(x)
  BY DEF Due
<1>4. \A e : e \in Due(s)' <=> \E x \in Broadcasters : Undecided(x, s)' /\ e = Current(x)'
  BY DEF Due
<1>5. CASE /\ Undecided(b, s)' <=> Undecided(b, s)
           /\ Undecided(b, s) => made'[b] = made[b]
  <2>1. \A e : e \in Due(s)' <=> e \in Due(s)
    BY <1>2, <1>3, <1>4, <1>5
  <2> QED
    BY <1>5, <2>1
<1>6. CASE Undecided(b, s)' /\ ~Undecided(b, s) /\ made'[b] = made[b]
  <2>1. Current(b) \notin Due(s)
    BY <1>1, <1>3, <1>6
  <2>2. \A e : e \in Due(s)' <=> e \in Due(s) \/ e = Current(b)
    BY <1>2, <1>3, <1>4, <1>6
  <2>3. Due(s)' = Due(s) \cup {Current(b)}
    BY <2>2
  <2> QED
    BY <1>6, <2>1, <2>3
<1>7. CASE ~Undecided(b, s)' /\ Undecided(b, s) /\ made'[b] = made[b]
  <2>1. Current(b) \in Due(s)
    BY <1>3, <1>7
  <2>2. \A e : e \in Due(s)' <=> e \in Due(s) /\ e # Current(b)
    BY <1>1, <1>2, <1>3, <1>4, <1>7
  <2>3. Due(s)' = Due(s) \ {Current(b)}
    BY <2>2
  <2> QED
    BY <1>7, <2>1, <2>3
<1> QED
  BY <1>5, <1>6, <1>7

\* Streams come, go, receive and write without deciding anything.
LEMMA DueKept ==
  ASSUME NEW s, made' = made,
         \A x \in Broadcasters : Undecided(x, s)' <=> Undecided(x, s)
  PROVE  Due(s)' = Due(s)
<1>1. \A x \in Broadcasters : Current(x)' = Current(x)
  BY DEF Current
<1>2. \A e : e \in Due(s) <=> \E x \in Broadcasters : Undecided(x, s) /\ e = Current(x)
  BY DEF Due
<1>3. \A e : e \in Due(s)' <=> \E x \in Broadcasters : Undecided(x, s)' /\ e = Current(x)'
  BY DEF Due
<1>4. \A e : e \in Due(s)' <=> e \in Due(s)
  BY <1>1, <1>2, <1>3
<1> QED
  BY <1>4

\* A sequence after at most one element.
LEMMA AfterOne ==
  ASSUME NEW S, NEW w \in Seq(S), NEW q \in Seq(S), Len(w) \in {0, 1}
  PROVE  w \o q \in Seq(S) /\ Len(q) \in Nat /\ Len(w \o q) \in Len(q) .. Len(q) + 1
<1>1. w \o q \in Seq(S) /\ Len(w \o q) = Len(w) + Len(q)
  BY ConcatProperties
<1>2. Len(q) \in Nat /\ Len(w) \in 0 .. 1
  BY LenProperties
<1>3. \A m, n \in Nat : m \in 0 .. 1 => m + n \in n .. n + 1
  OBVIOUS
<1>4. Len(w) + Len(q) \in Len(q) .. Len(q) + 1
  BY <1>2, <1>3
<1> QED
  BY <1>1, <1>2, <1>4

\* The stream a browser has not left holds at most one event more than its buffer.
LEMMA WayFacts ==
  ASSUME Inv, NEW s \in Streams
  PROVE  /\ buffer[s] \in Seq(Event) /\ writing[s] \in Seq(Event)
         /\ writing[s] \o buffer[s] \in Seq(Event)
         /\ Len(writing[s] \o buffer[s]) \in Len(buffer[s]) .. Len(buffer[s]) + 1
         /\ Len(buffer[s]) \in Nat /\ Len(buffer[s]) <= Capacity /\ Capacity \in Nat
<1>1. /\ buffer[s] \in Seq(Event) /\ writing[s] \in Seq(Event) /\ Capacity \in Nat
      /\ Len(buffer[s]) <= Capacity /\ Len(writing[s]) \in {0, 1}
  BY ConstantsOK DEF Inv, TypeOK
<1>2. /\ writing[s] \o buffer[s] \in Seq(Event) /\ Len(buffer[s]) \in Nat
      /\ Len(writing[s] \o buffer[s]) \in Len(buffer[s]) .. Len(buffer[s]) + 1
  BY <1>1, AfterOne
<1> QED
  BY <1>1, <1>2

\* A stream in the map is open until its browser leaves; no other is open.
LEMMA LinkFacts ==
  ASSUME Inv, LeaveInv, NEW s \in Streams
  PROVE  /\ s \in clients \ gone => Link(s) = "open"
         /\ s \notin clients => Link(s) # "open"
         /\ s \in gone => Link(s) = "closed" /\ OnTheWay(s) = <<>>
         /\ s \notin gone => OnTheWay(s) = writing[s] \o buffer[s]
<1>1. /\ s \in clients <=> spc[s] \in {"select", "write", "unsubscribe"}
      /\ spc[s] \in {"off", "subscribe", "select", "write", "unsubscribe", "closed"}
      /\ spc[s] \in {"unsubscribe", "closed"} => s \in gone
  BY DEF LeaveInv, Inv, TypeOK, LockInv
<1>2. s \in gone => Link(s) = "closed" /\ OnTheWay(s) = <<>>
  BY DEF Link, OnTheWay
<1>3. s \notin gone => OnTheWay(s) = writing[s] \o buffer[s]
  BY DEF OnTheWay
<1>4. s \in clients \ gone => Link(s) = "open"
  BY <1>1 DEF Link
<1>5. s \notin clients => Link(s) # "open"
  BY <1>1 DEF Link
<1> QED
  BY <1>2, <1>3, <1>4, <1>5

\* A step of goroutine b that leaves stream s alone.
LEMMA AsideStep ==
  ASSUME NEW s \in Streams, UNCHANGED <<spc, gone>>, Due(s)' = Due(s),
         writing'[s] = writing[s], buffer'[s] = buffer[s]
  PROVE  UNCHANGED Stream(s)!vars
BY DEF Link, OnTheWay, Stream!vars

\* RLock: an event is raised.
LEMMA RaiseStep ==
  ASSUME Inv, NEW s \in Streams, NEW b \in Broadcasters, RLock(b)
  PROVE  Stream(s)!Next
<1>1. /\ bpc[b] = "idle" /\ bpc \in [Broadcasters -> {"idle", "rlock", "locked", "sending"}]
      /\ \E v \in {"rlock", "locked"} : bpc' = [bpc EXCEPT ![b] = v]
      /\ UNCHANGED <<made, pending, spc, gone, writing, buffer>>
  BY DEF RLock, streams, Inv, TypeOK
<1>2. /\ \A x \in Broadcasters \ {b} : Undecided(x, s)' <=> Undecided(x, s)
      /\ Undecided(b, s)' /\ ~Undecided(b, s)
  BY <1>1 DEF Undecided
<1>3. Current(b) \notin Due(s) /\ Due(s)' = Due(s) \cup {Current(b)}
  BY <1>1, <1>2, DueFacts
<1>4. Current(b) \in Event
  <2>1. made[b] \in Nat /\ made[b] < MaxEvents[b] /\ MaxEvents[b] \in Nat
    BY ConstantsOK DEF RLock, Inv, TypeOK
  <2>2. Current(b) \in [by : {b}, n : 1 .. MaxEvents[b]]
    BY <2>1 DEF Current
  <2> QED
    BY <2>2 DEF Event
<1>5. Link(s)' = Link(s) /\ OnTheWay(s)' = OnTheWay(s)
  BY <1>1 DEF Link, OnTheWay
<1>6. Stream(s)!Raise(Current(b))
  BY <1>3, <1>5 DEF Stream!Raise
<1> QED
  BY <1>4, <1>6 DEF Stream!Next

\* The loop begins: streams that are not in the map miss the event.
LEMMA BeginStep ==
  ASSUME Inv, LeaveInv, NEW s \in Streams, NEW b \in Broadcasters, Begin(b)
  PROVE  [Stream(s)!Next]_(Stream(s)!vars)
<1>1. /\ bpc[b] = "locked" /\ bpc \in [Broadcasters -> {"idle", "rlock", "locked", "sending"}]
      /\ bpc' = [bpc EXCEPT ![b] = "sending"]
      /\ pending \in [Broadcasters -> SUBSET Streams] /\ pending' = [pending EXCEPT ![b] = clients]
      /\ UNCHANGED <<made, spc, gone, writing, buffer>>
  BY DEF Begin, streams, Inv, TypeOK
<1>2. /\ \A x \in Broadcasters \ {b} : Undecided(x, s)' <=> Undecided(x, s)
      /\ Undecided(b, s) /\ (Undecided(b, s)' <=> s \in clients)
  BY <1>1 DEF Undecided
<1>3. CASE s \in clients
  <2>1. Due(s)' = Due(s)
    BY <1>1, <1>2, <1>3, DueFacts
  <2> QED
    BY <1>1, <2>1, AsideStep
<1>4. CASE s \notin clients
  <2>1. Current(b) \in Due(s) /\ Due(s)' = Due(s) \ {Current(b)}
    BY <1>1, <1>2, <1>4, DueFacts
  <2>2. Link(s) # "open" /\ Link(s)' = Link(s) /\ OnTheWay(s)' = OnTheWay(s)
    BY <1>1, <1>4, LinkFacts DEF Link, OnTheWay
  <2>3. Stream(s)!Miss(Current(b))
    BY <2>1, <2>2 DEF Stream!Miss
  <2> QED
    BY <1>1, <2>3, CurrentIsEvent DEF Stream!Next
<1> QED
  BY <1>3, <1>4

\* The loop reaches stream u: it decides u, and no other stream.
LEMMA DecideFacts ==
  ASSUME Inv, NEW s \in Streams, NEW b \in Broadcasters, NEW u \in Streams,
         bpc[b] = "sending", u \in pending[b], pending' = [pending EXCEPT ![b] = @ \ {u}],
         UNCHANGED <<bpc, made>>
  PROVE  /\ s # u => Due(s)' = Due(s)
         /\ s = u => Current(b) \in Due(s) /\ Due(s)' = Due(s) \ {Current(b)}
         /\ Current(b) \in Event /\ u \in clients
<1>1. pending \in [Broadcasters -> SUBSET Streams]
  BY DEF Inv, TypeOK
<1>2. /\ \A x \in Broadcasters \ {b} : Undecided(x, s)' <=> Undecided(x, s)
      /\ s # u => (Undecided(b, s)' <=> Undecided(b, s))
      /\ s = u => Undecided(b, s) /\ ~Undecided(b, s)'
  BY <1>1 DEF Undecided
<1>3. s # u => Due(s)' = Due(s)
  BY <1>2, DueFacts
<1>4. s = u => Current(b) \in Due(s) /\ Due(s)' = Due(s) \ {Current(b)}
  BY <1>2, DueFacts
<1> QED
  BY <1>3, <1>4, CurrentIsEvent DEF Inv, SendsToOpenChannels

LEMMA SendStep ==
  ASSUME Inv, LeaveInv, NEW s \in Streams, NEW b \in Broadcasters, NEW u \in Streams, Send(b, u)
  PROVE  [Stream(s)!Next]_(Stream(s)!vars)
<1>1. /\ bpc[b] = "sending" /\ u \in pending[b] /\ Len(buffer[u]) # Capacity
      /\ buffer \in [Streams -> Seq(Event)] /\ buffer' = [buffer EXCEPT ![u] = Append(@, Current(b))]
      /\ pending' = [pending EXCEPT ![b] = @ \ {u}]
      /\ UNCHANGED <<bpc, made, spc, gone, writing>>
  BY DEF Send, Full, Inv, TypeOK
<1>2. /\ s # u => Due(s)' = Due(s)
      /\ s = u => Current(b) \in Due(s) /\ Due(s)' = Due(s) \ {Current(b)}
      /\ Current(b) \in Event /\ u \in clients
  BY <1>1, DecideFacts
<1>3. Link(s)' = Link(s)
  BY <1>1 DEF Link
<1>4. CASE s # u
  BY <1>1, <1>2, <1>4, AsideStep
<1>5. CASE s = u /\ s \in gone
  <2>1. Link(s) # "open" /\ OnTheWay(s)' = OnTheWay(s)
    BY <1>1, <1>5, LinkFacts DEF OnTheWay
  <2>2. Stream(s)!Miss(Current(b))
    BY <1>2, <1>3, <1>5, <2>1 DEF Stream!Miss
  <2> QED
    BY <1>2, <2>2 DEF Stream!Next
<1>6. CASE s = u /\ s \notin gone
  <2>1. Link(s) = "open" /\ OnTheWay(s) = writing[s] \o buffer[s]
    BY <1>2, <1>6, LinkFacts
  <2>2. Len(OnTheWay(s)) <= Capacity
    BY <1>1, <1>6, <2>1, WayFacts
  <2>3. OnTheWay(s)' = writing[s] \o Append(buffer[s], Current(b))
    BY <1>1, <1>6 DEF OnTheWay
  <2>4. OnTheWay(s)' = Append(OnTheWay(s), Current(b))
    <3>1. buffer[s] \in Seq(Event) /\ writing[s] \in Seq(Event) /\ Current(b) \in Event
      BY <1>2, WayFacts
    <3>2. writing[s] \o Append(buffer[s], Current(b)) = Append(writing[s] \o buffer[s], Current(b))
      <4> DEFINE w    == writing[s]
                 q    == buffer[s]
                 next == Current(b)
      <4>1. w \in Seq(Event) /\ q \in Seq(Event) /\ next \in Event
        BY <3>1
      <4> HIDE DEF w, q, next
      <4>2. w \o Append(q, next) = Append(w \o q, next)
        BY <4>1, AppendToLast
      <4> QED
        BY <4>2 DEF w, q, next
    <3> QED
      BY <2>1, <2>3, <3>1, <3>2
  <2>5. Stream(s)!Put(Current(b))
    BY <1>2, <1>3, <1>6, <2>1, <2>2, <2>4 DEF Stream!Put
  <2> QED
    BY <1>2, <2>5 DEF Stream!Next
<1> QED
  BY <1>4, <1>5, <1>6

LEMMA DropStep ==
  ASSUME Inv, LeaveInv, NEW s \in Streams, NEW b \in Broadcasters, NEW u \in Streams, Drop(b, u)
  PROVE  [Stream(s)!Next]_(Stream(s)!vars)
<1>1. /\ bpc[b] = "sending" /\ u \in pending[b] /\ Len(buffer[u]) = Capacity
      /\ pending' = [pending EXCEPT ![b] = @ \ {u}]
      /\ UNCHANGED <<bpc, made, spc, gone, writing, buffer>>
  BY DEF Drop, Overflow, Full, streams
<1>2. /\ s # u => Due(s)' = Due(s)
      /\ s = u => Current(b) \in Due(s) /\ Due(s)' = Due(s) \ {Current(b)}
      /\ Current(b) \in Event
  BY <1>1, DecideFacts
<1>3. CASE s # u
  BY <1>1, <1>2, <1>3, AsideStep
<1>4. CASE s = u
  <2>1. Link(s)' = Link(s) /\ OnTheWay(s)' = OnTheWay(s)
    BY <1>1 DEF Link, OnTheWay
  <2>2. Link(s) # "open" \/ Len(OnTheWay(s)) >= Capacity
    <3>1. CASE s \in gone
      BY <3>1, LinkFacts
    <3>2. CASE s \notin gone
      <4>1. OnTheWay(s) = writing[s] \o buffer[s]
        BY <3>2, LinkFacts
      <4>2. Len(buffer[s]) = Capacity
        BY <1>1, <1>4
      <4>3. Len(writing[s] \o buffer[s]) \in Len(buffer[s]) .. Len(buffer[s]) + 1 /\ Capacity \in Nat
        BY WayFacts
      <4>4. Len(OnTheWay(s)) \in Capacity .. Capacity + 1
        BY <4>1, <4>2, <4>3
      <4> QED
        BY <4>3, <4>4
    <3> QED
      BY <3>1, <3>2
  <2>3. Stream(s)!Miss(Current(b))
    BY <1>2, <1>4, <2>1, <2>2 DEF Stream!Miss
  <2> QED
    BY <1>2, <2>3 DEF Stream!Next
<1> QED
  BY <1>3, <1>4

\* When Broadcast returns, every stream has been decided.
LEMMA ReturnStep ==
  ASSUME Inv, NEW s \in Streams, NEW b \in Broadcasters, Return(b)
  PROVE  UNCHANGED Stream(s)!vars
<1>1. /\ bpc[b] = "sending" /\ pending[b] = {} /\ bpc' = [bpc EXCEPT ![b] = "idle"]
      /\ bpc \in [Broadcasters -> {"idle", "rlock", "locked", "sending"}]
      /\ made \in [Broadcasters -> Nat] /\ made' = [made EXCEPT ![b] = @ + 1]
      /\ UNCHANGED <<pending, spc, gone, writing, buffer>>
  BY DEF Return, streams, Inv, TypeOK
<1>2. /\ \A x \in Broadcasters \ {b} :
           made'[x] = made[x] /\ (Undecided(x, s)' <=> Undecided(x, s))
      /\ ~Undecided(b, s) /\ ~Undecided(b, s)'
  BY <1>1 DEF Undecided
<1>3. Due(s)' = Due(s)
  BY <1>2, DueFacts
<1> QED
  BY <1>1, <1>3, AsideStep

\* Subscribe opens the stream, unless its browser has left already; Unsubscribe
\* finds it closed. Both let the waiting goroutines in.
LEMMA LockStep ==
  ASSUME Inv, LeaveInv, NEW s \in Streams, NEW u \in Streams, Lock(u)
  PROVE  [Stream(s)!Next]_(Stream(s)!vars)
<1>1. CASE Announce(u)
  <2>1. UNCHANGED <<bpc, made, pending, spc, gone, writing, buffer>>
    BY <1>1 DEF Announce, senders, streams
  <2>2. Due(s)' = Due(s)
    BY <2>1, DueKept DEF Undecided
  <2> QED
    BY <2>1, <2>2, AsideStep
<1>2. CASE Subscribe(u) \/ Unsubscribe(u)
  <2>1. /\ readers = {} /\ Unlock /\ UNCHANGED <<made, pending, buffer, writing, gone>>
        /\ spc \in [Streams -> {"off", "subscribe", "select", "write", "unsubscribe", "closed"}]
        /\ \/ spc[u] = "subscribe" /\ spc' = [spc EXCEPT ![u] = "select"]
           \/ spc[u] = "unsubscribe" /\ spc' = [spc EXCEPT ![u] = "closed"]
    BY <1>2 DEF Subscribe, Unsubscribe, HasLock, Inv, TypeOK
  <2>2. Due(s)' = Due(s)
    <3>1. \A x \in Broadcasters : Undecided(x, s)' <=> Undecided(x, s)
      BY <2>1 DEF Unlock, Undecided
    <3> QED
      BY <2>1, <3>1, DueKept
  <2>3. OnTheWay(s)' = OnTheWay(s)
    BY <2>1 DEF OnTheWay
  <2>4. CASE s = u /\ s \notin gone
    <3>1. spc[s] = "subscribe" /\ Link(s) = "connecting" /\ Link(s)' = "open"
      BY <2>1, <2>4 DEF Link, LeaveInv
    <3>2. Stream(s)!Open
      BY <2>2, <2>3, <3>1 DEF Stream!Open
    <3> QED
      BY <3>2 DEF Stream!Next
  <2>5. CASE s # u \/ s \in gone
    <3>1. Link(s)' = Link(s)
      BY <2>1, <2>5 DEF Link
    <3> QED
      BY <2>2, <2>3, <3>1 DEF Stream!vars
  <2> QED
    BY <2>4, <2>5
<1> QED
  BY <1>1, <1>2 DEF Lock

\* The loop of handleEvents: a written event is taken from the feed, and the feed
\* closes when the browser leaves.
LEMMA LoopStep ==
  ASSUME Inv, LeaveInv, NEW s \in Streams, NEW u \in Streams,
         Connect(u) \/ Receive(u) \/ Write(u) \/ Disconnect(u) \/ Leave(u)
  PROVE  [Stream(s)!Next]_(Stream(s)!vars)
<1>1. UNCHANGED <<bpc, made, pending>>
  BY DEF Connect, Receive, Write, Disconnect, Leave, senders
<1>2. Due(s)' = Due(s)
  BY <1>1, DueKept DEF Undecided
<1>3. /\ spc \in [Streams -> {"off", "subscribe", "select", "write", "unsubscribe", "closed"}]
      /\ buffer \in [Streams -> Seq(Event)] /\ writing \in [Streams -> Seq(Event)]
      /\ Len(writing[s]) = IF spc[s] = "write" THEN 1 ELSE 0
  BY DEF Inv, TypeOK
<1>4. CASE Connect(u) \/ Leave(u)
  <2>1. /\ UNCHANGED <<gone, writing, buffer>>
        /\ \/ spc[u] = "off" /\ spc' = [spc EXCEPT ![u] = "subscribe"]
           \/ spc[u] = "select" /\ u \in gone /\ spc' = [spc EXCEPT ![u] = "unsubscribe"]
    BY <1>4 DEF Connect, Leave
  <2>2. Link(s)' = Link(s) /\ OnTheWay(s)' = OnTheWay(s)
    BY <1>3, <2>1 DEF Link, OnTheWay
  <2> QED
    BY <1>2, <2>2 DEF Stream!vars
<1>5. CASE Receive(u)
  <2>1. /\ spc[u] = "select" /\ buffer[u] # <<>> /\ UNCHANGED gone
        /\ writing' = [writing EXCEPT ![u] = <<Head(buffer[u])>>]
        /\ buffer' = [buffer EXCEPT ![u] = Tail(@)]
        /\ spc' = [spc EXCEPT ![u] = "write"]
    BY <1>5 DEF Receive, Ready, NextEvent
  <2>2. Link(s)' = Link(s)
    BY <1>3, <2>1 DEF Link
  <2>3. writing'[s] \o buffer'[s] = writing[s] \o buffer[s]
    <3>1. CASE s # u
      BY <1>3, <2>1, <3>1
    <3>2. CASE s = u
      <4>1. /\ writing'[s] = <<Head(buffer[s])>> /\ buffer'[s] = Tail(buffer[s])
            /\ buffer[s] \in Seq(Event) /\ buffer[s] # <<>> /\ writing[s] \in Seq(Event)
            /\ Len(writing[s]) = 0
        BY <1>3, <2>1, <3>2
      <4>2. writing[s] = <<>>
        BY <4>1, EmptySeq
      <4>3. <<>> \o buffer[s] = buffer[s]
        BY <4>1, ConcatEmptySeq
      <4> QED
        BY <4>1, <4>2, <4>3, HeadAndTail
    <3> QED
      BY <3>1, <3>2
  <2>4. OnTheWay(s)' = OnTheWay(s)
    BY <2>1, <2>3 DEF OnTheWay
  <2> QED
    BY <1>2, <2>2, <2>4 DEF Stream!vars
<1>6. CASE Write(u)
  <2>1. /\ spc[u] = "write" /\ UNCHANGED <<gone, buffer>>
        /\ writing' = [writing EXCEPT ![u] = <<>>]
        /\ spc' = [spc EXCEPT ![u] = "select"]
    BY <1>6 DEF Write
  <2>2. Link(s)' = Link(s)
    BY <1>3, <2>1 DEF Link
  <2>3. CASE s # u \/ s \in gone
    <3>1. OnTheWay(s)' = OnTheWay(s)
      BY <1>3, <2>1, <2>3 DEF OnTheWay
    <3> QED
      BY <1>2, <2>2, <3>1 DEF Stream!vars
  <2>4. CASE s = u /\ s \notin gone
    <3>1. /\ Len(writing[s]) = 1 /\ writing'[s] = <<>> /\ buffer'[s] = buffer[s]
          /\ writing[s] \in Seq(Event) /\ buffer[s] \in Seq(Event)
      BY <1>3, <2>1, <2>4
    <3>2. OnTheWay(s) = writing[s] \o buffer[s] /\ OnTheWay(s)' = buffer[s]
      <4>1. <<>> \o buffer[s] = buffer[s]
        BY <3>1, ConcatEmptySeq
      <4> QED
        BY <2>1, <2>4, <3>1, <4>1 DEF OnTheWay
    <3>3. OnTheWay(s) # <<>> /\ Tail(OnTheWay(s)) = buffer[s]
      <4>1. writing[s] \o buffer[s] # <<>> /\ Tail(writing[s] \o buffer[s]) = buffer[s]
        BY <3>1, TailOfOne
      <4> QED
        BY <3>2, <4>1
    <3>4. Stream(s)!Take
      BY <1>2, <2>2, <3>2, <3>3 DEF Stream!Take
    <3> QED
      BY <3>4 DEF Stream!Next
  <2> QED
    BY <2>3, <2>4
<1>7. CASE Disconnect(u)
  <2>1. u \notin gone /\ gone' = gone \cup {u} /\ UNCHANGED <<spc, writing, buffer>>
    BY <1>7 DEF Disconnect
  <2>2. CASE s # u
    <3>1. Link(s)' = Link(s) /\ OnTheWay(s)' = OnTheWay(s)
      BY <2>1, <2>2 DEF Link, OnTheWay
    <3> QED
      BY <1>2, <3>1 DEF Stream!vars
  <2>3. CASE s = u
    <3>1. Link(s) # "closed"
      BY <2>1, <2>3 DEF Link
    <3>3. Link(s)' = "closed" /\ OnTheWay(s)' = <<>>
      <4>1. s \in gone'
        BY <2>1, <2>3
      <4> QED
        BY <4>1 DEF Link, OnTheWay
    <3>2. Stream(s)!Close
      BY <1>2, <3>1, <3>3 DEF Stream!Close
    <3> QED
      BY <3>2 DEF Stream!Next
  <2> QED
    BY <2>2, <2>3
<1> QED
  BY <1>4, <1>5, <1>6, <1>7

\* Every step of the hub is a step of the feed of each stream, or leaves it as it
\* is.
LEMMA FeedStep ==
  ASSUME Inv, LeaveInv, [Next]_vars, NEW s \in Streams
  PROVE  [Stream(s)!Next]_(Stream(s)!vars)
<1>1. ASSUME NEW b \in Broadcasters, RLock(b) \/ Broadcast(b)
      PROVE  [Stream(s)!Next]_(Stream(s)!vars)
  BY <1>1, RaiseStep, BeginStep, ReturnStep, SendStep, DropStep DEF Broadcast
<1>2. ASSUME NEW u \in Streams,
             Connect(u) \/ Lock(u) \/ Receive(u) \/ Write(u) \/ Disconnect(u) \/ Leave(u)
      PROVE  [Stream(s)!Next]_(Stream(s)!vars)
  BY <1>2, LockStep, LoopStep
<1>3. CASE UNCHANGED vars
  <2>1. UNCHANGED <<bpc, made, pending, spc, gone, writing, buffer>>
    BY <1>3 DEF vars, senders, streams
  <2>2. Due(s)' = Due(s)
    BY <2>1, DueKept DEF Undecided
  <2> QED
    BY <2>1, <2>2, AsideStep
<1> QED
  BY <1>1, <1>2, <1>3 DEF Next

\* Initially every feed is as a feed is initially.
LEMMA FeedInit ==
  ASSUME Init, NEW s \in Streams
  PROVE  Stream(s)!Init
<1>1. Due(s) = {}
  BY DEF Init, Due, Undecided
<1>2. Link(s) = "connecting" /\ OnTheWay(s) = <<>> \o <<>>
  BY DEF Init, Link, OnTheWay
<1>3. <<>> \o <<>> = <<>>
  BY ConcatEmptySeq
<1> QED
  BY <1>1, <1>2, <1>3 DEF Stream!Init

-----------------------------------------------------------------------------
(* What a reader should know of, about the lock and the streams.              *)

\* The loop of handleEvents unsubscribes a stream only when its browser has left
\* (server.go 269-272).
THEOREM OnlyTheGoneLeave == Spec => []LeaveInv
<1>1. Init => LeaveInv
  BY DEF Init, LeaveInv
<1>2. Inv /\ LeaveInv /\ [Next]_vars => LeaveInv'
  BY LeaveStep
<1> QED
  BY <1>1, <1>2, Invariance, PTL DEF Spec

\* The hub is, for all its streams at once, the feed it promises: every step of a
\* Broadcast or of the lock is, to each stream, a step of its feed or nothing
\* (events.go 20-58, server.go 249-283).
THEOREM HubImplementsFeeds == Spec => StreamsAreFeeds
<1>1. Init => \A s \in Streams : Stream(s)!Init
  BY FeedInit
<1>2. Inv /\ LeaveInv /\ [Next]_vars =>
        [\A s \in Streams : [Stream(s)!Next]_(Stream(s)!vars)]_vars
  BY FeedStep
<1> QED
  BY <1>1, <1>2, Invariance, OnlyTheGoneLeave, PTL DEF Spec, StreamsAreFeeds

\* Each stream of handleEvents alone is an EventFeed: a page that relies on its
\* feed may rely on its stream of the hub (server.go 249-283).
THEOREM EachStreamIsAFeed ==
  ASSUME NEW CONSTANT s \in Streams
  PROVE  Spec => Stream(s)!Spec
<1>1. Init => Stream(s)!Init
  BY FeedInit
<1>2. Inv /\ LeaveInv /\ [Next]_vars => [Stream(s)!Next]_(Stream(s)!vars)
  BY FeedStep
<1> QED
  BY <1>1, <1>2, Invariance, OnlyTheGoneLeave, PTL DEF Spec, Stream!Spec
=============================================================================
