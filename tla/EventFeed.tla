------------------------------ MODULE EventFeed ------------------------------
(* What EventHub promises to one browser, whatever other streams and senders  *)
(* do: a queue, without map, locks and goroutines. An event that is being     *)
(* broadcast is decided once: it is put on the queue, or missed, and only for *)
(* a reason. EventHub implements this specification for each of its streams,  *)
(* and the stream of LivePage is built from its actions.                      *)
EXTENDS Naturals, Sequences

CONSTANTS
  Events,        \* what may be broadcast
  Capacity       \* the channel's buffer; one more event is being written

VARIABLES
  due,           \* events that are being broadcast and not decided yet
  link,          \* the stream as its browser knows it
  stream         \* the events on their way to the browser, in order

vars == <<due, link, stream>>

Init == due = {} /\ link = "connecting" /\ stream = <<>>

\* Somebody is to broadcast e.
Raise(e) ==
  /\ e \notin due
  /\ due' = due \cup {e}
  /\ UNCHANGED <<link, stream>>

Put(e) ==
  /\ e \in due /\ link = "open" /\ Len(stream) <= Capacity
  /\ due' = due \ {e}
  /\ stream' = Append(stream, e)
  /\ UNCHANGED link

\* The stream is not there, or its buffer is full.
Miss(e) ==
  /\ e \in due /\ (link # "open" \/ Len(stream) >= Capacity)
  /\ due' = due \ {e}
  /\ UNCHANGED <<link, stream>>

Open ==
  /\ link = "connecting"
  /\ link' = "open"
  /\ UNCHANGED <<due, stream>>

\* The oldest event reaches the browser.
Take ==
  /\ stream # <<>>
  /\ stream' = Tail(stream)
  /\ UNCHANGED <<due, link>>

\* The browser leaves; what was on its way is lost.
Close ==
  /\ link # "closed"
  /\ link' = "closed" /\ stream' = <<>>
  /\ UNCHANGED due

Next ==
  \/ \E e \in Events : Raise(e) \/ Put(e) \/ Miss(e)
  \/ Open \/ Take \/ Close

Spec == Init /\ [][Next]_vars
=============================================================================
