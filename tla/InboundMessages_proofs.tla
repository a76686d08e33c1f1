----------------------- MODULE InboundMessages_proofs -----------------------
(***************************************************************************)
(* What the user agent is given are exactly the messages the server said,  *)
(* and none is lost at an orderly close: for any messages, any stream of   *)
(* them, and any way it is cut on its way to the framer.                   *)
(***************************************************************************)
EXTENDS InboundStream_proofs, FiniteSetTheorems

-----------------------------------------------------------------------------
(* The framer, wherever the network thread is in drain_link.               *)

\* What is between the server and the framer lies within what was said.
RangeInv ==
  /\ pushed <= read /\ read <= sent /\ sent <= Len(said.bytes)
  /\ \A k \in 1..Len(events) :
       events[k].kind = "data" => events[k].from <= events[k].to /\ events[k].to <= read

\* The messages among the first k items.
Before(k) == {j \in 1..k : said.items[j] \in Messages}

\* The first k items have been dealt with and line ends up to the byte p: the buffer holds the bytes
\* after it, and the messages among the items were handed over.
Position(p, k) ==
  /\ Between(said, k, p) /\ p <= pushed /\ buffer = Cut(said.bytes, p, pushed)
  /\ \A j \in 1..k : said.items[j] \notin Malformed
  /\ Len(handed) = Cardinality(Before(k))
  /\ \A j \in Before(k) : handed[Cardinality(Before(j))] = said.items[j]

FramerInv ==
  /\ handed \in Seq(Messages) /\ failed \in BOOLEAN
  /\ draining # "idle" => owner = "using"
  /\ failed => draining = "dropping" /\ \E k \in 1..Len(said.items) : said.items[k] \in Malformed
  /\ owner = "using" /\ ~failed => \E k \in 0..Len(said.items), p \in Nat : Position(p, k)
  /\ owner = "using" /\ draining = "idle" => HandedWithin(pushed)

LEMMA BeforeFacts ==
  ASSUME NEW k \in Nat
  PROVE  /\ IsFiniteSet(Before(k)) /\ Cardinality(Before(k)) \in Nat
         /\ \A j \in Before(k) : /\ j \in 1..k /\ Before(j) \subseteq Before(k) /\ Before(k) \cap 1..j = Before(j)
                                 /\ Cardinality(Before(j)) \in 1..Cardinality(Before(k))
<1>1. ASSUME NEW n \in Nat PROVE IsFiniteSet(Before(n)) /\ Cardinality(Before(n)) \in Nat
  <2>1. IsFiniteSet(1..n)
    BY FS_Interval
  <2>2. IsFiniteSet(Before(n))
    BY <2>1, FS_Subset DEF Before
  <2> QED BY <2>2, FS_CardinalityType
<1>2. ASSUME NEW j \in Before(k)
      PROVE  /\ j \in 1..k /\ Before(j) \subseteq Before(k) /\ Before(k) \cap 1..j = Before(j)
             /\ Cardinality(Before(j)) \in 1..Cardinality(Before(k))
  <2>1. j \in 1..k /\ j \in Before(j) /\ Before(j) \subseteq Before(k) /\ Before(k) \cap 1..j = Before(j)
    BY DEF Before
  <2>2. IsFiniteSet(Before(j)) /\ Cardinality(Before(j)) \in Nat /\ IsFiniteSet(Before(k)) /\ Cardinality(Before(k)) \in Nat
    BY <1>1, <2>1
  <2>3. Cardinality(Before(j)) <= Cardinality(Before(k))
    BY <2>1, <2>2, FS_Subset
  <2>4. Cardinality(Before(j)) # 0
    BY <2>1, <2>2, FS_EmptySet
  <2> QED BY <2>1, <2>2, <2>3, <2>4
<1> QED BY <1>1, <1>2

\* When every message that was given whole is among the items dealt with, they have been handed over.
LEMMA Settled ==
  ASSUME IsStream(said), NEW k \in 0..Len(said.items), NEW p \in Nat, Position(p, k), pushed \in Nat,
         \A j \in (k + 1)..Len(said.items) : j \in Sound /\ said.items[j] \in Messages => ~(said.ends[j] <= pushed)
  PROVE  HandedWithin(pushed)
<1>1. Len(said.items) \in Nat /\ k \in Nat
  BY StreamFacts
<1>2. MessagesWithin(pushed) = Before(k)
  <2>1. ASSUME NEW j \in MessagesWithin(pushed) PROVE j \in Before(k)
    <3>1. j \in 1..Len(said.items) /\ j \in Sound /\ said.items[j] \in Messages /\ said.ends[j] <= pushed
      BY DEF MessagesWithin, Sound
    <3>2. ~(j \in (k + 1)..Len(said.items))
      BY <3>1
    <3>3. j \in 1..k
      BY <1>1, <3>1, <3>2
    <3> QED BY <3>1, <3>3 DEF Before
  <2>2. ASSUME NEW j \in Before(k) PROVE j \in MessagesWithin(pushed)
    <3>1. j \in 1..k /\ said.items[j] \in Messages
      BY DEF Before
    <3>2. j \in 1..Len(said.items) /\ j \in 0..Len(said.items) /\ j <= k
      BY <1>1, <3>1
    <3>3. said.ends[j] <= said.ends[k] /\ said.ends[j] \in Nat /\ said.ends[k] \in Nat
      BY <3>2, StreamFacts
    <3>4. said.ends[j] <= pushed
      BY <3>3 DEF Position, Between
    <3>5. \A i \in 1..j : said.items[i] \notin Malformed
      BY <1>1, <3>1 DEF Position
    <3> QED BY <3>1, <3>2, <3>4, <3>5 DEF MessagesWithin, Sound
  <2> QED BY <2>1, <2>2, Zenon
<1>3. \A j \in Before(k) : Before(k) \cap 1..j = Before(j)
  BY <1>1, BeforeFacts, Zenon
<1>4. Len(handed) = Cardinality(Before(k)) /\ \A j \in Before(k) : handed[Cardinality(Before(j))] = said.items[j]
  BY DEF Position
<1>5. \A j \in Before(k) : handed[Cardinality(Before(k) \cap 1..j)] = said.items[j]
  BY <1>3, <1>4, Zenon
<1> QED BY <1>2, <1>4, <1>5, Zenon DEF HandedWithin

-----------------------------------------------------------------------------
LEMMA RangeStep ==
  ASSUME Inv, DeliveryInv, RangeInv, IsStream(said), [InboundNext]_<<vars, inboundVars>>
  PROVE  RangeInv'
<1> USE DEF RangeInv
<1>1. /\ pushed \in Nat /\ read \in Nat /\ sent \in Nat /\ events \in Seq(Event)
  BY AppleAssumption DEF Inv, TypeOK, DeliveryInv, InboxInv
<1>2. ASSUME UNCHANGED <<pushed, said>>, read <= read', read' <= sent', sent' <= Len(said.bytes), read' \in Nat,
             events' = events
      PROVE  RangeInv'
  <2>1. ASSUME NEW k \in 1..Len(events), events[k].kind = "data"
        PROVE  events[k].from <= events[k].to /\ events[k].to <= read'
    <3>1. events[k] \in Event
      BY <1>1, ElementOfSeq
    <3>2. events[k].to \in Nat
      BY <3>1, AppleAssumption DEF Event
    <3> QED BY <1>1, <1>2, <2>1, <3>2
  <2>2. pushed <= read'
    BY <1>1, <1>2
  <2> QED BY <1>2, <2>1, <2>2
<1>3. ASSUME UNCHANGED <<pushed, read, sent, said>>, NEW event \in Event, events' = Append(events, event),
             event.kind = "data" => event.from <= event.to /\ event.to <= read
      PROVE  RangeInv'
  <2>1. /\ Len(events) \in Nat /\ Len(events') = Len(events) + 1
        /\ \A k \in 1..Len(events) : events'[k] = events[k]
        /\ events'[Len(events) + 1] = event
    BY <1>1, <1>3, EventAdded
  <2>2. \A k \in 1..Len(events') : k \in 1..Len(events) \/ k = Len(events) + 1
    BY <2>1
  <2> QED BY <1>3, <2>1, <2>2
<1>4. CASE Framework /\ (\E k \in DOMAIN said.ends : sent' = said.ends[k]) /\ UNCHANGED inboundVars
  <2>1. UNCHANGED <<pushed, said, events>>
    BY <1>4 DEF Framework, ServerSends, ServerCloses, ReceiveCompletes, StateChanges, inboundVars, sharedVars
  <2>2. sent' <= Len(said.bytes)
    <3>1. DOMAIN said.ends = 0..Len(said.items)
      BY DEF IsStream, Adds
    <3> QED BY <1>4, <3>1, StreamFacts
  <2>3. read <= read' /\ read' <= sent' /\ read' \in Nat
    <3>1. CASE ServerSends
      <4>1. read' = read /\ sent' \in (sent + 1)..MaxBytes
        BY <3>1 DEF ServerSends
      <4> QED BY <1>1, <4>1, AppleAssumption
    <3>2. CASE ReceiveCompletes
      <4>1. sent' = sent /\ read' \in read..sent
        BY <3>2 DEF ReceiveCompletes
      <4> QED BY <1>1, <4>1
    <3>3. ASSUME ServerCloses \/ \E state \in {"waiting", "ready", "failed"} : StateChanges(state)
          PROVE  read <= read' /\ read' <= sent' /\ read' \in Nat
      <4>1. read' = read /\ sent' = sent
        BY <3>3 DEF ServerCloses, StateChanges
      <4> QED BY <1>1, <4>1
    <3> QED BY <1>4, <3>1, <3>2, <3>3 DEF Framework
  <2> QED BY <1>2, <2>1, <2>2, <2>3
<1>5. CASE Queue /\ UNCHANGED inboundVars
  <2>1. UNCHANGED <<pushed, said, read, sent>>
    BY <1>5 DEF Queue, StartBlock, CallbackReturns, NotifyConnected, NotifyData, Receive, Close, CancelConnection,
                frameworkVars, inboundVars
  <2>2. events' = events => RangeInv'
    BY <1>1, <1>2, <2>1
  <2>3. \A event \in Event : events' = Append(events, event) /\ event.kind # "data" => RangeInv'
    BY <1>3, <2>1
  <2>4. CASE StartBlock \/ CallbackReturns \/ Receive \/ CancelConnection
    BY <2>2, <2>4 DEF StartBlock, CallbackReturns, Receive, CancelConnection, sharedVars
  <2>5. CASE NotifyConnected
    <3>1. PICK event : event = Callback("connected", 0, 0)
      OBVIOUS
    <3>2. event \in Event /\ event.kind # "data"
      BY <3>1, AppleAssumption DEF Callback, Event
    <3>3. events' = events \/ events' = Append(events, event)
      BY <2>5, <3>1, Zenon DEF NotifyConnected, Notify
    <3> QED BY <2>2, <2>3, <3>2, <3>3
  <2>6. CASE Close
    <3>1. PICK reason \in CloseReasons : Notify(Callback(reason, 0, 0), "closed")
      BY <2>6 DEF Close
    <3>2. PICK event : event = Callback(reason, 0, 0)
      OBVIOUS
    <3>3. reason \in StreamErrors
      BY <3>1 DEF CloseReasons, StreamErrors
    <3>4. event \in Event /\ event.kind # "data"
      BY <3>2, <3>3, AppleAssumption DEF Callback, Event, StreamErrors
    <3>5. events' = events \/ events' = Append(events, event)
      BY <3>1, <3>2, Zenon DEF Notify
    <3> QED BY <2>2, <2>3, <3>4, <3>5
  <2>7. CASE NotifyData
    <3>1. PICK n \in (running.from + 1)..running.to : Notify(Callback("data", running.from, n), "connected")
      BY <2>7 DEF NotifyData
    <3>2. running.kind = "received"
      BY <2>7 DEF NotifyData
    <3>3. running \in Block
      BY <3>2, StateBlocks DEF Inv, TypeOK
    <3>4. CASE ~listener
      <4>1. events' = events
        BY <3>1, <3>4 DEF Notify
      <4> QED BY <2>2, <4>1
    <3>5. CASE listener
      <4>1. Holds(running)
        BY <3>2, <3>5 DEF DeliveryInv, ReceiveInv
      <4>2. PICK event : event = Callback("data", running.from, n)
        OBVIOUS
      <4>3. running.from \in 0..MaxBytes /\ running.to \in 0..MaxBytes /\ running.to = read
        BY <3>3, <4>1 DEF Block, Holds
      <4>4. n \in 0..MaxBytes /\ running.from <= n /\ n <= read
        BY <3>1, <4>3, AppleAssumption
      <4>5. event \in Event /\ event.from <= event.to /\ event.to <= read
        BY <4>2, <4>3, <4>4 DEF Callback, Event
      <4>6. events' = Append(events, event)
        BY <3>1, <3>5, <4>2 DEF Notify
      <4> QED BY <1>3, <2>1, <4>5, <4>6
    <3> QED BY <3>4, <3>5
  <2> QED BY <1>5, <2>4, <2>5, <2>6, <2>7 DEF Queue
<1>6. ASSUME events' = Tail(events), events # <<>>, UNCHANGED <<read, sent, said>>,
             pushed' = IF Head(events).kind = "data" THEN Head(events).to ELSE pushed
      PROVE  RangeInv'
  <2>1. /\ Len(events) \in Nat \ {0} /\ Head(events) = events[1]
        /\ Len(events') = Len(events) - 1 /\ \A k \in 1..Len(events') : events'[k] = events[k + 1]
    BY <1>1, <1>6, HeadTailProperties, LenProperties, EmptySeq
  <2>2. 1 \in 1..Len(events) /\ \A k \in 1..Len(events') : k + 1 \in 1..Len(events)
    BY <2>1
  <2>3. pushed' <= read
    BY <1>6, <2>1, <2>2
  <2> QED BY <1>6, <2>1, <2>2, <2>3
<1>7. ASSUME events' = <<>>, UNCHANGED <<pushed, read, sent, said>> PROVE RangeInv'
  <2>1. Len(events') = 0
    BY <1>7
  <2> QED BY <1>7, <2>1
<1>8. CASE DrainLink
  <2>1. UNCHANGED <<read, sent, said>> /\ events # <<>>
    BY <1>8 DEF DrainLink, TakeEvent, DropLink, Detach, frameworkVars
  <2>2. \/ events' = Tail(events) /\ pushed' = IF Head(events).kind = "data" THEN Head(events).to ELSE pushed
        \/ events' = <<>> /\ pushed' = pushed
    <3>1. \/ Head(events).kind = "connected" /\ events' = Tail(events) /\ pushed' = pushed
          \/ Head(events).kind = "data" /\ events' = Tail(events) /\ pushed' = Head(events).to
          \/ events' = <<>> /\ pushed' = pushed
      BY <1>8 DEF DrainLink, TakeEvent, DropLink
    <3> QED BY <3>1
  <2> QED BY <1>6, <1>7, <2>1, <2>2
<1>9. CASE Drop
  <2>1. events' = <<>> /\ UNCHANGED <<pushed, read, sent, said>>
    BY <1>9 DEF Drop, DropLink, Detach, frameworkVars
  <2> QED BY <1>7, <2>1
<1>10. CASE CutMessage \/ UNCHANGED <<vars, inboundVars>> \/ (DestroyCancels /\ UNCHANGED inboundVars)
  <2>1. UNCHANGED <<pushed, read, sent, said, events>>
    BY <1>10 DEF CutMessage, DestroyCancels, vars, inboundVars, frameworkVars, sharedVars
  <2> QED BY <1>1, <1>2, <2>1
<1> QED BY <1>4, <1>5, <1>8, <1>9, <1>10 DEF InboundNext, NetworkThread

-----------------------------------------------------------------------------
LEMMA CutOfCut ==
  ASSUME NEW S, NEW s \in Seq(S), NEW m \in Nat, NEW n \in Nat, m <= n, n <= Len(s), NEW i \in Nat, i <= n - m
  PROVE  Cut(Cut(s, m, n), i, n - m) = Cut(s, m + i, n)
<1>1. PICK c : c = Cut(s, m, n)
  OBVIOUS
<1>2. c \in Seq(S) /\ Len(c) = n - m /\ \A h \in 1..(n - m) : c[h] = s[m + h]
  BY <1>1, CutFacts, Zenon
<1>3. PICK l \in Nat, a \in Nat : l = n - m /\ a = m + i
  OBVIOUS
<1>4. /\ Cut(c, i, l) \in Seq(S) /\ Len(Cut(c, i, l)) = l - i
      /\ \A h \in 1..(l - i) : Cut(c, i, l)[h] = c[i + h]
  <2>1. i <= l /\ l <= Len(c)
    BY <1>2, <1>3
  <2>2. c \in Seq(S) /\ l \in Nat
    BY <1>2, <1>3
  <2> QED BY <2>1, <2>2, CutFacts, Zenon
<1>5. /\ Cut(s, a, n) \in Seq(S) /\ Len(Cut(s, a, n)) = n - a
      /\ \A h \in 1..(n - a) : Cut(s, a, n)[h] = s[a + h]
  <2>1. a <= n
    BY <1>3
  <2> QED BY <2>1, CutFacts, Zenon
<1>6. l - i = n - a /\ \A h \in 1..(n - a) : i + h \in 1..(n - m) /\ m + (i + h) = a + h
  BY <1>3
<1>7. \A h \in 1..(n - a) : Cut(c, i, l)[h] = Cut(s, a, n)[h]
  BY <1>2, <1>4, <1>5, <1>6, Zenon
<1>8. Cut(c, i, l) = Cut(s, a, n)
  BY <1>4, <1>5, <1>6, <1>7, SeqEqual, Zenon
<1> QED BY <1>1, <1>3, <1>8

\* After the line ends the framer skips, it looks at the bytes after them.
LEMMA SkipsLineEnds ==
  ASSUME IsStream(said), NEW k \in 0..Len(said.items), NEW p \in Nat, Position(p, k),
         pushed \in Nat, pushed <= Len(said.bytes)
  PROVE  \E q \in Nat : /\ Between(said, k, q) /\ q <= pushed /\ Framer!Rest = Cut(said.bytes, q, pushed)
                        /\ q < pushed => said.bytes[q + 1] \notin {Framer!CR, Framer!LF}
<1>1. said.bytes \in Seq(Framer!Symbols) /\ p <= pushed /\ buffer = Cut(said.bytes, p, pushed)
  BY StreamFacts, Zenon DEF Position
<1>2. buffer \in Seq(Framer!Symbols) /\ Len(buffer) = pushed - p /\ \A i \in 1..(pushed - p) : buffer[i] = said.bytes[p + i]
  BY <1>1, CutFacts, Zenon
<1>3. PICK n \in 0..Len(buffer) :
        /\ Framer!MessageStart(buffer) = n + 1
        /\ \A i \in 1..n : buffer[i] \in {Framer!CR, Framer!LF}
        /\ n < Len(buffer) => buffer[n + 1] \notin {Framer!CR, Framer!LF}
  BY <1>2, StartIs, Zenon
<1>4. PICK q \in Nat : q = p + n
  BY <1>2
<1>5. n \in Nat /\ n <= pushed - p /\ q <= pushed /\ p <= q
  BY <1>1, <1>2, <1>4
<1>6. Framer!Rest = Cut(said.bytes, q, pushed)
  <2>1. Framer!Rest = Cut(buffer, n, pushed - p)
    BY <1>2, <1>3, Zenon DEF Framer!Rest, Cut
  <2> QED BY <1>1, <1>4, <1>5, <2>1, CutOfCut
<1>7. Between(said, k, q)
  <2>1. said.ends[k] \in Nat /\ said.ends[k] <= p
    BY StreamFacts, Zenon DEF Position, Between
  <2>2. ASSUME NEW i \in Nat, said.ends[k] < i, i <= q PROVE said.bytes[i] \in {Framer!CR, Framer!LF}
    <3>1. CASE i <= p
      BY <2>2, <3>1, Zenon DEF Position, Between
    <3>2. CASE ~(i <= p)
      <4>1. PICK h \in 1..n : i = p + h
        <5>1. i - p \in 1..n /\ i = p + (i - p)
          BY <1>4, <1>5, <2>2, <3>2
        <5> QED BY <5>1
      <4>2. h \in 1..(pushed - p)
        BY <1>5
      <4> QED BY <1>2, <1>3, <4>1, <4>2, Zenon
    <3> QED BY <3>1, <3>2
  <2> QED BY <1>5, <2>1, <2>2 DEF Between
<1>8. q < pushed => said.bytes[q + 1] \notin {Framer!CR, Framer!LF}
  <2> SUFFICES ASSUME q < pushed PROVE said.bytes[q + 1] \notin {Framer!CR, Framer!LF}
    BY Zenon
  <2>1. n < Len(buffer) /\ n + 1 \in 1..(pushed - p) /\ p + (n + 1) = q + 1
    BY <1>1, <1>2, <1>4, <1>5
  <2> QED BY <1>2, <1>3, <2>1, Zenon
<1> QED BY <1>5, <1>6, <1>7, <1>8, Zenon

\* One turn of drain_link's loop around next().
LEMMA CutStep ==
  ASSUME IsStream(said), FramerInv, pushed \in Nat, pushed <= Len(said.bytes), CutMessage
  PROVE  FramerInv'
<1>1. /\ draining = "cutting" /\ owner = "using" /\ UNCHANGED <<owner, said, pushed>>
      /\ failed = FALSE /\ handed \in Seq(Messages)
  BY Zenon DEF CutMessage, FramerInv, vars
<1>2. PICK k \in 0..Len(said.items), p \in Nat : Position(p, k)
  BY <1>1 DEF FramerInv
<1>3. PICK q \in Nat : /\ Between(said, k, q) /\ q <= pushed /\ Framer!Rest = Cut(said.bytes, q, pushed)
                       /\ q < pushed => said.bytes[q + 1] \notin {Framer!CR, Framer!LF}
  BY <1>2, SkipsLineEnds, Zenon
<1>4. PICK rest : rest = Cut(said.bytes, q, pushed)
  OBVIOUS
<1>5. PICK next : /\ next = Framer!Next(rest, Framer!HeadEnds(rest))
                  /\ buffer' = next.buffer /\ failed' = next.failed /\ Hand(next.message)
  BY <1>3, <1>4, Zenon DEF CutMessage
<1>6. rest \in Seq(Framer!Symbols) /\ Len(rest) = pushed - q /\ \A i \in 1..(pushed - q) : rest[i] = said.bytes[q + i]
  <2>1. said.bytes \in Seq(Framer!Symbols)
    BY StreamFacts
  <2> QED BY <1>3, <1>4, <2>1, CutFacts, ZenonT(40)
<1>7. Len(said.items) \in Nat /\ k \in Nat /\ Len(said.bytes) \in Nat
  BY StreamFacts
<1>8. \A n : Before(n)' = Before(n)
  BY <1>1 DEF Before
<1>9. \A n : HandedWithin(n) /\ handed' = handed => HandedWithin(n)'
  BY <1>1, Zenon DEF HandedWithin, MessagesWithin, Sound
<1>10. ASSUME next.buffer = rest, handed' = handed PROVE Position(q, k)'
  BY <1>1, <1>2, <1>3, <1>4, <1>5, <1>8, <1>10, Zenon DEF Position
<1>11. ASSUME next = [buffer |-> rest, failed |-> FALSE, message |-> <<>>],
              \A j \in (k + 1)..Len(said.items) : j \in Sound /\ said.items[j] \in Messages => ~(said.ends[j] <= pushed)
       PROVE  FramerInv'
  <2>1. next.buffer = rest /\ next.failed = FALSE /\ next.message = <<>>
    BY <1>11, Zenon
  <2>2. failed' = FALSE /\ handed' = handed /\ draining' = "idle"
    BY <1>5, <2>1, Zenon DEF Hand
  <2>3. Position(q, k)'
    BY <1>10, <2>1, <2>2, Zenon
  <2>4. HandedWithin(pushed)
    BY <1>2, <1>11, Settled, Zenon
  <2>5. HandedWithin(pushed)'
    BY <1>1, <1>9, <2>2, <2>4
  <2> QED BY <1>1, <2>2, <2>3, <2>5, Zenon DEF FramerInv
<1>12. CASE q = pushed
  <2>1. Len(rest) = 0 /\ rest = <<>>
    BY <1>6, <1>12, EmptySeq
  <2>2. Framer!HeadEnds(rest) = {}
    BY <2>1 DEF Framer!HeadEnds
  <2>3. Framer!Broken(rest, Framer!HeadEnds(rest)) = FALSE
    BY <2>1, <2>2, StreamAssumption DEF Framer!Broken
  <2>4. next = [buffer |-> rest, failed |-> FALSE, message |-> <<>>]
    BY <1>1, <1>5, <2>2, <2>3, Zenon DEF Framer!Next
  <2>5. ASSUME NEW j \in (k + 1)..Len(said.items), said.items[j] \in Messages PROVE ~(said.ends[j] <= pushed)
    <3>1. q <= said.ends[j - 1] /\ said.ends[j - 1] < said.ends[j]
      BY <1>3, <2>5, NoneBetween, Zenon
    <3>2. j \in 0..Len(said.items) /\ j - 1 \in 0..Len(said.items)
      BY <1>7
    <3>3. said.ends[j] \in Nat /\ said.ends[j - 1] \in Nat
      BY <3>2, StreamFacts, Zenon
    <3> QED BY <1>12, <3>1, <3>3
  <2> QED BY <1>11, <2>4, <2>5
<1>13. CASE q < pushed
  <2>1. PICK j \in (k + 1)..Len(said.items) :
          /\ said.ends[j - 1] = q /\ said.items[j] \in Messages \cup Malformed
          /\ \A i \in (k + 1)..(j - 1) : said.items[i] \notin Messages \cup Malformed
    <3>1. q < Len(said.bytes)
      BY <1>7, <1>13
    <3> QED BY <1>3, <1>13, <3>1, OneAfter
  <2>2. j \in 1..Len(said.items) /\ j \in 0..Len(said.items) /\ j \in Nat /\ k < j
    BY <1>7
  <2>3. PICK item \in Item : item = said.items[j]
    BY <2>2, StreamFacts, Zenon
  <2>4. item \in Seq(Framer!Symbols) /\ Len(item) \in Nat /\ said.ends[j] = q + Len(item) /\ item \in Messages \cup Malformed
    BY <2>1, <2>2, <2>3, StreamFacts, ItemFacts, Zenon
  <2>5. Agree(rest, item)
    <3> SUFFICES ASSUME NEW i \in Nat \ {0}, i <= Len(rest), i <= Len(item) PROVE rest[i] = item[i]
      BY DEF Agree
    <3>1. i \in 1..(pushed - q) /\ i \in 1..Len(said.items[j])
      BY <1>6, <2>3, <2>4
    <3>2. said.bytes[said.ends[j - 1] + i] = said.items[j][i]
      BY <2>2, <3>1, Zenon DEF IsStream
    <3> QED BY <1>6, <2>1, <2>3, <3>1, <3>2, Zenon
  <2>6. ASSUME NEW i \in (k + 1)..Len(said.items), said.items[i] \in Messages PROVE i >= j /\ said.ends[j] <= said.ends[i]
    <3>1. ~(i \in (k + 1)..(j - 1)) /\ i \in 0..Len(said.items)
      BY <1>7, <2>1, <2>6
    <3>2. i >= j
      BY <1>7, <2>2, <3>1
    <3> QED BY <2>2, <3>1, <3>2, StreamFacts
  <2>7. CASE item \in Messages /\ Len(item) <= Len(rest)
    <3>1. next = [buffer |-> Cut(rest, Len(item), Len(rest)), failed |-> FALSE, message |-> item]
      BY <1>1, <1>5, <1>6, <2>4, <2>5, <2>7, ItemFacts, NextCutsMessage, Zenon
    <3>2. item # <<>>
      BY <2>4, ItemFacts
    <3>3. /\ buffer' = Cut(rest, Len(item), Len(rest)) /\ failed' = FALSE
          /\ handed' = Append(handed, item) /\ draining' = draining
      <4>1. next.buffer = Cut(rest, Len(item), Len(rest)) /\ next.failed = FALSE /\ next.message = item
        BY <3>1, Zenon
      <4> QED BY <1>5, <3>2, <4>1, Zenon DEF Hand
    <3>4. PICK e \in Nat : e = said.ends[j] /\ e = q + Len(item) /\ e <= pushed
      BY <1>6, <2>4, <2>7
    <3>5. buffer' = Cut(said.bytes, e, pushed)
      <4>1. said.bytes \in Seq(Framer!Symbols) /\ Len(item) <= pushed - q
        BY <1>6, <2>7, StreamFacts, Zenon
      <4> QED BY <1>3, <1>4, <1>6, <2>4, <3>3, <3>4, <4>1, CutOfCut
    <3>6. Between(said, j, e)
      BY <3>4 DEF Between
    <3>7. \A i \in 1..j : said.items[i] \notin Malformed
      <4>1. ASSUME NEW i \in 1..j PROVE said.items[i] \notin Malformed
        <5>1. i \in 1..k \/ i \in (k + 1)..(j - 1) \/ i = j
          BY <1>7, <2>2
        <5>2. item \notin Malformed
          BY <2>7, ItemFacts
        <5> QED BY <1>2, <2>1, <2>3, <5>1, <5>2, Zenon DEF Position
      <4> QED BY <4>1
    <3>8. Before(j) = Before(k) \cup {j} /\ j \notin Before(k)
      <4>1. \A i \in 1..j : i \in 1..k \/ i \in (k + 1)..(j - 1) \/ i = j
        BY <1>7, <2>2
      <4>2. 1..k \subseteq 1..j /\ j \in 1..j /\ j \notin 1..k
        BY <1>7, <2>2
      <4> QED BY <2>1, <2>3, <2>7, <4>1, <4>2, Zenon DEF Before
    <3>9. IsFiniteSet(Before(k)) /\ Cardinality(Before(k)) \in Nat
      BY <1>7, BeforeFacts
    <3>10. Cardinality(Before(j)) = Cardinality(Before(k)) + 1
      BY <3>8, <3>9, FS_AddElement, Zenon
    <3>11. PICK n \in Nat : n = Len(handed) /\ n = Cardinality(Before(k)) /\ Cardinality(Before(j)) = n + 1
      BY <1>2, <3>9, <3>10, Zenon DEF Position
    <3>12. /\ handed' \in Seq(Messages) /\ Len(handed') = n + 1 /\ handed'[n + 1] = item
           /\ \A i \in 1..n : handed'[i] = handed[i]
      <4>1. /\ handed' \in Seq(Messages) /\ Len(handed') = Len(handed) + 1 /\ handed'[Len(handed) + 1] = item
            /\ \A i \in 1..Len(handed) : handed'[i] = handed[i]
        <5>1. item \in Messages
          BY <2>7
        <5> QED BY <1>1, <3>3, <5>1, AppendProperties
      <4> QED BY <3>11, <4>1, Zenon
    <3>13. ASSUME NEW i \in Before(j) PROVE handed'[Cardinality(Before(i))] = said.items[i]
      <4>1. CASE i \in Before(k)
        <5>1. Cardinality(Before(i)) \in 1..n
          BY <1>7, <3>11, <4>1, BeforeFacts
        <5>2. handed[Cardinality(Before(i))] = said.items[i]
          BY <1>2, <4>1, Zenon DEF Position
        <5> QED BY <3>12, <5>1, <5>2, Zenon
      <4>2. CASE i = j
        BY <2>3, <3>11, <3>12, <4>2, Zenon
      <4> QED BY <3>8, <4>1, <4>2, Zenon
    <3>14. Position(e, j)'
      BY <1>1, <1>8, <3>4, <3>5, <3>6, <3>7, <3>11, <3>12, <3>13, Zenon DEF Position
    <3> QED BY <1>1, <2>2, <3>3, <3>12, <3>14, Zenon DEF FramerInv
  <2>8. CASE item \in Messages /\ Len(rest) < Len(item)
    <3>1. next = [buffer |-> rest, failed |-> FALSE, message |-> <<>>]
      BY <1>1, <1>5, <1>6, <2>4, <2>5, <2>8, ItemFacts, NextKeepsPart, Zenon
    <3>2. ~(said.ends[j] <= pushed)
      BY <1>6, <2>4, <2>8
    <3>3. ASSUME NEW i \in (k + 1)..Len(said.items), said.items[i] \in Messages PROVE ~(said.ends[i] <= pushed)
      <4>1. said.ends[j] <= said.ends[i]
        BY <2>6, <3>3
      <4>2. i \in 0..Len(said.items)
        BY <1>7
      <4>3. said.ends[i] \in Nat /\ said.ends[j] \in Nat
        BY <2>2, <4>2, StreamFacts, Zenon
      <4> QED BY <3>2, <4>1, <4>3
    <3> QED BY <1>11, <3>1, <3>3, Zenon
  <2>9. CASE item \in Malformed
    <3>1. PICK broken \in BOOLEAN : next = [buffer |-> rest, failed |-> broken, message |-> <<>>]
      BY <1>1, <1>5, <1>6, <2>4, <2>5, <2>9, ItemFacts, NextRefuses, Zenon
    <3>2. ASSUME NEW i \in (k + 1)..Len(said.items), said.items[i] \in Messages PROVE i \notin Sound
      <4>1. j \in 1..i
        BY <2>2, <2>6, <3>2
      <4> QED BY <2>3, <2>9, <4>1, Zenon DEF Sound
    <3>3. CASE broken = FALSE
      BY <1>11, <3>1, <3>2, <3>3, Zenon
    <3>4. CASE broken = TRUE
      <4>1. next.buffer = rest /\ next.failed = TRUE /\ next.message = <<>>
        BY <3>1, <3>4
      <4>2. failed' = TRUE /\ handed' = handed /\ draining' = "dropping"
        <5>1. failed' = TRUE /\ Hand(<<>>)
          BY <1>5, <4>1, Zenon
        <5> QED BY ONLY <5>1, Zenon DEF Hand
      <4> QED BY <1>1, <2>2, <2>3, <2>9, <4>2, Zenon DEF FramerInv
    <3> QED BY <3>3, <3>4, Zenon
  <2>10. Len(item) <= Len(rest) \/ Len(rest) < Len(item)
    BY <1>6, <2>4
  <2> QED BY <2>4, <2>7, <2>8, <2>9, <2>10, Zenon
<1> QED BY <1>3, <1>12, <1>13

\* The rest of what the network thread does: a data event goes on where the framer is.
LEMMA DrainStep ==
  ASSUME IsStream(said), FramerInv, Inv, DeliveryInv, RangeInv, DrainLink
  PROVE  FramerInv'
<1>1. /\ owner = "using" /\ draining = "idle" /\ events # <<>> /\ UNCHANGED <<said, handed>>
      /\ failed = FALSE /\ handed \in Seq(Messages)
  BY Zenon DEF DrainLink, FramerInv
<1>2. pushed \in Nat /\ read \in Nat /\ sent \in Nat /\ Len(said.bytes) \in Nat /\ events \in Seq(Event)
  BY AppleAssumption, StreamFacts DEF Inv, TypeOK, DeliveryInv, InboxInv
<1>3. PICK k \in 0..Len(said.items), p \in Nat : Position(p, k)
  BY <1>1, Zenon DEF FramerInv
<1>4. \A n : Before(n)' = Before(n)
  BY <1>1, Zenon DEF Before
<1>5. CASE Head(events).kind = "connected" /\ TakeEvent /\ UNCHANGED <<buffer, failed, draining, pushed>>
  <2>1. UNCHANGED owner
    BY <1>5 DEF TakeEvent
  <2>2. Position(p, k)'
    BY <1>1, <1>3, <1>4, <1>5, Zenon DEF Position
  <2>3. HandedWithin(pushed)'
    BY <1>1, <1>5, Zenon DEF FramerInv, HandedWithin, MessagesWithin, Sound
  <2> QED BY <1>1, <1>5, <2>1, <2>2, <2>3, Zenon DEF FramerInv
<1>6. CASE Head(events).kind = "data" /\ TakeEvent
           /\ Framer!Push(SubSeq(said.bytes, Head(events).from + 1, Head(events).to))
           /\ draining' = "cutting" /\ pushed' = Head(events).to
  <2>1. Head(events) = events[1] /\ 1 \in 1..Len(events) /\ events[1] \in Event
    BY <1>1, <1>2, HeadTailProperties, LenProperties, EmptySeq
  <2>2. events[1].from = pushed
    <3>1. events[1].from = At(1 - 1)
      BY <1>6, <2>1, Zenon DEF DeliveryInv, InboxInv
    <3> QED BY <3>1 DEF At
  <2>3. PICK n \in Nat : n = Head(events).to /\ pushed <= n /\ n <= Len(said.bytes)
    <3>1. events[1].to \in Nat /\ events[1].from <= events[1].to /\ events[1].to <= read
      BY <1>6, <2>1, AppleAssumption DEF RangeInv, Event
    <3> QED BY <1>2, <2>1, <2>2, <3>1 DEF RangeInv
  <2>4. said.bytes \in Seq(Framer!Symbols) /\ p <= pushed /\ buffer = Cut(said.bytes, p, pushed)
    BY <1>3, StreamFacts, Zenon DEF Position
  <2>5. buffer' = Cut(said.bytes, p, pushed) \o Cut(said.bytes, pushed, n) /\ failed' = FALSE
    BY <1>1, <1>6, <2>1, <2>2, <2>3, <2>4, Zenon DEF Framer!Push, Cut
  <2>6. Cut(said.bytes, p, pushed) \o Cut(said.bytes, pushed, n) = Cut(said.bytes, p, n)
    <3>1. PICK m \in 1..(Len(said.bytes) + 1) : m = p + 1
      BY <1>2, <2>3, <2>4
    <3>2. pushed \in (m - 1)..Len(said.bytes) /\ n \in pushed..Len(said.bytes)
      BY <1>2, <2>3, <2>4, <3>1
    <3>3. SubSeq(said.bytes, m, pushed) \o SubSeq(said.bytes, pushed + 1, n) = SubSeq(said.bytes, m, n)
      BY <2>4, <3>1, <3>2, ConcatAdjacentSubSeq, Zenon
    <3> QED BY <3>1, <3>3, Zenon DEF Cut
  <2>7. p <= n /\ pushed' = n
    BY <1>2, <1>6, <2>3, <2>4
  <2>8. Position(p, k)'
    BY <1>1, <1>3, <1>4, <2>5, <2>6, <2>7, Zenon DEF Position
  <2>9. UNCHANGED owner
    BY <1>6, Zenon DEF TakeEvent
  <2> QED BY <1>1, <1>6, <2>5, <2>8, <2>9, Zenon DEF FramerInv
<1>7. CASE DropLink /\ UNCHANGED <<draining, pushed>>
  <2>1. owner' = "cancelling" /\ failed' = FALSE /\ draining' = "idle"
    BY <1>1, <1>7 DEF DropLink, Detach, Framer!Reset
  <2> QED BY <1>1, <2>1, Zenon DEF FramerInv
<1> QED BY <1>5, <1>6, <1>7, Zenon DEF DrainLink

LEMMA FramerKept ==
  ASSUME FramerInv, UNCHANGED inboundVars, owner' = "using" => owner = "using", draining # "idle" => owner' = owner
  PROVE  FramerInv'
<1>1. UNCHANGED <<said, buffer, failed, draining, pushed, handed>>
  BY DEF inboundVars
<1>2. \A k, p : Position(p, k)' <=> Position(p, k)
  BY <1>1, Zenon DEF Position, Before
<1>3. HandedWithin(pushed)' <=> HandedWithin(pushed)
  BY <1>1, Zenon DEF HandedWithin, MessagesWithin, Sound
<1> QED BY <1>1, <1>2, <1>3, Zenon DEF FramerInv

LEMMA FramerStep ==
  ASSUME IsStream(said), FramerInv, Inv, DeliveryInv, RangeInv, [InboundNext]_<<vars, inboundVars>>
  PROVE  FramerInv' /\ IsStream(said)'
<1>1. said' = said
  BY Zenon DEF InboundNext, NetworkThread, DrainLink, CutMessage, Drop, inboundVars
<1>2. CASE (Queue \/ Framework \/ UNCHANGED vars) /\ UNCHANGED inboundVars
  <2>1. UNCHANGED owner
    BY <1>2, Zenon DEF Queue, StartBlock, CallbackReturns, NotifyConnected, NotifyData, Receive, Close, CancelConnection,
                Framework, ServerSends, ServerCloses, ReceiveCompletes, StateChanges, vars
  <2> QED BY <1>1, <1>2, <2>1, FramerKept
<1>3. CASE DestroyCancels /\ UNCHANGED inboundVars
  <2>1. draining = "idle" /\ owner' = "gone"
    BY <1>3, Zenon DEF DestroyCancels, FramerInv
  <2> QED BY <1>1, <1>3, <2>1, FramerKept
<1>4. CASE CutMessage
  <2>1. pushed \in Nat /\ pushed <= Len(said.bytes)
    <3>1. pushed \in Nat /\ read \in Nat /\ sent \in Nat /\ Len(said.bytes) \in Nat
      BY AppleAssumption, StreamFacts DEF Inv, TypeOK, DeliveryInv, InboxInv
    <3> QED BY <3>1 DEF RangeInv
  <2> QED BY <1>1, <1>4, <2>1, CutStep
<1>5. CASE Drop
  <2>1. owner' = "cancelling" /\ failed' = FALSE /\ draining' = "idle" /\ handed' = handed
    BY <1>5, Zenon DEF Drop, DropLink, Detach, Framer!Reset
  <2> QED BY <1>1, <2>1, Zenon DEF FramerInv
<1> QED BY <1>1, <1>2, <1>3, <1>4, <1>5, DrainStep, Zenon DEF InboundNext, NetworkThread

LEMMA InitFramer == InboundInit => IsStream(said) /\ RangeInv /\ FramerInv
<1> SUFFICES ASSUME InboundInit PROVE IsStream(said) /\ RangeInv /\ FramerInv
  OBVIOUS
<1>1. IsStream(said)
  <2>1. PICK items \in Streams : said = Say(items)
    BY DEF InboundInit
  <2>2. items \in Seq(Item)
    BY StreamAssumption DEF Item
  <2> QED BY <2>1, <2>2, SaysStream
<1>2. /\ sent = 0 /\ read = 0 /\ pushed = 0 /\ handed = <<>> /\ buffer = <<>> /\ failed = FALSE /\ draining = "idle"
      /\ Len(events) = 0 /\ owner = "using"
  BY DEF InboundInit, Init, Framer!FramerInit
<1>3. Len(said.items) \in Nat /\ Len(said.bytes) \in Nat /\ said.bytes \in Seq(Framer!Symbols) /\ said.ends[0] = 0
  BY <1>1, StreamFacts, Zenon DEF IsStream, Adds
<1>4. RangeInv
  BY <1>2, <1>3 DEF RangeInv
<1>5. Position(0, 0)
  <2>1. Before(0) = {} /\ Cardinality(Before(0)) = 0
    BY FS_EmptySet DEF Before
  <2>2. Cut(said.bytes, 0, 0) = <<>>
    <3>1. PICK z \in Nat : z = 0 /\ z <= z /\ z <= Len(said.bytes)
      BY <1>3
    <3>2. Cut(said.bytes, z, z) \in Seq(Framer!Symbols) /\ Len(Cut(said.bytes, z, z)) = z - z
      <4>1. said.bytes \in Seq(Framer!Symbols) /\ z \in Nat /\ z <= z /\ z <= Len(said.bytes)
        BY <1>3, <3>1
      <4> QED BY ONLY <4>1, CutFacts, Zenon
    <3>3. Len(Cut(said.bytes, z, z)) = 0
      BY <3>1, <3>2
    <3> QED BY <3>1, <3>2, <3>3, EmptySeq
  <2>3. Between(said, 0, 0)
    BY <1>3 DEF Between
  <2> QED BY <1>2, <2>1, <2>2, <2>3 DEF Position
<1>6. 0 \in 0..Len(said.items) /\ 0 \in Nat
  BY <1>3
<1>7. HandedWithin(pushed)
  <2>1. ASSUME NEW j \in (0 + 1)..Len(said.items), said.items[j] \in Messages PROVE ~(said.ends[j] <= pushed)
    <3>1. Between(said, 0, 0)
      BY <1>5 DEF Position
    <3>2. 0 <= said.ends[j - 1] /\ said.ends[j - 1] < said.ends[j]
      BY <1>1, <1>6, <2>1, <3>1, NoneBetween, Zenon
    <3>3. j \in 0..Len(said.items) /\ j - 1 \in 0..Len(said.items)
      BY <1>3
    <3>4. said.ends[j] \in Nat /\ said.ends[j - 1] \in Nat
      BY <1>1, <3>3, StreamFacts, Zenon
    <3> QED BY <1>2, <3>2, <3>4
  <2>2. pushed \in Nat
    BY <1>2
  <2> QED BY <1>1, <1>5, <1>6, <2>1, <2>2, Settled, Zenon
<1>8. FramerInv
  <2>1. handed \in Seq(Messages)
    BY <1>2
  <2>3. failed \in BOOLEAN
    BY <1>2, Zenon
  <2>2. \E k \in 0..Len(said.items), p \in Nat : Position(p, k)
    BY <1>5, <1>6, Zenon
  <2> QED BY <1>2, <1>7, <2>1, <2>2, <2>3, Zenon DEF FramerInv
<1> QED BY <1>1, <1>4, <1>8

LEMMA FramerAlways == InboundSpec => [](DeliveryInv /\ FramerInv)
<1>1. InboundInit => Inv /\ DeliveryInv /\ IsStream(said) /\ RangeInv /\ FramerInv
  BY InitInv, InitDelivery, InitFramer DEF InboundInit
<1>2. Inv /\ DeliveryInv /\ IsStream(said) /\ RangeInv /\ FramerInv /\ [InboundNext]_<<vars, inboundVars>>
        => Inv' /\ DeliveryInv' /\ IsStream(said)' /\ RangeInv' /\ FramerInv'
  BY StepsOfConnection, StepKeepsInv, DeliveryStep, RangeStep, FramerStep, Zenon
<1> QED BY <1>1, <1>2, PTL DEF InboundSpec

\* For any messages, any stream of them with keep-alives and malformed ones among them, and any way
\* the framework and the regions of its data cut the stream: whenever drain_link (engine.cpp) has
\* emptied the framer, the user agent was given exactly the messages that have arrived whole, in
\* order, and StreamFramer::next gives up only where something malformed was said.
THEOREM MessagesAreExact == InboundSpec => []MessagesExact
<1>1. FramerInv => MessagesExact
  BY Zenon DEF FramerInv, MessagesExact
<1> QED BY <1>1, FramerAlways, PTL

\* So nothing the server said before an orderly close is lost, whatever it said: when drop_link comes
\* to the on_closed of a connection that did not fail, every message sent was handed to the user agent.
THEOREM NothingLost == InboundSpec => []NothingLostAtClose
<1>1. DeliveryInv /\ PushedAtClose /\ MessagesExact => NothingLostAtClose
  <2> SUFFICES ASSUME DeliveryInv, PushedAtClose, MessagesExact, draining = "idle", events # <<>>,
                      Head(events).kind = "Closed", nw = "ready"
               PROVE  HandedWithin(sent)
    BY DEF NothingLostAtClose
  <2>1. owner = "using" /\ pushed = sent
    BY DEF DeliveryInv, InboxInv, PushedAtClose
  <2> QED BY <2>1 DEF MessagesExact
<1> QED BY <1>1, DeliveryAlways, EverythingPushed, MessagesAreExact, PTL
=============================================================================
