------------------------ MODULE InboundStream_proofs ------------------------
(***************************************************************************)
(* AppleTls keeps the contract of tls_transport.hpp, alone and with the    *)
(* engine's inbox, and on the way from the server to the framer no byte is *)
(* lost, repeated or overtaken by an on_closed: for any number of bytes    *)
(* and any order of state changes, receives, cancels and the destructor.   *)
(* Then, without any state, what StreamFramer cuts from the texts a server *)
(* may have said.                                                          *)
(***************************************************************************)
EXTENDS InboundStream, SequenceTheorems, WellFoundedInduction, TLAPS

Queued(kind) == \E i \in 1..Len(blocks) : blocks[i].kind = kind

\* The listener is only set while the connection is used and has not closed, and a callback is only
\* under way while it is used.
ListenerInv ==
  /\ listener \in BOOLEAN /\ inside \in BOOLEAN
  /\ listener => owner = "using" /\ heard # "closed"
  /\ inside => owner = "using"

\* The connection becomes ready once, and nothing is received before the listener heard of it.
ReadyInv ==
  /\ nw \in {"preparing", "waiting"} => running.kind # "ready" /\ ~Queued("ready")
  /\ nw \in {"preparing", "waiting"} \/ running.kind = "ready" \/ Queued("ready")
       => (listener => heard = "nothing")
  /\ running.kind = "ready" => ~Queued("ready")
  /\ \A i, j \in 1..Len(blocks) : blocks[i].kind = "ready" /\ blocks[j].kind = "ready" => i = j
  /\ receiving \/ running.kind = "received" \/ Queued("received") => (listener => heard = "connected")

Inv == TypeOK /\ ListenerInv /\ ReadyInv

-----------------------------------------------------------------------------
\* A block put on the queue comes after the others.
LEMMA BlockAdded ==
  ASSUME NEW block \in Block, blocks \in Seq(Block), blocks' = Append(blocks, block)
  PROVE  /\ blocks' \in Seq(Block)
         /\ Len(blocks') = Len(blocks) + 1 /\ Len(blocks) \in Nat
         /\ \A i \in 1..Len(blocks) : blocks'[i] = blocks[i]
         /\ blocks'[Len(blocks) + 1] = block
  BY AppendProperties, LenProperties

\* The block that is taken from the queue was its first.
LEMMA BlockTaken ==
  ASSUME blocks \in Seq(Block), blocks # <<>>, blocks' = Tail(blocks)
  PROVE  /\ blocks' \in Seq(Block) /\ Len(blocks) \in Nat \ {0}
         /\ Head(blocks) \in Block /\ Head(blocks) = blocks[1]
         /\ Len(blocks') = Len(blocks) - 1
         /\ \A i \in 1..Len(blocks') : blocks'[i] = blocks[i + 1]
  BY HeadTailProperties, LenProperties, EmptySeq

\* A block of the state handler carries no bytes.
LEMMA StateBlocks ==
  /\ NoBlock.kind = "none"
  /\ \A kind \in {"ready", "down", "received", "cancel"} :
       StateBlock(kind) \in Block /\ StateBlock(kind).kind = kind
  BY AppleAssumption DEF StateBlock, NoBlock, Block

LEMMA InitInv == Init => Inv
<1> SUFFICES ASSUME Init PROVE Inv
  OBVIOUS
<1>1. TypeOK
  BY AppleAssumption DEF Init, TypeOK
<1>2. ListenerInv
  BY Zenon DEF Init, ListenerInv
<1>3. Len(blocks) = 0 /\ running.kind = "none" /\ receiving = FALSE /\ heard = "nothing"
  BY StateBlocks DEF Init
<1>4. ReadyInv
  BY <1>3 DEF ReadyInv, Queued
<1> QED BY <1>1, <1>2, <1>4 DEF Inv

LEMMA FrameworkKeeps ==
  ASSUME Inv, Framework
  PROVE  Inv'
<1> USE DEF Inv
<1>1. CASE ServerSends
  BY <1>1, AppleAssumption DEF ServerSends, sharedVars, TypeOK, ListenerInv, ReadyInv, Queued
<1>2. CASE ServerCloses
  BY <1>2 DEF ServerCloses, sharedVars, TypeOK, ListenerInv, ReadyInv, Queued
<1>3. CASE ReceiveCompletes
  <2>1. PICK to \in read..sent, ends \in BOOLEAN :
          /\ blocks' = Append(blocks, [kind |-> "received", from |-> read, to |-> to, ends |-> ends])
          /\ read' = to
    BY <1>3 DEF ReceiveCompletes
  <2> DEFINE block == [kind |-> "received", from |-> read, to |-> to, ends |-> ends]
  <2>2. block \in Block /\ block.kind = "received" /\ read' \in 0..MaxBytes
    BY <2>1, AppleAssumption DEF TypeOK, Block
  <2>3. receiving /\ ~receiving' /\ UNCHANGED <<nw, sent, running, listener, inside, heard, owner>>
    BY <1>3 DEF ReceiveCompletes, sharedVars
  <2> HIDE DEF block
  <2>4. /\ blocks' \in Seq(Block) /\ Len(blocks') = Len(blocks) + 1 /\ Len(blocks) \in Nat
        /\ \A i \in 1..Len(blocks) : blocks'[i] = blocks[i]
        /\ blocks'[Len(blocks) + 1] = block
    BY <2>1, <2>2, BlockAdded DEF TypeOK, block
  <2>5. Queued("ready")' <=> Queued("ready")
    BY <2>2, <2>4 DEF Queued
  <2>6. \A i, j \in 1..Len(blocks') : blocks'[i].kind = "ready" /\ blocks'[j].kind = "ready" => i = j
    BY <2>2, <2>4 DEF ReadyInv
  <2>7. TypeOK'
    BY <2>2, <2>3, <2>4 DEF TypeOK
  <2>8. ListenerInv'
    BY <2>3, Zenon DEF ListenerInv
  <2>9. ReadyInv'
    BY <2>3, <2>5, <2>6, Zenon DEF ReadyInv
  <2> QED BY <2>7, <2>8, <2>9
<1>4. ASSUME NEW state \in {"waiting", "ready", "failed"}, StateChanges(state)
      PROVE  Inv'
  <2> DEFINE block == StateBlock(IF state = "ready" THEN "ready" ELSE "down")
  <2>1. block \in Block /\ block.kind = (IF state = "ready" THEN "ready" ELSE "down")
    BY StateBlocks
  <2>2. /\ nw' = state /\ blocks' = Append(blocks, block)
        /\ UNCHANGED <<sent, read, receiving, running, listener, inside, heard, owner>>
        /\ nw \in {"preparing", "waiting"} \/ (nw = "ready" /\ state = "failed")
        /\ nw' = "waiting" => nw = "preparing"
    BY <1>4 DEF StateChanges, sharedVars
  <2> HIDE DEF block
  <2>3. /\ blocks' \in Seq(Block) /\ Len(blocks') = Len(blocks) + 1 /\ Len(blocks) \in Nat
        /\ \A i \in 1..Len(blocks) : blocks'[i] = blocks[i]
        /\ blocks'[Len(blocks) + 1] = block
    BY <2>1, <2>2, BlockAdded DEF TypeOK
  <2>4. Queued("received")' <=> Queued("received")
    BY <2>1, <2>3 DEF Queued
  <2>5. Queued("ready")' <=> Queued("ready") \/ state = "ready"
    BY <2>1, <2>3 DEF Queued
  <2>6. state = "ready" => ~Queued("ready")
    BY <2>2 DEF ReadyInv
  <2>7. \A i, j \in 1..Len(blocks') : blocks'[i].kind = "ready" /\ blocks'[j].kind = "ready" => i = j
    BY <2>1, <2>3, <2>6 DEF ReadyInv, Queued
  <2> QED BY <1>4, <2>2, <2>3, <2>4, <2>5, <2>6, <2>7 DEF TypeOK, ListenerInv, ReadyInv
<1> QED BY <1>1, <1>2, <1>3, <1>4 DEF Framework

LEMMA QueueKeeps ==
  ASSUME Inv, Queue
  PROVE  Inv'
<1> USE DEF Inv
<1>1. CASE StartBlock
  <2>1. /\ running.kind = "none" /\ blocks # <<>> /\ running' = Head(blocks) /\ blocks' = Tail(blocks)
        /\ UNCHANGED <<nw, sent, read, receiving, listener, inside, heard, owner>>
    BY <1>1, StateBlocks DEF StartBlock, frameworkVars, sharedVars
  <2>2. /\ blocks' \in Seq(Block) /\ Len(blocks) \in Nat \ {0}
        /\ running' \in Block /\ running' = blocks[1]
        /\ Len(blocks') = Len(blocks) - 1
        /\ \A i \in 1..Len(blocks') : blocks'[i] = blocks[i + 1]
    BY <2>1, BlockTaken DEF TypeOK
  <2>3. \A kind : Queued(kind) <=> running'.kind = kind \/ Queued(kind)'
    <3> TAKE kind
    <3>1. ASSUME NEW i \in 1..Len(blocks), blocks[i].kind = kind
          PROVE  running'.kind = kind \/ Queued(kind)'
      <4>1. CASE i = 1
        BY <2>2, <3>1, <4>1
      <4>2. CASE i # 1
        <5>1. i - 1 \in 1..Len(blocks') /\ blocks'[i - 1] = blocks[i]
          BY <2>2, <4>2
        <5> QED BY <3>1, <5>1 DEF Queued
      <4> QED BY <4>1, <4>2
    <3>2. running'.kind = kind => Queued(kind)
      BY <2>2 DEF Queued
    <3>3. ASSUME NEW i \in 1..Len(blocks'), blocks'[i].kind = kind
          PROVE  Queued(kind)
      <4>1. i + 1 \in 1..Len(blocks) /\ blocks[i + 1].kind = kind
        BY <2>2, <3>3
      <4> QED BY <4>1 DEF Queued
    <3> QED BY <3>1, <3>2, <3>3 DEF Queued
  <2>4. running'.kind = "ready" => ~Queued("ready")'
    BY <2>2 DEF ReadyInv, Queued
  <2>5. \A i, j \in 1..Len(blocks') : blocks'[i].kind = "ready" /\ blocks'[j].kind = "ready" => i = j
    BY <2>2, SMTT(60) DEF ReadyInv
  <2>6. TypeOK'
    BY <2>1, <2>2 DEF TypeOK
  <2>7. ListenerInv'
    BY <2>1, Zenon DEF ListenerInv
  <2>8. ReadyInv'
    BY <2>1, <2>3, <2>4, <2>5, Zenon DEF ReadyInv
  <2> QED BY <2>6, <2>7, <2>8
<1>2. CASE CallbackReturns
  BY <1>2, Zenon DEF CallbackReturns, frameworkVars, TypeOK, ListenerInv, ReadyInv, Queued
<1>3. CASE NotifyConnected
  <2>1. /\ running.kind = "ready" /\ running' \in Block /\ running'.kind = "received"
        /\ UNCHANGED <<nw, sent, read, receiving, blocks, listener, owner>>
    BY <1>3, StateBlocks DEF NotifyConnected, frameworkVars
  <2>2. IF listener THEN inside' = TRUE /\ heard' = "connected" ELSE UNCHANGED <<inside, heard>>
    BY <1>3 DEF NotifyConnected, Notify
  <2>3. \A kind : Queued(kind)' <=> Queued(kind)
    BY <2>1 DEF Queued
  <2>4. \A i, j \in 1..Len(blocks') : blocks'[i].kind = "ready" /\ blocks'[j].kind = "ready" => i = j
    BY <2>1 DEF ReadyInv
  <2>5. TypeOK'
    BY <2>1 DEF TypeOK
  <2>6. ListenerInv'
    BY <2>1, <2>2, Zenon DEF ListenerInv
  <2>7. nw \notin {"preparing", "waiting"} /\ ~Queued("ready")
    BY <2>1 DEF ReadyInv
  <2>8. ReadyInv'
    BY <2>1, <2>2, <2>3, <2>4, <2>7 DEF ReadyInv, ListenerInv
  <2> QED BY <2>5, <2>6, <2>8
<1>4. CASE NotifyData
  <2>1. /\ running.kind = "received"
        /\ UNCHANGED <<nw, sent, read, receiving, blocks, listener, owner>>
    BY <1>4 DEF NotifyData, frameworkVars
  <2>2. PICK n \in (running.from + 1)..running.to : running' = [running EXCEPT !.from = n]
    BY <1>4 DEF NotifyData
  <2>3. running \in Block
    BY <2>1, StateBlocks DEF TypeOK
  <2>4. running' \in Block /\ running'.kind = "received"
    BY <2>1, <2>2, <2>3, AppleAssumption DEF Block
  <2>5. IF listener THEN inside' = TRUE /\ heard' = "connected" ELSE UNCHANGED <<inside, heard>>
    BY <1>4 DEF NotifyData, Notify
  <2>6. TypeOK'
    BY <2>1, <2>4 DEF TypeOK
  <2>7. ListenerInv'
    BY <2>1, <2>5, Zenon DEF ListenerInv
  <2>8. listener => heard = "connected"
    BY <2>1 DEF ReadyInv
  <2>9. ReadyInv'
    BY <2>1, <2>4, <2>5, <2>8 DEF ReadyInv, Queued
  <2> QED BY <2>6, <2>7, <2>9
<1>5. CASE Receive
  <2>1. /\ running.kind = "received" /\ running' = NoBlock /\ running'.kind = "none" /\ receiving' = TRUE
        /\ UNCHANGED <<nw, sent, read, blocks, listener, inside, heard, owner>>
    BY <1>5, StateBlocks DEF Receive, frameworkVars, sharedVars
  <2> QED BY <2>1 DEF TypeOK, ListenerInv, ReadyInv, Queued
<1>6. CASE Close
  <2>1. /\ running' \in Block /\ running'.kind = "cancel" /\ listener' = FALSE
        /\ UNCHANGED <<nw, sent, read, receiving, blocks, owner>>
    BY <1>6, StateBlocks DEF Close, frameworkVars
  <2>2. IF listener THEN inside' = TRUE ELSE UNCHANGED inside
    BY <1>6 DEF Close, Notify
  <2>3. TypeOK'
    BY <2>1 DEF TypeOK
  <2>4. ListenerInv'
    BY <2>1, <2>2, Zenon DEF ListenerInv
  <2>5. ReadyInv'
    BY <2>1 DEF ReadyInv, Queued
  <2> QED BY <2>3, <2>4, <2>5
<1>7. CASE CancelConnection
  <2>1. /\ running' = NoBlock /\ running'.kind = "none"
        /\ UNCHANGED <<nw, sent, read, receiving, blocks, listener, inside, heard, owner>>
    BY <1>7, StateBlocks DEF CancelConnection, frameworkVars, sharedVars
  <2> QED BY <2>1 DEF TypeOK, ListenerInv, ReadyInv, Queued
<1> QED BY <1>1, <1>2, <1>3, <1>4, <1>5, <1>6, <1>7 DEF Queue

\* The network thread, on the other side of the mutex.
LEMMA OwnerKeeps ==
  ASSUME Inv, TakeEvent \/ Detach \/ DestroyCancels \/ UNCHANGED vars
  PROVE  Inv'
<1>1. /\ UNCHANGED <<nw, sent, read, receiving, blocks, running, inside, heard>>
      /\ \/ UNCHANGED <<listener, owner>>
         \/ ~inside /\ listener' = FALSE
         \/ owner # "using" /\ UNCHANGED listener
  BY DEF TakeEvent, Detach, DestroyCancels, vars, frameworkVars, sharedVars
<1>2. TypeOK'
  BY <1>1 DEF Inv, TypeOK
<1>3. ListenerInv'
  <2>1. CASE UNCHANGED <<listener, owner>>
    BY <1>1, <2>1, Zenon DEF Inv, ListenerInv
  <2>2. CASE ~inside /\ listener' = FALSE
    BY <1>1, <2>2, Zenon DEF Inv, ListenerInv
  <2>3. CASE owner # "using" /\ UNCHANGED listener
    BY <1>1, <2>3, Zenon DEF Inv, ListenerInv
  <2> QED BY <1>1, <2>1, <2>2, <2>3, Zenon
<1>4. \A kind : Queued(kind)' <=> Queued(kind)
  BY <1>1 DEF Queued
<1>5. listener' => listener
  BY <1>1, Zenon DEF Inv, ListenerInv
<1>6. ReadyInv'
  BY <1>1, <1>4, <1>5 DEF Inv, ReadyInv
<1> QED BY <1>2, <1>3, <1>6 DEF Inv

-----------------------------------------------------------------------------
\* Every step is a step of the contract, or none of its business.
LEMMA StepKeepsContract ==
  ASSUME Inv, [Next]_vars
  PROVE  [Contract!Next]_(Contract!vars)
<1> USE DEF Contract!Next, Contract!vars
<1>1. CASE NotifyConnected
  <2>1. /\ UNCHANGED owner /\ ~inside
        /\ IF listener THEN inside' = TRUE /\ heard' = "connected" ELSE UNCHANGED <<inside, heard>>
    BY <1>1 DEF NotifyConnected, Notify
  <2>2. listener => owner = "using" /\ heard = "nothing"
    BY <1>1 DEF NotifyConnected, Inv, ListenerInv, ReadyInv
  <2> QED BY <2>1, <2>2 DEF Contract!OnConnected, Contract!Callback
<1>2. CASE NotifyData
  <2>1. /\ UNCHANGED owner /\ ~inside
        /\ IF listener THEN inside' = TRUE /\ heard' = "connected" ELSE UNCHANGED <<inside, heard>>
    BY <1>2 DEF NotifyData, Notify
  <2>2. listener => owner = "using" /\ heard = "connected"
    BY <1>2 DEF NotifyData, Inv, ListenerInv, ReadyInv
  <2> QED BY <2>1, <2>2 DEF Contract!OnData, Contract!Callback
<1>3. CASE Close
  <2>1. /\ UNCHANGED owner /\ ~inside
        /\ IF listener THEN inside' = TRUE /\ heard' = "closed" ELSE UNCHANGED <<inside, heard>>
    BY <1>3 DEF Close, Notify
  <2>2. listener => owner = "using" /\ heard # "closed"
    BY DEF Inv, ListenerInv
  <2> QED BY <2>1, <2>2 DEF Contract!OnClosed, Contract!Callback
<1>4. CASE CallbackReturns
  BY <1>4, Zenon DEF CallbackReturns, Contract!Return
<1>5. CASE DestroyCancels
  <2>1. owner = "cancelling" /\ owner' = "gone" /\ UNCHANGED <<heard, inside>>
    BY <1>5 DEF DestroyCancels, sharedVars
  <2>2. ~inside
    BY <2>1 DEF Inv, ListenerInv
  <2> QED BY <2>1, <2>2 DEF Contract!Destroy
<1>6. CASE Detach
  BY <1>6 DEF Detach
<1>7. CASE StartBlock \/ Receive \/ CancelConnection \/ Framework \/ TakeEvent \/ UNCHANGED vars
  BY <1>7 DEF StartBlock, Receive, CancelConnection, Framework, ServerSends, ServerCloses,
              ReceiveCompletes, StateChanges, TakeEvent, vars, sharedVars
<1> QED BY <1>1, <1>2, <1>3, <1>4, <1>5, <1>6, <1>7 DEF Next, Queue

LEMMA StepKeepsInv ==
  ASSUME Inv, [Next]_vars
  PROVE  Inv'
  BY FrameworkKeeps, QueueKeeps, OwnerKeeps DEF Next

\* The connection keeps the contract of tls_transport.hpp: whatever the framework does and whenever
\* the network thread destroys the connection, callbacks come one at a time, data only between
\* on_connected and on_closed, none after on_closed and none once the destructor has returned
\* (tls_apple.cpp's mutex around every callback and around the destructor's detaching).
THEOREM CallbacksKept == Spec => KeepsCallbacks
<1>1. Init => Contract!Init
  BY DEF Init, Contract!Init
<1>2. Inv /\ [Next]_vars => Inv'
  BY StepKeepsInv
<1>3. Inv /\ [Next]_vars => [Contract!Next]_(Contract!vars)
  BY StepKeepsContract
<1> QED BY InitInv, <1>1, <1>2, <1>3, PTL DEF Spec, KeepsCallbacks, Contract!Spec

-----------------------------------------------------------------------------
(* From the server to the framer: what is between them is without a gap.   *)

\* How far the bytes reach after the first k events of the inbox.
At(k) == IF k = 0 \/ events[k].kind = "connected" THEN pushed ELSE events[k].to

\* The inbox: on_connected first, then data that joins up, and on_closed last.
InboxInv ==
  /\ events \in Seq(Event) /\ pushed \in 0..MaxBytes /\ nw \in {"preparing", "waiting", "ready", "failed"}
  /\ owner # "using" => events = <<>>
  /\ \A k \in 1..Len(events) :
       /\ events[k].kind = "connected" => k = 1
       /\ events[k].kind = "data" => events[k].from = At(k - 1)
       /\ events[k].kind \in StreamErrors => k = Len(events) /\ ~listener
       /\ events[k].kind = "Closed" => nw = "failed" \/ (nw = "ready" /\ closed /\ At(k - 1) = sent)

\* What one received block, running or waiting, holds: the bytes after those in the inbox, up to
\* those that were read, and the end of the stream only when there are no more.
Holds(block) ==
  /\ block.from = At(Len(events)) /\ block.to = read
  /\ block.ends /\ nw = "ready" => closed /\ block.to = sent

\* While there is a listener, there is one receive at a time, outstanding, waiting or running.
ReceiveInv ==
  listener =>
    /\ ~cancelled /\ running.kind # "cancel" /\ ~Queued("cancel")
    /\ heard = "nothing" => events = <<>> /\ pushed = 0 /\ read = 0
    /\ receiving => read = At(Len(events)) /\ running.kind # "received" /\ ~Queued("received")
    /\ running.kind = "received" => Holds(running) /\ ~Queued("received")
    /\ \A i \in 1..Len(blocks) : blocks[i].kind = "received" =>
         Holds(blocks[i]) /\ \A j \in 1..Len(blocks) : blocks[j].kind = "received" => i = j

\* A connection that waits and then becomes ready has its blocks in that order.
WaitedInv ==
  nw = "ready" =>
    /\ running.kind = "down" => Queued("ready")
    /\ \A i \in 1..Len(blocks) : blocks[i].kind = "down" => \E j \in 1..Len(blocks) : j > i /\ blocks[j].kind = "ready"

DeliveryInv == InboxInv /\ ReceiveInv /\ WaitedInv

\* When drain_link comes to the on_closed of a connection that did not fail, the framer was given
\* every byte the server sent.
PushedAtClose ==
  events # <<>> /\ Head(events).kind = "Closed" /\ nw = "ready" => pushed = sent

LEMMA AtKept ==
  ASSUME UNCHANGED <<events, pushed>>, NEW k
  PROVE  At(k)' = At(k)
  BY DEF At

LEMMA InboxKept ==
  ASSUME InboxInv, UNCHANGED <<events, pushed, nw, closed, sent>>,
         owner' # "using" => owner # "using", listener' => listener
  PROVE  InboxInv'
<1>1. \A k : At(k)' = At(k)
  BY AtKept
<1> QED BY <1>1 DEF InboxInv

LEMMA HoldsKept ==
  ASSUME UNCHANGED <<events, pushed, nw, closed, sent, read>>, NEW block
  PROVE  Holds(block)' <=> Holds(block)
<1>1. \A k : At(k)' = At(k)
  BY AtKept
<1>2. At(Len(events))' = At(Len(events))
  BY DEF At
<1> QED BY <1>2 DEF Holds

LEMMA WaitedKept ==
  ASSUME WaitedInv, UNCHANGED <<nw, blocks>>, running' = running \/ running'.kind # "down"
  PROVE  WaitedInv'
  BY DEF WaitedInv, Queued

\* A callback joins the inbox behind the others.
LEMMA EventAdded ==
  ASSUME NEW event \in Event, events \in Seq(Event), events' = Append(events, event), pushed' = pushed
  PROVE  /\ events' \in Seq(Event) /\ Len(events) \in Nat /\ Len(events') = Len(events) + 1
         /\ \A k \in 1..Len(events) : events'[k] = events[k]
         /\ events'[Len(events) + 1] = event
         /\ \A k \in 0..Len(events) : At(k)' = At(k)
         /\ At(Len(events))' = IF event.kind = "connected" THEN pushed ELSE event.to
<1>1. /\ events' \in Seq(Event) /\ Len(events) \in Nat /\ Len(events') = Len(events) + 1
      /\ \A k \in 1..Len(events) : events'[k] = events[k]
      /\ events'[Len(events) + 1] = event
  BY AppendProperties, LenProperties
<1>2. ASSUME NEW k \in 0..Len(events) PROVE At(k)' = At(k)
  <2>1. k = 0 \/ k \in 1..Len(events)
    BY <1>1
  <2> QED BY <1>1, <2>1, Zenon DEF At
<1>3. At(Len(events))' = IF event.kind = "connected" THEN pushed ELSE event.to
  <2>1. events'[Len(events')] = event /\ Len(events') # 0
    BY <1>1
  <2> QED BY <2>1 DEF At
<1> QED BY <1>1, <1>2, <1>3

\* The server and the framework: a receive that completes brings what comes next.
LEMMA FrameworkDelivers ==
  ASSUME Inv, DeliveryInv, Framework, pushed' = pushed
  PROVE  DeliveryInv'
<1> USE DEF Inv, DeliveryInv
<1>1. CASE ServerSends
  <2>1. /\ UNCHANGED <<nw, closed, read, cancelled, receiving, blocks, running, listener, heard, events, owner>>
        /\ nw = "ready" /\ ~closed
    BY <1>1 DEF ServerSends, sharedVars
  <2>2. \A k : At(k)' = At(k)
    BY <2>1, AtKept
  <2>3. At(Len(events))' = At(Len(events))
    BY <2>1 DEF At
  <2>4. InboxInv'
    BY <2>1, <2>2 DEF InboxInv
  <2>6. running.kind = "received" /\ Holds(running) => Holds(running)'
    BY <2>1, <2>3 DEF Holds
  <2>7. \A i \in 1..Len(blocks) : Holds(blocks[i]) => Holds(blocks[i])'
    BY <2>1, <2>3 DEF Holds
  <2>8. \A kind : Queued(kind)' <=> Queued(kind)
    BY <2>1 DEF Queued
  <2>9. ReceiveInv'
    BY <2>1, <2>3, <2>6, <2>7, <2>8 DEF ReceiveInv
  <2> QED BY <2>1, <2>4, <2>9, WaitedKept
<1>2. CASE ServerCloses
  <2>1. UNCHANGED <<nw, sent, read, cancelled, receiving, blocks, running, listener, heard, events, owner>> /\ closed'
    BY <1>2 DEF ServerCloses, sharedVars
  <2>2. \A k : At(k)' = At(k)
    BY <2>1, AtKept
  <2>3. At(Len(events))' = At(Len(events))
    BY <2>1 DEF At
  <2>4. InboxInv'
    BY <2>1, <2>2 DEF InboxInv
  <2>6. running.kind = "received" /\ Holds(running) => Holds(running)'
    BY <2>1, <2>3 DEF Holds
  <2>7. \A i \in 1..Len(blocks) : Holds(blocks[i]) => Holds(blocks[i])'
    BY <2>1, <2>3 DEF Holds
  <2>8. \A kind : Queued(kind)' <=> Queued(kind)
    BY <2>1 DEF Queued
  <2>9. ReceiveInv'
    BY <2>1, <2>3, <2>6, <2>7, <2>8 DEF ReceiveInv
  <2> QED BY <2>1, <2>4, <2>9, WaitedKept
<1>3. CASE ReceiveCompletes
  <2>1. PICK to \in read..sent, ends \in BOOLEAN :
          /\ ends => nw = "failed" \/ cancelled \/ (closed /\ to = sent)
          /\ blocks' = Append(blocks, [kind |-> "received", from |-> read, to |-> to, ends |-> ends])
          /\ read' = to
    BY <1>3 DEF ReceiveCompletes
  <2>2. PICK block : block = [kind |-> "received", from |-> read, to |-> to, ends |-> ends]
    BY Zenon
  <2>3. block \in Block /\ block.kind = "received" /\ block.from = read /\ block.to = to /\ block.ends = ends
    BY <2>1, <2>2, AppleAssumption DEF TypeOK, Block
  <2>4. /\ receiving /\ ~receiving'
        /\ UNCHANGED <<nw, sent, closed, cancelled, running, listener, heard, events, owner>>
    BY <1>3 DEF ReceiveCompletes, sharedVars
  <2>5. /\ blocks' \in Seq(Block) /\ Len(blocks') = Len(blocks) + 1 /\ Len(blocks) \in Nat
        /\ \A i \in 1..Len(blocks) : blocks'[i] = blocks[i]
        /\ blocks'[Len(blocks) + 1] = block
    BY <2>1, <2>2, <2>3, BlockAdded DEF TypeOK
  <2>6. InboxInv'
    BY <2>4, InboxKept
  <2>7. ReceiveInv'
    <3> SUFFICES ASSUME listener PROVE ReceiveInv'
      BY <2>4 DEF ReceiveInv
    <3>1. read = At(Len(events)) /\ running.kind # "received" /\ ~Queued("received") /\ ~Queued("cancel") /\ ~cancelled
      BY <2>4 DEF ReceiveInv
    <3>2. Holds(block)'
      <4>1. At(Len(events))' = At(Len(events))
        BY <2>4 DEF At
      <4>2. block.from = At(Len(events))' /\ block.to = read'
        BY <2>1, <2>3, <3>1, <4>1
      <4>3. block.ends /\ nw' = "ready" => closed' /\ block.to = sent'
        BY <2>1, <2>3, <2>4, <3>1
      <4> QED BY <4>2, <4>3, Zenon DEF Holds
    <3>3. ASSUME NEW i \in 1..Len(blocks'), blocks'[i].kind = "received"
          PROVE  i = Len(blocks) + 1 /\ blocks'[i] = block
      BY <2>5, <3>1, <3>3 DEF Queued
    <3>4. \A i \in 1..Len(blocks') : blocks'[i].kind = "received" =>
            Holds(blocks[i])' /\ \A j \in 1..Len(blocks') : blocks'[j].kind = "received" => i = j
      <4>1. ASSUME NEW i \in 1..Len(blocks'), blocks'[i] = block PROVE Holds(blocks[i])'
        BY <3>2, <4>1 DEF Holds
      <4> QED BY <3>3, <4>1
    <3>5. ~Queued("cancel")'
      BY <2>3, <2>5, <3>1 DEF Queued
    <3>6. heard # "nothing"
      BY <2>4 DEF ReadyInv
    <3> QED BY <2>4, <3>1, <3>4, <3>5, <3>6 DEF ReceiveInv
  <2>8. WaitedInv'
    BY <2>3, <2>4, <2>5 DEF WaitedInv, Queued
  <2> QED BY <2>6, <2>7, <2>8
<1>4. ASSUME NEW state \in {"waiting", "ready", "failed"}, StateChanges(state)
      PROVE  DeliveryInv'
  <2>1. PICK block : block = StateBlock(IF state = "ready" THEN "ready" ELSE "down")
    OBVIOUS
  <2>2. block \in Block /\ block.kind = (IF state = "ready" THEN "ready" ELSE "down")
    BY <2>1, StateBlocks
  <2>3. /\ nw' = state /\ blocks' = Append(blocks, block)
        /\ UNCHANGED <<sent, closed, read, cancelled, receiving, running, listener, heard, events, owner>>
        /\ nw \in {"preparing", "waiting"} \/ (nw = "ready" /\ state = "failed")
    BY <1>4, <2>1 DEF StateChanges, sharedVars
  <2>4. /\ blocks' \in Seq(Block) /\ Len(blocks') = Len(blocks) + 1 /\ Len(blocks) \in Nat
        /\ \A i \in 1..Len(blocks) : blocks'[i] = blocks[i]
        /\ blocks'[Len(blocks) + 1] = block
    BY <2>2, <2>3, BlockAdded DEF TypeOK
  <2>5. InboxInv'
    <3>1. \A k : At(k)' = At(k)
      BY <2>3, AtKept
    <3> QED BY <2>3, <3>1 DEF InboxInv
  <2>6. ReceiveInv'
    <3> SUFFICES ASSUME listener PROVE ReceiveInv'
      BY <2>3 DEF ReceiveInv
    <3>1. At(Len(events))' = At(Len(events))
      BY <2>3 DEF At
    <3>2. Queued("received")' <=> Queued("received")
      BY <2>2, <2>4 DEF Queued
    <3>3. ~Queued("cancel")'
      BY <2>2, <2>4 DEF Queued, ReceiveInv
    <3>4. CASE nw \in {"preparing", "waiting"}
      <4>1. heard = "nothing"
        BY <3>4 DEF ReadyInv
      <4>2. ~receiving /\ running.kind # "received" /\ ~Queued("received")
        BY <4>1 DEF ReadyInv
      <4>3. \A i \in 1..Len(blocks') : blocks'[i].kind # "received"
        BY <3>2, <4>2 DEF Queued
      <4> QED BY <2>3, <3>3, <4>2, <4>3, Zenon DEF ReceiveInv
    <3>5. CASE nw = "ready" /\ state = "failed"
      <4>1. Holds(running) => Holds(running)'
        BY <2>3, <3>1, <3>5 DEF Holds
      <4>2. \A i \in 1..Len(blocks) : Holds(blocks[i]) => Holds(blocks[i])'
        BY <2>3, <2>4, <3>1, <3>5 DEF Holds
      <4>3. \A i \in 1..Len(blocks') : blocks'[i].kind = "received" => i \in 1..Len(blocks) /\ blocks[i].kind = "received"
        BY <2>2, <2>4, <3>5
      <4>4. \A i \in 1..Len(blocks') : blocks'[i].kind = "received" =>
              Holds(blocks[i])' /\ \A j \in 1..Len(blocks') : blocks'[j].kind = "received" => i = j
        BY <4>2, <4>3 DEF ReceiveInv
      <4> QED BY <2>3, <3>1, <3>2, <3>3, <4>1, <4>4 DEF ReceiveInv
    <3> QED BY <2>3, <3>4, <3>5
  <2>7. WaitedInv'
    <3> SUFFICES ASSUME state = "ready" PROVE WaitedInv'
      BY <2>3 DEF WaitedInv
    <3>1. Len(blocks) + 1 \in 1..Len(blocks') /\ blocks'[Len(blocks) + 1].kind = "ready"
      BY <2>2, <2>4
    <3>2. ASSUME NEW i \in 1..Len(blocks'), blocks'[i].kind = "down" PROVE i < Len(blocks) + 1
      BY <2>4, <3>1, <3>2
    <3> QED BY <2>3, <3>1, <3>2 DEF WaitedInv, Queued
  <2> QED BY <2>5, <2>6, <2>7
<1> QED BY <1>1, <1>2, <1>3, <1>4 DEF Framework

\* The blocks on the queue hand on what they hold.
LEMMA QueueDelivers ==
  ASSUME Inv, DeliveryInv, Queue, pushed' = pushed
  PROVE  DeliveryInv'
<1> USE DEF Inv, DeliveryInv
<1>1. CASE StartBlock
  <2>1. /\ running.kind = "none" /\ blocks # <<>> /\ running' = Head(blocks) /\ blocks' = Tail(blocks)
        /\ UNCHANGED <<nw, sent, closed, read, cancelled, receiving, listener, heard, events, owner>>
    BY <1>1, StateBlocks DEF StartBlock, frameworkVars, sharedVars
  <2>2. /\ blocks' \in Seq(Block) /\ Len(blocks) \in Nat \ {0}
        /\ running' \in Block /\ running' = blocks[1]
        /\ Len(blocks') = Len(blocks) - 1
        /\ \A i \in 1..Len(blocks') : blocks'[i] = blocks[i + 1]
    BY <2>1, BlockTaken DEF TypeOK
  <2>3. ASSUME NEW kind, ~Queued(kind) PROVE running'.kind # kind /\ ~Queued(kind)'
    <3>1. running'.kind # kind
      BY <2>2, <2>3 DEF Queued
    <3>2. ASSUME NEW i \in 1..Len(blocks') PROVE blocks'[i].kind # kind
      <4>1. i + 1 \in 1..Len(blocks) /\ blocks'[i] = blocks[i + 1]
        BY <2>2
      <4> QED BY <2>3, <4>1 DEF Queued
    <3> QED BY <3>1, <3>2 DEF Queued
  <2>4. InboxInv'
    BY <2>1, InboxKept
  <2>5. ReceiveInv'
    <3> SUFFICES ASSUME listener PROVE ReceiveInv'
      BY <2>1, Zenon DEF ReceiveInv
    <3>1. \A block : Holds(block)' <=> Holds(block)
      BY <2>1, HoldsKept
    <3>2. At(Len(events))' = At(Len(events))
      BY <2>1 DEF At
    <3>3. running'.kind # "cancel" /\ ~Queued("cancel")'
      BY <2>3 DEF ReceiveInv
    <3>4. receiving => running'.kind # "received" /\ ~Queued("received")'
      BY <2>3 DEF ReceiveInv
    <3>5. ASSUME NEW i \in 1..Len(blocks'), blocks'[i].kind = "received"
          PROVE  /\ i + 1 \in 1..Len(blocks) /\ blocks[i + 1].kind = "received" /\ blocks'[i] = blocks[i + 1]
                 /\ Holds(blocks[i + 1])
      <4>1. i + 1 \in 1..Len(blocks) /\ blocks'[i] = blocks[i + 1]
        BY <2>2
      <4> QED BY <3>5, <4>1 DEF ReceiveInv
    <3>6. running'.kind = "received" => Holds(running)' /\ ~Queued("received")'
      <4> SUFFICES ASSUME running'.kind = "received" PROVE Holds(running)' /\ ~Queued("received")'
        OBVIOUS
      <4>1. 1 \in 1..Len(blocks) /\ blocks[1].kind = "received"
        BY <2>2
      <4>2. Holds(blocks[1]) /\ \A j \in 1..Len(blocks) : blocks[j].kind = "received" => 1 = j
        BY <4>1 DEF ReceiveInv
      <4>3. Holds(running)'
        <5>1. PICK block : block = blocks[1]
          OBVIOUS
        <5>2. Holds(block)' /\ running' = block
          BY <2>2, <3>1, <4>2, <5>1
        <5> QED BY <5>2 DEF Holds
      <4>4. ~Queued("received")'
        <5> SUFFICES ASSUME NEW i \in 1..Len(blocks'), blocks'[i].kind = "received" PROVE FALSE
          BY DEF Queued
        <5>1. i + 1 = 1
          BY <3>5, <4>2
        <5> QED BY <5>1
      <4> QED BY <4>3, <4>4
    <3>7. \A i \in 1..Len(blocks') : blocks'[i].kind = "received" =>
            Holds(blocks[i])' /\ \A j \in 1..Len(blocks') : blocks'[j].kind = "received" => i = j
      <4>1. ASSUME NEW i \in 1..Len(blocks'), blocks'[i].kind = "received" PROVE Holds(blocks[i])'
        <5>1. PICK block : block = blocks[i + 1]
          OBVIOUS
        <5>2. Holds(block)' /\ blocks'[i] = block
          BY <3>1, <3>5, <4>1, <5>1
        <5> QED BY <5>2 DEF Holds
      <4>2. ASSUME NEW i \in 1..Len(blocks'), blocks'[i].kind = "received",
                   NEW j \in 1..Len(blocks'), blocks'[j].kind = "received"
            PROVE  i = j
        <5>1. i + 1 = j + 1
          <6>1. i + 1 \in 1..Len(blocks) /\ blocks[i + 1].kind = "received"
            BY <3>5, <4>2
          <6>2. j + 1 \in 1..Len(blocks) /\ blocks[j + 1].kind = "received"
            BY <3>5, <4>2
          <6> QED BY <6>1, <6>2 DEF ReceiveInv
        <5> QED BY <5>1
      <4> QED BY <4>1, <4>2
    <3> QED BY <2>1, <3>2, <3>3, <3>4, <3>6, <3>7, Zenon DEF ReceiveInv
  <2>6. WaitedInv'
    <3> SUFFICES ASSUME nw = "ready" PROVE WaitedInv'
      BY <2>1 DEF WaitedInv
    <3>1. ASSUME NEW i \in 1..Len(blocks), blocks[i].kind = "down"
          PROVE  \E j \in 1..Len(blocks') : j > i - 1 /\ blocks'[j].kind = "ready"
      <4>1. PICK j \in 1..Len(blocks) : j > i /\ blocks[j].kind = "ready"
        BY <3>1 DEF WaitedInv
      <4>2. j - 1 \in 1..Len(blocks') /\ blocks'[j - 1] = blocks[j] /\ j - 1 > i - 1
        BY <2>2, <4>1
      <4> QED BY <4>1, <4>2
    <3>2. running'.kind = "down" => Queued("ready")'
      <4> SUFFICES ASSUME running'.kind = "down" PROVE Queued("ready")'
        OBVIOUS
      <4>1. 1 \in 1..Len(blocks) /\ blocks[1].kind = "down"
        BY <2>2
      <4> QED BY <3>1, <4>1 DEF Queued
    <3>3. ASSUME NEW i \in 1..Len(blocks'), blocks'[i].kind = "down"
          PROVE  \E j \in 1..Len(blocks') : j > i /\ blocks'[j].kind = "ready"
      <4>1. i + 1 \in 1..Len(blocks) /\ blocks[i + 1].kind = "down" /\ i + 1 - 1 = i
        BY <2>2, <3>3
      <4> QED BY <3>1, <4>1
    <3> QED BY <3>2, <3>3 DEF WaitedInv
  <2> QED BY <2>4, <2>5, <2>6
<1>2. CASE CallbackReturns
  <2>1. UNCHANGED <<nw, sent, closed, read, cancelled, receiving, blocks, running, listener, heard, events, owner>>
    BY <1>2 DEF CallbackReturns, frameworkVars
  <2>2. ReceiveInv'
    BY <2>1, Zenon DEF ReceiveInv, Holds, At, Queued
  <2> QED BY <2>1, <2>2, InboxKept, WaitedKept
<1>3. CASE NotifyConnected
  <2>1. /\ running.kind = "ready" /\ running' = StateBlock("received")
        /\ UNCHANGED <<nw, sent, closed, read, cancelled, receiving, blocks, listener, owner>>
    BY <1>3 DEF NotifyConnected, frameworkVars
  <2>2. running'.kind = "received" /\ running'.from = 0 /\ running'.to = 0 /\ running'.ends = FALSE
    BY <2>1 DEF StateBlock
  <2>3. WaitedInv'
    BY <2>1, <2>2, WaitedKept
  <2>4. CASE ~listener
    <3>1. events' = events
      BY <1>3, <2>4 DEF NotifyConnected, Notify
    <3>2. InboxInv'
      BY <2>1, <3>1, InboxKept
    <3> QED BY <2>1, <2>3, <2>4, <3>2, Zenon DEF ReceiveInv
  <2>5. CASE listener
    <3>1. heard = "nothing" /\ ~receiving /\ ~Queued("received")
      BY <2>1, <2>5 DEF ReadyInv
    <3>2. events = <<>> /\ pushed = 0 /\ read = 0 /\ ~cancelled /\ ~Queued("cancel")
      BY <2>5, <3>1 DEF ReceiveInv
    <3>3. PICK event : event = Callback("connected", 0, 0)
      OBVIOUS
    <3>4. event \in Event /\ event.kind = "connected"
      BY <3>3, AppleAssumption DEF Callback, Event
    <3>5. events' = Append(events, event) /\ heard' = "connected"
      BY <1>3, <2>5, <3>3 DEF NotifyConnected, Notify
    <3>6. /\ events' \in Seq(Event) /\ Len(events') = 1 /\ events'[1] = event /\ At(Len(events))' = 0
      <4>1. Len(events) = 0 /\ events \in Seq(Event)
        BY <3>2 DEF InboxInv
      <4>2. /\ events' \in Seq(Event) /\ Len(events') = Len(events) + 1 /\ events'[Len(events) + 1] = event
            /\ At(Len(events))' = IF event.kind = "connected" THEN pushed ELSE event.to
        BY <3>4, <3>5, <4>1, EventAdded
      <4> QED BY <3>2, <3>4, <4>1, <4>2
    <3>7. InboxInv'
      <4>1. owner = "using"
        BY <2>5 DEF ListenerInv
      <4> QED BY <2>1, <3>4, <3>6, <4>1 DEF InboxInv, StreamErrors
    <3>8. Holds(running)'
      BY <2>1, <2>2, <3>2, <3>6 DEF Holds
    <3>9. ~Queued("received")' /\ ~Queued("cancel")'
      BY <2>1, <3>1, <3>2 DEF Queued
    <3>10. \A i \in 1..Len(blocks') : blocks'[i].kind # "received"
      BY <3>9 DEF Queued
    <3>11. ReceiveInv'
      BY <2>1, <2>2, <3>1, <3>2, <3>5, <3>8, <3>9, <3>10, Zenon DEF ReceiveInv
    <3> QED BY <2>3, <3>7, <3>11
  <2> QED BY <2>4, <2>5
<1>4. CASE NotifyData
  <2>1. /\ running.kind = "received" /\ UNCHANGED <<nw, sent, closed, read, cancelled, receiving, blocks, listener, owner>>
    BY <1>4 DEF NotifyData, frameworkVars
  <2>2. PICK n \in (running.from + 1)..running.to :
          Notify(Callback("data", running.from, n), "connected") /\ running' = [running EXCEPT !.from = n]
    BY <1>4 DEF NotifyData
  <2>3. running \in Block
    BY <2>1, StateBlocks DEF TypeOK
  <2>4. /\ running'.kind = "received" /\ running'.from = n /\ running'.to = running.to /\ running'.ends = running.ends
        /\ n \in 0..MaxBytes /\ running.from \in 0..MaxBytes
    BY <2>1, <2>2, <2>3, AppleAssumption DEF Block
  <2>5. WaitedInv'
    BY <2>1, <2>4, WaitedKept
  <2>6. CASE ~listener
    <3>1. events' = events
      BY <2>2, <2>6 DEF Notify
    <3>2. InboxInv'
      BY <2>1, <3>1, InboxKept
    <3> QED BY <2>1, <2>5, <2>6, <3>2, Zenon DEF ReceiveInv
  <2>7. CASE listener
    <3>1. Holds(running) /\ ~receiving /\ ~Queued("received") /\ ~cancelled /\ ~Queued("cancel")
      BY <2>1, <2>7 DEF ReceiveInv
    <3>2. PICK event : event = Callback("data", running.from, n)
      OBVIOUS
    <3>3. event \in Event /\ event.kind = "data" /\ event.from = running.from /\ event.to = n
      BY <2>4, <3>2 DEF Callback, Event
    <3>4. events' = Append(events, event) /\ heard' = "connected"
      BY <2>2, <2>7, <3>2 DEF Notify
    <3>5. /\ events' \in Seq(Event) /\ Len(events) \in Nat /\ Len(events') = Len(events) + 1
          /\ \A k \in 1..Len(events) : events'[k] = events[k]
          /\ events'[Len(events) + 1] = event
          /\ \A k \in 0..Len(events) : At(k)' = At(k)
          /\ At(Len(events))' = n
      <4>1. events \in Seq(Event)
        BY DEF InboxInv
      <4> QED BY <3>3, <3>4, <4>1, EventAdded
    <3>6. InboxInv'
      <4>1. owner = "using"
        BY <2>7 DEF ListenerInv
      <4>2. ASSUME NEW k \in 1..Len(events')
            PROVE  /\ events'[k].kind = "connected" => k = 1
                   /\ events'[k].kind = "data" => events'[k].from = At(k - 1)'
                   /\ events'[k].kind \notin StreamErrors
        <5>1. CASE k \in 1..Len(events)
          <6>1. events'[k] = events[k] /\ At(k - 1)' = At(k - 1)
            BY <3>5, <5>1
          <6> QED BY <2>7, <5>1, <6>1 DEF InboxInv
        <5>2. CASE k = Len(events) + 1
          <6>1. events'[k] = event /\ At(k - 1)' = At(Len(events))
            BY <3>5, <5>2
          <6>2. running.from = At(Len(events))
            BY <3>1 DEF Holds
          <6> QED BY <3>3, <6>1, <6>2 DEF StreamErrors
        <5>3. k \in 1..Len(events) \/ k = Len(events) + 1
          BY <3>5
        <5> QED BY <5>1, <5>2, <5>3, Zenon
      <4>3. pushed' \in 0..MaxBytes /\ nw' \in {"preparing", "waiting", "ready", "failed"}
        BY <2>1 DEF InboxInv
      <4>4. "Closed" \in StreamErrors
        BY DEF StreamErrors
      <4> QED BY <2>1, <3>5, <4>1, <4>2, <4>3, <4>4 DEF InboxInv
    <3>7. Holds(running)'
      BY <2>1, <2>4, <3>1, <3>5 DEF Holds
    <3>8. ~Queued("received")' /\ ~Queued("cancel")'
      BY <2>1, <3>1 DEF Queued
    <3>9. \A i \in 1..Len(blocks') : blocks'[i].kind # "received"
      BY <3>8 DEF Queued
    <3>10. ReceiveInv'
      BY <2>1, <2>4, <3>1, <3>4, <3>7, <3>8, <3>9, Zenon DEF ReceiveInv
    <3> QED BY <2>5, <3>6, <3>10
  <2> QED BY <2>6, <2>7
<1>5. CASE Receive
  <2>1. /\ running.kind = "received" /\ running.from = running.to /\ receiving' /\ running'.kind = "none"
        /\ UNCHANGED <<nw, sent, closed, read, cancelled, blocks, listener, heard, events, owner>>
    BY <1>5, StateBlocks DEF Receive, frameworkVars, sharedVars
  <2>2. ReceiveInv'
    <3> SUFFICES ASSUME listener PROVE ReceiveInv'
      BY <2>1, Zenon DEF ReceiveInv
    <3>1. Holds(running) /\ ~Queued("received") /\ ~cancelled /\ ~Queued("cancel")
      BY <2>1, Zenon DEF ReceiveInv
    <3>2. read = At(Len(events))
      BY <2>1, <3>1, Zenon DEF Holds
    <3>3. At(Len(events))' = At(Len(events))
      BY <2>1 DEF At
    <3>4. ~Queued("received")' /\ ~Queued("cancel")'
      BY <2>1, <3>1 DEF Queued
    <3>5. \A i \in 1..Len(blocks') : blocks'[i].kind # "received"
      BY <3>4 DEF Queued
    <3>6. heard = "nothing" => events = <<>> /\ pushed = 0 /\ read = 0
      BY DEF ReceiveInv
    <3> QED BY <2>1, <3>1, <3>2, <3>3, <3>4, <3>5, <3>6, Zenon DEF ReceiveInv
  <2> QED BY <2>1, <2>2, InboxKept, WaitedKept
<1>6. CASE Close
  <2>1. /\ running'.kind = "cancel" /\ listener' = FALSE
        /\ UNCHANGED <<nw, sent, closed, read, cancelled, receiving, blocks, owner>>
    BY <1>6, StateBlocks DEF Close, frameworkVars
  <2>2. WaitedInv' /\ ReceiveInv'
    BY <2>1, WaitedKept DEF ReceiveInv
  <2>3. PICK reason \in CloseReasons : Notify(Callback(reason, 0, 0), "closed")
    BY <1>6 DEF Close
  <2>4. CASE ~listener
    <3>1. events' = events
      BY <2>3, <2>4 DEF Notify
    <3> QED BY <2>1, <2>2, <2>4, <3>1, InboxKept
  <2>5. CASE listener
    <3>1. PICK event : event = Callback(reason, 0, 0)
      OBVIOUS
    <3>2. reason \in StreamErrors /\ (reason = "Closed" => heard = "connected")
      BY DEF CloseReasons, StreamErrors
    <3>3. event \in Event /\ event.kind = reason
      BY <3>1, <3>2, AppleAssumption DEF Callback, Event
    <3>4. events' = Append(events, event)
      BY <2>3, <2>5, <3>1 DEF Notify
    <3>5. /\ events' \in Seq(Event) /\ Len(events) \in Nat /\ Len(events') = Len(events) + 1
          /\ \A k \in 1..Len(events) : events'[k] = events[k]
          /\ events'[Len(events) + 1] = event
          /\ \A k \in 0..Len(events) : At(k)' = At(k)
      <4>1. events \in Seq(Event)
        BY DEF InboxInv
      <4> QED BY <3>3, <3>4, <4>1, EventAdded
    <3>6. reason = "Closed" => nw = "failed" \/ (nw = "ready" /\ closed /\ At(Len(events)) = sent)
      <4> SUFFICES ASSUME reason = "Closed", nw # "failed" PROVE nw = "ready" /\ closed /\ At(Len(events)) = sent
        OBVIOUS
      <4>1. nw = "ready"
        BY <2>5, <3>2 DEF InboxInv, ReadyInv
      <4>2. running.kind # "down"
        BY <2>5, <3>2, <4>1 DEF WaitedInv, ReadyInv
      <4>3. running.kind = "received" /\ running.from = running.to /\ running.ends
        BY <1>6, <4>2 DEF Close
      <4>4. Holds(running)
        BY <2>5, <4>3 DEF ReceiveInv
      <4> QED BY <4>1, <4>3, <4>4 DEF Holds
    <3>7. InboxInv'
      <4>1. owner = "using"
        BY <2>5 DEF ListenerInv
      <4>2. ASSUME NEW k \in 1..Len(events')
            PROVE  /\ events'[k].kind = "connected" => k = 1
                   /\ events'[k].kind = "data" => events'[k].from = At(k - 1)'
                   /\ events'[k].kind \in StreamErrors => k = Len(events')
                   /\ events'[k].kind = "Closed" => nw = "failed" \/ (nw = "ready" /\ closed /\ At(k - 1)' = sent)
        <5>1. CASE k \in 1..Len(events)
          <6>1. events'[k] = events[k] /\ At(k - 1)' = At(k - 1)
            BY <3>5, <5>1
          <6>2. "Closed" \in StreamErrors
            BY DEF StreamErrors
          <6> QED BY <2>5, <5>1, <6>1, <6>2, Zenon DEF InboxInv
        <5>2. CASE k = Len(events) + 1
          <6>1. events'[k] = event /\ At(k - 1)' = At(Len(events))
            BY <3>5, <5>2
          <6> QED BY <3>2, <3>3, <3>5, <3>6, <5>2, <6>1 DEF StreamErrors
        <5>3. k \in 1..Len(events) \/ k = Len(events) + 1
          BY <3>5
        <5> QED BY <5>1, <5>2, <5>3, Zenon
      <4>3. pushed' \in 0..MaxBytes /\ nw' \in {"preparing", "waiting", "ready", "failed"}
        BY <2>1 DEF InboxInv
      <4> QED BY <2>1, <3>5, <4>1, <4>2, <4>3, Zenon DEF InboxInv
    <3> QED BY <2>2, <3>7
  <2> QED BY <2>4, <2>5
<1>7. CASE CancelConnection
  <2>1. /\ running.kind = "cancel" /\ running'.kind = "none"
        /\ UNCHANGED <<nw, sent, closed, read, receiving, blocks, listener, heard, events, owner>>
    BY <1>7, StateBlocks DEF CancelConnection, frameworkVars, sharedVars
  <2>2. ~listener
    BY <2>1, Zenon DEF ReceiveInv
  <2>3. ReceiveInv'
    BY <2>1, <2>2, Zenon DEF ReceiveInv
  <2> QED BY <2>1, <2>3, InboxKept, WaitedKept
<1> QED BY <1>1, <1>2, <1>3, <1>4, <1>5, <1>6, <1>7 DEF Queue

\* The network thread: what it takes from the inbox is where the framer goes on.
LEMMA NetworkDelivers ==
  ASSUME Inv, DeliveryInv, NetworkThread
  PROVE  DeliveryInv'
<1> USE DEF Inv, DeliveryInv
<1>1. ASSUME Detach, events' = <<>>, pushed' = pushed PROVE DeliveryInv'
  <2>1. /\ listener' = FALSE /\ owner' = "cancelling" /\ UNCHANGED <<nw, blocks, running>>
    BY <1>1 DEF Detach, frameworkVars
  <2>2. InboxInv'
    <3>1. events' \in Seq(Event) /\ Len(events') = 0
      BY <1>1
    <3> QED BY <1>1, <2>1, <3>1 DEF InboxInv
  <2>3. ReceiveInv'
    BY <2>1, Zenon DEF ReceiveInv
  <2> QED BY <2>1, <2>2, <2>3, WaitedKept
<1>2. ASSUME TakeEvent, pushed' = IF Head(events).kind = "data" THEN Head(events).to ELSE pushed,
             Head(events).kind \in {"connected", "data"}
      PROVE  DeliveryInv'
  <2>1. /\ events # <<>> /\ events' = Tail(events)
        /\ UNCHANGED <<nw, sent, closed, read, cancelled, receiving, blocks, running, listener, heard, owner>>
        /\ owner = "using"
    BY <1>2 DEF TakeEvent, frameworkVars
  <2>2. /\ events' \in Seq(Event) /\ Len(events) \in Nat \ {0} /\ Head(events) = events[1] /\ Head(events) \in Event
        /\ Len(events') = Len(events) - 1 /\ \A k \in 1..Len(events') : events'[k] = events[k + 1]
    BY <2>1, HeadTailProperties, LenProperties, EmptySeq DEF InboxInv
  <2>3. pushed' = At(1) /\ pushed' \in 0..MaxBytes
    <3>1. pushed' = At(1)
      BY <1>2, <2>2 DEF At
    <3> QED BY <1>2, <2>2, <3>1 DEF Event, InboxInv
  <2>4. ASSUME NEW k \in 0..Len(events') PROVE At(k)' = At(k + 1)
    <3>1. CASE k = 0
      BY <2>3, <3>1 DEF At
    <3>2. CASE k # 0
      <4>1. k \in 1..Len(events') /\ k + 1 \in 1..Len(events) /\ k + 1 # 1 /\ k + 1 # 0
        BY <2>2, <3>2
      <4>2. events'[k] = events[k + 1] /\ events[k + 1].kind # "connected"
        BY <2>2, <4>1 DEF InboxInv
      <4> QED BY <3>2, <4>1, <4>2 DEF At
    <3> QED BY <3>1, <3>2
  <2>5. At(Len(events))' = At(Len(events))
    <3>1. PICK n \in 0..Len(events') : n = Len(events') /\ n + 1 = Len(events)
      BY <2>2
    <3>2. At(n)' = At(n + 1)
      BY <2>4
    <3>3. At(Len(events))' = At(n)'
      BY <3>1 DEF At
    <3> QED BY <3>1, <3>2, <3>3
  <2>6. InboxInv'
    <3>1. ASSUME NEW k \in 1..Len(events')
          PROVE  /\ events'[k].kind = "connected" => k = 1
                 /\ events'[k].kind = "data" => events'[k].from = At(k - 1)'
                 /\ events'[k].kind \in StreamErrors => k = Len(events') /\ ~listener
                 /\ events'[k].kind = "Closed" => nw = "failed" \/ (nw = "ready" /\ closed /\ At(k - 1)' = sent)
      <4>1. k + 1 \in 1..Len(events) /\ k - 1 \in 0..Len(events') /\ k + 1 # 1 /\ k + 1 - 1 = k /\ k - 1 + 1 = k
        BY <2>2
      <4>2. events'[k] = events[k + 1] /\ At(k - 1)' = At(k)
        BY <2>2, <2>4, <4>1
      <4>3. k + 1 = Len(events) => k = Len(events')
        BY <2>2
      <4> QED BY <4>1, <4>2, <4>3 DEF InboxInv
    <3> QED BY <2>1, <2>2, <2>3, <3>1, Zenon DEF InboxInv
  <2>7. ReceiveInv'
    <3> SUFFICES ASSUME listener PROVE ReceiveInv'
      BY <2>1, Zenon DEF ReceiveInv
    <3>1. heard # "nothing"
      BY <2>1, Zenon DEF ReceiveInv
    <3>2. \A kind : Queued(kind)' <=> Queued(kind)
      BY <2>1 DEF Queued
    <3>3. Holds(running)' <=> Holds(running)
      BY <2>1, <2>5 DEF Holds
    <3>4. \A i : Holds(blocks[i])' <=> Holds(blocks[i])
      BY <2>1, <2>5 DEF Holds
    <3> QED BY <2>1, <2>5, <3>1, <3>2, <3>3, <3>4, Zenon DEF ReceiveInv
  <2> QED BY <2>1, <2>6, <2>7, WaitedKept
<1>3. CASE DrainLink
  <2>1. Head(events).kind = "connected" /\ TakeEvent /\ pushed' = pushed => DeliveryInv'
    BY <1>2
  <2>2. Head(events).kind = "data" /\ TakeEvent /\ pushed' = Head(events).to => DeliveryInv'
    BY <1>2
  <2> QED BY <1>1, <1>3, <2>1, <2>2 DEF DrainLink, DropLink
<1>4. CASE CutMessage
  <2>1. UNCHANGED <<nw, sent, closed, read, cancelled, receiving, blocks, running, listener, heard, events, owner, pushed>>
    BY <1>4 DEF CutMessage, vars, frameworkVars, sharedVars
  <2>2. ReceiveInv'
    BY <2>1, Zenon DEF ReceiveInv, Holds, At, Queued
  <2> QED BY <2>1, <2>2, InboxKept, WaitedKept
<1>5. CASE Drop
  BY <1>1, <1>5 DEF Drop, DropLink
<1> QED BY <1>3, <1>4, <1>5 DEF NetworkThread

\* With the engine, the connection does what it does alone.
LEMMA StepsOfConnection ==
  ASSUME [InboundNext]_<<vars, inboundVars>>
  PROVE  [Next]_vars
  BY Zenon DEF InboundNext, inboundVars, NetworkThread, DrainLink, CutMessage, Drop, DropLink, Next

LEMMA DeliveryStep ==
  ASSUME Inv, DeliveryInv, [InboundNext]_<<vars, inboundVars>>
  PROVE  DeliveryInv'
<1>1. ASSUME Queue \/ Framework, UNCHANGED inboundVars PROVE DeliveryInv'
  <2>1. pushed' = pushed
    BY <1>1 DEF inboundVars
  <2> QED BY <1>1, <2>1, QueueDelivers, FrameworkDelivers
<1>2. ASSUME DestroyCancels, UNCHANGED inboundVars PROVE DeliveryInv'
  <2>1. /\ owner = "cancelling"
        /\ UNCHANGED <<nw, sent, closed, read, receiving, blocks, running, listener, heard, events, pushed>>
    BY <1>2 DEF DestroyCancels, inboundVars, frameworkVars, sharedVars
  <2>2. ~listener
    BY <2>1 DEF Inv, ListenerInv
  <2>3. ReceiveInv'
    BY <2>1, <2>2 DEF ReceiveInv
  <2> QED BY <2>1, <2>3, InboxKept, WaitedKept DEF DeliveryInv
<1>3. CASE UNCHANGED <<vars, inboundVars>>
  <2>1. UNCHANGED <<nw, sent, closed, read, cancelled, receiving, blocks, running, listener, heard, events, owner, pushed>>
    BY <1>3 DEF vars, inboundVars, frameworkVars, sharedVars
  <2>2. ReceiveInv'
    BY <2>1, Zenon DEF DeliveryInv, ReceiveInv, Holds, At, Queued
  <2> QED BY <2>1, <2>2, InboxKept, WaitedKept DEF DeliveryInv
<1> QED BY <1>1, <1>2, <1>3, NetworkDelivers DEF InboundNext

LEMMA InitDelivery == InboundInit => DeliveryInv
<1> SUFFICES ASSUME InboundInit PROVE DeliveryInv
  OBVIOUS
<1>1. /\ events = <<>> /\ Len(events) = 0 /\ pushed = 0 /\ nw = "preparing" /\ owner = "using" /\ cancelled = FALSE
      /\ blocks = <<>> /\ Len(blocks) = 0 /\ running.kind = "none" /\ receiving = FALSE /\ read = 0
  BY StateBlocks DEF InboundInit, Init
<1>2. InboxInv
  BY <1>1, AppleAssumption DEF InboxInv
<1>3. ReceiveInv
  BY <1>1 DEF ReceiveInv, Queued
<1>4. WaitedInv
  BY <1>1 DEF WaitedInv
<1> QED BY <1>2, <1>3, <1>4 DEF DeliveryInv

LEMMA DeliveryAlways == InboundSpec => [](Inv /\ DeliveryInv)
<1>1. InboundInit => Inv /\ DeliveryInv
  BY InitInv, InitDelivery DEF InboundInit
<1>2. Inv /\ DeliveryInv /\ [InboundNext]_<<vars, inboundVars>> => Inv' /\ DeliveryInv'
  BY StepsOfConnection, StepKeepsInv, DeliveryStep
<1> QED BY <1>1, <1>2, PTL DEF InboundSpec

\* Together with the engine's inbox and drain_link too, AppleTls keeps the contract of
\* tls_transport.hpp: the network thread drops the connection between two callbacks or not at all.
THEOREM CallbacksKeptInEngine == InboundSpec => KeepsCallbacks
<1>1. InboundInit => Init
  BY DEF InboundInit
<1>2. [InboundNext]_<<vars, inboundVars>> => [Next]_vars
  BY StepsOfConnection
<1>3. InboundSpec => Spec
  BY <1>1, <1>2, PTL DEF InboundSpec, Spec
<1> QED BY <1>3, CallbacksKept

\* For any stream and any way the framework cuts it, when drain_link (engine.cpp) takes the on_closed
\* of a connection that did not fail, the framer has been given every byte the server sent: receive()
\* in tls_apple.cpp passes a last receive's bytes on before it closes, and the inbox keeps their order.
THEOREM EverythingPushed == InboundSpec => []PushedAtClose
<1>1. DeliveryInv => PushedAtClose
  <2> SUFFICES ASSUME DeliveryInv, events # <<>>, Head(events).kind = "Closed", nw = "ready" PROVE pushed = sent
    BY DEF PushedAtClose
  <2>1. 1 \in 1..Len(events) /\ Head(events) = events[1]
    BY HeadTailProperties, LenProperties, EmptySeq DEF DeliveryInv, InboxInv
  <2>2. At(1 - 1) = sent
    BY <2>1 DEF DeliveryInv, InboxInv
  <2> QED BY <2>2 DEF At
<1> QED BY <1>1, DeliveryAlways, PTL

-----------------------------------------------------------------------------
(* The framer: what it cuts from a text is settled by the text's beginning. *)

LEMMA LeastNat ==
  ASSUME NEW S, S \subseteq Nat, S # {}
  PROVE  \E x \in S : \A y \in S : x <= y
<1> DEFINE R == OpToRel(<, Nat)
<1>1. IsWellFoundedOn(R, Nat)
  BY NatLessThanWellFounded, Zenon
<1>2. \A x, y \in Nat : <<y, x>> \in R <=> y < x
  BY DEF OpToRel
<1> HIDE DEF R
<1>3. PICK x \in S : \A y \in S : ~ (<<y, x>> \in R)
  BY <1>1, WFMin, Zenon
<1>4. \A y \in S : ~ (y < x)
  BY <1>2, <1>3, Zenon
<1> QED BY <1>4

LEMMA MinIs ==
  ASSUME NEW S, S \subseteq Nat, S # {}
  PROVE  Framer!Min(S) \in S /\ \A x \in S : Framer!Min(S) <= x
  BY LeastNat, Zenon DEF Framer!Min

\* The bytes of s after the first m and up to the n-th.
Cut(s, m, n) == SubSeq(s, m + 1, n)

LEMMA CutFacts ==
  ASSUME NEW S, NEW s \in Seq(S), NEW m \in Nat, NEW n \in Nat, m <= n, n <= Len(s)
  PROVE  /\ Cut(s, m, n) \in Seq(S) /\ Len(Cut(s, m, n)) = n - m
         /\ \A i \in 1..(n - m) : Cut(s, m, n)[i] = s[m + i]
<1>1. \A i \in (m + 1)..n : s[i] \in S
  BY ElementOfSeq
<1>2. /\ Cut(s, m, n) \in Seq(S)
      /\ Len(Cut(s, m, n)) = IF m + 1 <= n THEN n - (m + 1) + 1 ELSE 0
      /\ \A i \in 1..(n - (m + 1) + 1) : Cut(s, m, n)[i] = s[(m + 1) + i - 1]
  BY <1>1, SubSeqProperties DEF Cut
<1>3. \A i \in Int : (m + 1) + i - 1 = m + i
  OBVIOUS
<1> QED BY <1>2, <1>3

LEMMA BeginFacts ==
  ASSUME NEW S, NEW s \in Seq(S), NEW n \in Nat, n <= Len(s)
  PROVE  /\ SubSeq(s, 1, n) \in Seq(S) /\ Len(SubSeq(s, 1, n)) = n
         /\ \A i \in 1..n : SubSeq(s, 1, n)[i] = s[i]
<1>1. 0 \in Nat /\ 0 <= n /\ n - 0 = n /\ 0 + 1 = 1 /\ \A i \in 1..n : 0 + i = i
  OBVIOUS
<1>2. /\ Cut(s, 0, n) \in Seq(S) /\ Len(Cut(s, 0, n)) = n - 0
      /\ \A i \in 1..(n - 0) : Cut(s, 0, n)[i] = s[0 + i]
  BY <1>1, CutFacts, ZenonT(40)
<1> QED BY <1>1, <1>2, Zenon DEF Cut

LEMMA HeadEndIs ==
  ASSUME NEW S, NEW s \in Seq(S), NEW i \in Nat
  PROVE  i \in Framer!HeadEnds(s) <=>
           /\ i + 4 <= Len(s) /\ s[i + 1] = Framer!CR /\ s[i + 2] = Framer!LF
           /\ s[i + 3] = Framer!CR /\ s[i + 4] = Framer!LF
<1>1. i \in Framer!HeadEnds(s) <=> i + 4 <= Len(s) /\ SubSeq(s, i + 1, i + 4) = <<Framer!CR, Framer!LF, Framer!CR, Framer!LF>>
  BY DEF Framer!HeadEnds
<1>2. SUFFICES ASSUME i + 4 <= Len(s)
               PROVE  SubSeq(s, i + 1, i + 4) = <<Framer!CR, Framer!LF, Framer!CR, Framer!LF>> <=>
                        /\ s[i + 1] = Framer!CR /\ s[i + 2] = Framer!LF
                        /\ s[i + 3] = Framer!CR /\ s[i + 4] = Framer!LF
  BY <1>1, Zenon
<1>3. PICK c : c = Cut(s, i, i + 4)
  BY Zenon
<1>4. /\ c \in Seq(S) /\ Len(c) = (i + 4) - i /\ \A k \in 1..((i + 4) - i) : c[k] = s[i + k]
  <2>1. i + 4 \in Nat /\ i <= i + 4
    OBVIOUS
  <2> QED BY <1>2, <1>3, <2>1, CutFacts, Zenon
<1>5. Len(c) = 4 /\ c[1] = s[i + 1] /\ c[2] = s[i + 2] /\ c[3] = s[i + 3] /\ c[4] = s[i + 4]
  BY <1>4
<1>6. c = <<c[1], c[2], c[3], c[4]>>
  BY <1>4, <1>5
<1>7. <<c[1], c[2], c[3], c[4]>> = <<Framer!CR, Framer!LF, Framer!CR, Framer!LF>>
        <=> c[1] = Framer!CR /\ c[2] = Framer!LF /\ c[3] = Framer!CR /\ c[4] = Framer!LF
  BY Zenon
<1>8. c = <<Framer!CR, Framer!LF, Framer!CR, Framer!LF>>
        <=> c[1] = Framer!CR /\ c[2] = Framer!LF /\ c[3] = Framer!CR /\ c[4] = Framer!LF
  BY <1>6, <1>7, Zenon
<1> QED BY <1>3, <1>5, <1>8, Zenon DEF Cut

LEMMA FirstEnd ==
  ASSUME NEW S, NEW s \in Seq(S), Framer!HeadEnds(s) # {}
  PROVE  /\ Framer!Min(Framer!HeadEnds(s)) \in Nat /\ Framer!Min(Framer!HeadEnds(s)) \in Framer!HeadEnds(s)
         /\ Framer!Min(Framer!HeadEnds(s)) + 4 <= Len(s)
         /\ \A i \in Framer!HeadEnds(s) : i \in Nat /\ Framer!Min(Framer!HeadEnds(s)) <= i
<1>1. Framer!HeadEnds(s) \subseteq Nat
  BY DEF Framer!HeadEnds
<1>2. /\ Framer!Min(Framer!HeadEnds(s)) \in Framer!HeadEnds(s)
      /\ \A i \in Framer!HeadEnds(s) : Framer!Min(Framer!HeadEnds(s)) <= i
  BY <1>1, MinIs, Zenon
<1> QED BY <1>1, <1>2, HeadEndIs, Zenon

\* One of two texts begins with the other.
Agree(s, t) == \A i \in Nat \ {0} : i <= Len(s) /\ i <= Len(t) => s[i] = t[i]

LEMMA SameEnds ==
  ASSUME NEW S, NEW s \in Seq(S), NEW t \in Seq(S), Agree(s, t),
         NEW i \in Nat, i + 4 <= Len(s), i + 4 <= Len(t)
  PROVE  i \in Framer!HeadEnds(s) <=> i \in Framer!HeadEnds(t)
<1>1. s[i + 1] = t[i + 1] /\ s[i + 2] = t[i + 2] /\ s[i + 3] = t[i + 3] /\ s[i + 4] = t[i + 4]
  BY DEF Agree
<1> QED BY <1>1, HeadEndIs

LEMMA SameHead ==
  ASSUME NEW S, NEW s \in Seq(S), NEW t \in Seq(S), Agree(s, t), Framer!HeadEnds(t) # {},
         Framer!Min(Framer!HeadEnds(t)) + 4 <= Len(s)
  PROVE  /\ Framer!HeadEnds(s) # {} /\ Framer!Min(Framer!HeadEnds(s)) = Framer!Min(Framer!HeadEnds(t))
         /\ Framer!Length(s, Framer!HeadEnds(s)) = Framer!Length(t, Framer!HeadEnds(t))
<1>1. PICK h \in Nat : h = Framer!Min(Framer!HeadEnds(t))
  BY FirstEnd, Zenon
<1>2. /\ h \in Framer!HeadEnds(t) /\ h + 4 <= Len(t) /\ h + 4 <= Len(s)
      /\ \A i \in Framer!HeadEnds(t) : h <= i
  BY <1>1, FirstEnd, Zenon
<1>3. h \in Framer!HeadEnds(s)
  BY <1>2, SameEnds, Zenon
<1>4. PICK g \in Nat : g = Framer!Min(Framer!HeadEnds(s))
  BY <1>3, FirstEnd, Zenon
<1>5. g \in Framer!HeadEnds(s) /\ g <= h
  BY <1>3, <1>4, FirstEnd, Zenon
<1>6. Len(s) \in Nat /\ Len(t) \in Nat
  BY LenProperties, Zenon
<1>7. g + 4 <= Len(s) /\ g + 4 <= Len(t)
  BY <1>2, <1>5, <1>6
<1>8. g \in Framer!HeadEnds(t)
  BY <1>5, <1>7, SameEnds, Zenon
<1>9. g = h
  BY <1>2, <1>5, <1>8
<1>10. SubSeq(s, 1, h) = SubSeq(t, 1, h)
  <2>1. \A i \in 1..h : s[i] = t[i]
    BY <1>2, <1>6 DEF Agree
  <2>2. h <= Len(s) /\ h <= Len(t)
    BY <1>2, <1>6
  <2> QED BY <2>1, <2>2, BeginFacts, SeqEqual
<1> QED BY <1>1, <1>3, <1>4, <1>9, <1>10, Zenon DEF Framer!Length

LEMMA LengthType ==
  ASSUME NEW s, NEW ends
  PROVE  Framer!Length(s, ends) \in Nat \cup {-1}
<1>1. PICK head : head = SubSeq(s, 1, Framer!Min(ends))
  BY Zenon
<1>2. PICK lines : lines = {i \in 2..Len(head) : head[i] \in DOMAIN Lengths}
  BY Zenon
<1>3. ASSUME lines # {} PROVE head[Framer!Min(lines)] \in DOMAIN Lengths
  <2>1. lines \subseteq Nat
    BY <1>2
  <2>2. Framer!Min(lines) \in lines
    BY <1>3, <2>1, MinIs, Zenon
  <2> QED BY <1>2, <2>2, Zenon
<1> QED BY <1>1, <1>2, <1>3, StreamAssumption, Zenon DEF Framer!Length, Framer!ContentLength

\* A well-formed message that has arrived whole is cut out.
LEMMA NextCutsMessage ==
  ASSUME NEW S, NEW s \in Seq(S), NEW m \in Seq(S), Agree(s, m), Framer!WellFormed(m), Len(m) <= Len(s), ~failed
  PROVE  Framer!Next(s, Framer!HeadEnds(s)) = [buffer |-> Cut(s, Len(m), Len(s)), failed |-> FALSE, message |-> m]
<1>1. /\ Framer!HeadEnds(m) # {} /\ Framer!Length(m, Framer!HeadEnds(m)) # -1 /\ Len(m) <= MaxMessage
      /\ Len(m) = Framer!Min(Framer!HeadEnds(m)) + 4 + Framer!Length(m, Framer!HeadEnds(m))
  BY Zenon DEF Framer!WellFormed
<1>2. Len(m) \in Nat /\ Len(s) \in Nat
  BY LenProperties
<1>3. Framer!Min(Framer!HeadEnds(m)) \in Nat /\ Framer!Min(Framer!HeadEnds(m)) + 4 <= Len(m)
  BY <1>1, FirstEnd, Zenon
<1>4. PICK h \in Nat, length \in Nat :
        /\ h = Framer!Min(Framer!HeadEnds(s)) /\ length = Framer!Length(s, Framer!HeadEnds(s))
        /\ Len(m) = h + 4 + length /\ Framer!HeadEnds(s) # {}
  <2>1. Framer!Min(Framer!HeadEnds(m)) + 4 <= Len(s)
    BY <1>2, <1>3
  <2>2. Framer!Length(m, Framer!HeadEnds(m)) \in Nat
    BY <1>1, LengthType, Zenon
  <2> QED BY <1>1, <1>3, <2>1, <2>2, SameHead, Zenon
<1>5. length # -1 /\ ~(length > MaxMessage) /\ ~(h + 4 + length > MaxMessage) /\ ~(Len(s) < h + 4 + length)
  BY <1>1, <1>2, <1>4, StreamAssumption
<1>6. SubSeq(s, 1, h + 4 + length) = m
  <2>1. SubSeq(s, 1, Len(m)) = SubSeq(m, 1, Len(m))
    <3>1. \A i \in 1..Len(m) : s[i] = m[i]
      BY <1>2 DEF Agree
    <3> QED BY <1>2, <3>1, BeginFacts, SeqEqual
  <2> QED BY <1>4, <2>1, SubSeqFull, Zenon
<1>7. ~Framer!Broken(s, Framer!HeadEnds(s)) /\ Framer!NextTotal(h, length) = h + 4 + length
  BY <1>4, <1>5, Zenon DEF Framer!Broken, Framer!NextTotal
<1> QED BY <1>4, <1>5, <1>6, <1>7, Zenon DEF Framer!Next, Cut

\* Part of one is kept, and nothing is cut out.
LEMMA NextKeepsPart ==
  ASSUME NEW S, NEW s \in Seq(S), NEW m \in Seq(S), Agree(s, m), Framer!WellFormed(m), Len(s) < Len(m), ~failed
  PROVE  Framer!Next(s, Framer!HeadEnds(s)) = [buffer |-> s, failed |-> FALSE, message |-> <<>>]
<1>1. /\ Framer!HeadEnds(m) # {} /\ Framer!Length(m, Framer!HeadEnds(m)) # -1 /\ Len(m) <= MaxMessage
      /\ Len(m) = Framer!Min(Framer!HeadEnds(m)) + 4 + Framer!Length(m, Framer!HeadEnds(m))
  BY Zenon DEF Framer!WellFormed
<1>2. Len(m) \in Nat /\ Len(s) \in Nat /\ ~(Len(s) > MaxMessage)
  BY <1>1, LenProperties, StreamAssumption
<1>3. CASE Framer!HeadEnds(s) = {}
  <2>1. Framer!Broken(s, Framer!HeadEnds(s)) = FALSE
    BY <1>2, <1>3 DEF Framer!Broken
  <2> QED BY <1>3, <2>1, Zenon DEF Framer!Next
<1>4. CASE Framer!HeadEnds(s) # {}
  <2>1. PICK h \in Nat : h = Framer!Min(Framer!HeadEnds(s)) /\ h \in Framer!HeadEnds(s) /\ h + 4 <= Len(s)
    BY <1>4, FirstEnd, Zenon
  <2>2. h \in Framer!HeadEnds(m)
    BY <1>2, <2>1, SameEnds
  <2>3. Framer!Min(Framer!HeadEnds(m)) \in Nat /\ Framer!Min(Framer!HeadEnds(m)) <= h
    BY <1>1, <2>2, FirstEnd, Zenon
  <2>4. Framer!Min(Framer!HeadEnds(m)) + 4 <= Len(s)
    BY <1>2, <2>1, <2>3
  <2>5. PICK length \in Nat : length = Framer!Length(s, Framer!HeadEnds(s)) /\ Len(m) = h + 4 + length
    <3>1. Framer!Length(m, Framer!HeadEnds(m)) \in Nat
      BY <1>1, LengthType, Zenon
    <3>2. h = Framer!Min(Framer!HeadEnds(m)) /\ Framer!Length(s, Framer!HeadEnds(s)) = Framer!Length(m, Framer!HeadEnds(m))
      BY <1>1, <2>1, <2>4, SameHead, Zenon
    <3> QED BY <1>1, <3>1, <3>2, Zenon
  <2>6. length # -1 /\ ~(length > MaxMessage) /\ ~(h + 4 + length > MaxMessage) /\ Len(s) < h + 4 + length
    BY <1>1, <1>2, <2>5, StreamAssumption
  <2>7. Framer!Broken(s, Framer!HeadEnds(s)) = FALSE /\ Framer!NextTotal(h, length) = h + 4 + length
    BY <1>4, <2>1, <2>5, <2>6, Zenon DEF Framer!Broken, Framer!NextTotal
  <2> QED BY <1>4, <2>1, <2>5, <2>6, <2>7, Zenon DEF Framer!Next
<1> QED BY <1>3, <1>4, Zenon

\* From what is malformed nothing is ever cut out.
LEMMA NextRefuses ==
  ASSUME NEW S, NEW s \in Seq(S), NEW m \in Seq(S), Agree(s, m), Framer!IllFormed(m), ~failed
  PROVE  \E broken \in BOOLEAN :
           Framer!Next(s, Framer!HeadEnds(s)) = [buffer |-> s, failed |-> broken, message |-> <<>>]
<1>1. Len(m) \in Nat /\ Len(s) \in Nat
  BY LenProperties
<1>2. Framer!Broken(s, Framer!HeadEnds(s)) \in BOOLEAN
  <2>1. CASE Framer!HeadEnds(s) = {}
    BY <2>1 DEF Framer!Broken
  <2>2. CASE Framer!HeadEnds(s) # {}
    BY <2>2, Zenon DEF Framer!Broken
  <2> QED BY <2>1, <2>2, Zenon
<1>3. SUFFICES Framer!HeadEnds(s) # {} => Framer!Broken(s, Framer!HeadEnds(s))
  BY <1>2, Zenon DEF Framer!Next
<1>4. SUFFICES ASSUME Framer!HeadEnds(s) # {} PROVE Framer!Broken(s, Framer!HeadEnds(s))
  BY Zenon
<1>5. PICK h \in Nat : h = Framer!Min(Framer!HeadEnds(s)) /\ h \in Framer!HeadEnds(s) /\ h + 4 <= Len(s)
  BY <1>4, FirstEnd, Zenon
<1>6. PICK length \in Nat \cup {-1} : length = Framer!Length(s, Framer!HeadEnds(s))
  BY LengthType, Zenon
<1>7. SUFFICES length = -1 \/ length > MaxMessage \/ h + 4 + length > MaxMessage
  BY <1>4, <1>5, <1>6, Zenon DEF Framer!Broken, Framer!NextTotal
<1>8. CASE Framer!HeadEnds(m) = {}
  <2>1. Len(m) > MaxMessage
    BY <1>8, Zenon DEF Framer!IllFormed
  <2>2. ~(h + 4 <= Len(m))
    BY <1>5, <1>8, SameEnds, Zenon
  <2> QED BY <1>1, <2>1, <2>2, StreamAssumption
<1>9. CASE Framer!HeadEnds(m) # {}
  <2>1. PICK g \in Nat : /\ g = Framer!Min(Framer!HeadEnds(m)) /\ g \in Framer!HeadEnds(m) /\ g + 4 <= Len(m)
                         /\ \A i \in Framer!HeadEnds(m) : g <= i
    BY <1>9, FirstEnd, Zenon
  <2>2. g + 4 <= Len(s)
    <3>1. CASE h + 4 <= Len(m)
      <4>1. h \in Framer!HeadEnds(m)
        BY <1>5, <3>1, SameEnds, Zenon
      <4> QED BY <1>1, <1>5, <2>1, <4>1
    <3>2. CASE ~(h + 4 <= Len(m))
      BY <1>1, <1>5, <2>1, <3>2
    <3> QED BY <3>1, <3>2, Zenon
  <2>3. h = g /\ length = Framer!Length(m, Framer!HeadEnds(m))
    BY <1>5, <1>6, <1>9, <2>1, <2>2, SameHead, Zenon
  <2>4. length = -1 \/ g + 4 + length > MaxMessage
    BY <1>9, <2>1, <2>3, Zenon DEF Framer!IllFormed
  <2> QED BY <2>3, <2>4, Zenon
<1> QED BY <1>8, <1>9, Zenon

\* Line ends before a message are skipped.
LEMMA StartIs ==
  ASSUME NEW S, NEW s \in Seq(S)
  PROVE  \E n \in 0..Len(s) :
           /\ Framer!MessageStart(s) = n + 1
           /\ \A i \in 1..n : s[i] \in {Framer!CR, Framer!LF}
           /\ n < Len(s) => s[n + 1] \notin {Framer!CR, Framer!LF}
<1> DEFINE T == {i \in 1..Len(s) : s[i] \notin {Framer!CR, Framer!LF}} \cup {Len(s) + 1}
<1>1. Len(s) \in Nat
  BY LenProperties
<1>2. T \subseteq Nat /\ T # {}
  BY <1>1
<1>3. PICK x \in T : x = Framer!Min(T) /\ \A y \in T : x <= y
  <2> HIDE DEF T
  <2> QED BY <1>2, MinIs, Zenon
<1>4. Framer!MessageStart(s) = x
  BY <1>3, Zenon DEF Framer!MessageStart
<1>5. x - 1 \in 0..Len(s) /\ x = (x - 1) + 1
  BY <1>1
<1>6. ASSUME NEW i \in 1..(x - 1) PROVE s[i] \in {Framer!CR, Framer!LF}
  <2>1. i \in 1..Len(s) /\ ~(x <= i)
    BY <1>1, <1>5
  <2>2. i \notin T
    BY <1>3, <2>1, Zenon
  <2> QED BY <2>1, <2>2, Zenon
<1>7. x - 1 < Len(s) => s[x - 1 + 1] \notin {Framer!CR, Framer!LF}
  BY <1>1, <1>5
<1> QED BY <1>4, <1>5, <1>6, <1>7, Zenon

-----------------------------------------------------------------------------
(* A stream: the bytes of its items, one after another.                    *)

Item == Messages \cup Malformed \cup Seq({Framer!CR, Framer!LF})

\* After each item as many bytes more as it has.
Adds(items, ends, n) ==
  /\ ends \in [0..n -> Nat] /\ ends[0] = 0
  /\ \A k \in 1..n : ends[k] = ends[k - 1] + Len(items[k])

LEMMA ItemFacts ==
  ASSUME NEW item \in Item
  PROVE  /\ item \in Seq(Framer!Symbols) /\ Len(item) \in Nat
         /\ item \in Messages => Framer!WellFormed(item) /\ item \notin Malformed
         /\ item \in Malformed => Framer!IllFormed(item)
         /\ item \in Messages \cup Malformed => Len(item) > 0 /\ item[1] \notin {Framer!CR, Framer!LF}
         /\ item \notin Messages \cup Malformed => \A i \in 1..Len(item) : item[i] \in {Framer!CR, Framer!LF}
<1>1. item \in Messages \cup Malformed => Framer!Starts(item)
  BY StreamAssumption, Zenon DEF Framer!WellFormed, Framer!IllFormed
<1>2. item \notin Messages \cup Malformed => item \in Seq({Framer!CR, Framer!LF})
  BY Zenon DEF Item
<1>3. {Framer!CR, Framer!LF} \subseteq Framer!Symbols
  BY Zenon DEF Framer!Symbols
<1>4. item \in Seq(Framer!Symbols)
  BY <1>1, <1>2, <1>3, SeqMonotonic, Zenon DEF Framer!Starts
<1>5. Len(item) \in Nat /\ (item # <<>> => Len(item) > 0)
  BY <1>4, LenProperties, EmptySeq
<1>6. item \in Messages => Framer!WellFormed(item)
  BY StreamAssumption, Zenon
<1>7. item \in Malformed => Framer!IllFormed(item)
  BY StreamAssumption, Zenon
<1>8. ASSUME item \in Messages, item \in Malformed PROVE FALSE
  <2>1. PICK length, least : /\ Framer!HeadEnds(item) # {} /\ length # -1 /\ Len(item) = least + 4 + length
                             /\ Len(item) <= MaxMessage
                             /\ length = Framer!Length(item, Framer!HeadEnds(item))
                             /\ least = Framer!Min(Framer!HeadEnds(item))
    BY <1>6, <1>8, Zenon DEF Framer!WellFormed
  <2>2. length = -1 \/ least + 4 + length > MaxMessage
    BY <1>7, <1>8, <2>1, Zenon DEF Framer!IllFormed
  <2>3. ~(Len(item) > MaxMessage)
    BY <1>5, <2>1, StreamAssumption
  <2> QED BY <2>1, <2>2, <2>3, Zenon
<1>9. item \notin Messages \cup Malformed => \A i \in 1..Len(item) : item[i] \in {Framer!CR, Framer!LF}
  BY <1>2, ElementOfSeq, Zenon
<1> QED BY <1>1, <1>4, <1>5, <1>6, <1>7, <1>8, <1>9, Zenon DEF Framer!Starts

LEMMA EndsExist ==
  ASSUME NEW items \in Seq(Item), NEW n \in 0..Len(items)
  PROVE  \E ends : Adds(items, ends, n)
<1> DEFINE Fails == {m \in Nat : m <= Len(items) /\ ~ \E ends : Adds(items, ends, m)}
<1>1. SUFFICES ASSUME Fails # {} PROVE FALSE
  BY LenProperties
<1>2. Fails \subseteq Nat
  OBVIOUS
<1> HIDE DEF Fails
<1>3. PICK m \in Fails : \A j \in Fails : m <= j
  BY <1>1, <1>2, LeastNat, Zenon
<1>4. m \in Nat /\ m <= Len(items) /\ Len(items) \in Nat
  BY LenProperties, Zenon DEF Fails
<1>5. m # 0
  <2>1. Adds(items, [k \in 0..0 |-> 0], 0)
    BY DEF Adds
  <2> QED BY <2>1, <1>3, Zenon DEF Fails
<1>6. PICK p \in Nat : m = p + 1
  BY <1>4, <1>5
<1>7. PICK ends : Adds(items, ends, p)
  <2>1. p \notin Fails
    BY <1>3, <1>4, <1>6
  <2> QED BY <1>4, <1>6, <2>1 DEF Fails
<1>8. PICK more : more = [k \in 0..m |-> IF k <= p THEN ends[k] ELSE ends[p] + Len(items[m])]
  BY Zenon
<1>9. Len(items[m]) \in Nat
  <2>1. items[m] \in Item
    BY <1>4, <1>5, ElementOfSeq
  <2> QED BY <2>1, ItemFacts, Zenon
<1>10. Adds(items, more, m)
  <2>1. more \in [0..m -> Nat]
    BY <1>4, <1>6, <1>7, <1>8, <1>9 DEF Adds
  <2>2. more[0] = 0
    BY <1>4, <1>6, <1>7, <1>8 DEF Adds
  <2>3. ASSUME NEW k \in 1..m PROVE more[k] = more[k - 1] + Len(items[k])
    <3>1. CASE k <= p
      BY <1>4, <1>6, <1>7, <1>8, <3>1 DEF Adds
    <3>2. CASE k = m
      BY <1>4, <1>6, <1>7, <1>8, <3>2 DEF Adds
    <3> QED BY <1>6, <3>1, <3>2
  <2> QED BY <2>1, <2>2, <2>3, Zenon DEF Adds
<1> QED BY <1>3, <1>10, Zenon DEF Fails

LEMMA EndsAdd ==
  ASSUME NEW items \in Seq(Item)
  PROVE  Adds(items, Ends(items), Len(items))
<1>1. Len(items) \in 0..Len(items)
  BY LenProperties
<1>2. PICK f : Adds(items, f, Len(items))
  BY <1>1, EndsExist, Zenon
<1>3. f = [k \in 0..Len(items) |-> IF k = 0 THEN 0 ELSE f[k - 1] + Len(items[k])]
  BY <1>2, LenProperties DEF Adds
<1>4. Ends(items) = [k \in 0..Len(items) |-> IF k = 0 THEN 0 ELSE Ends(items)[k - 1] + Len(items[k])]
  BY <1>3, Zenon DEF Ends
<1>5. Ends(items) = f
  <2> DEFINE e == Ends(items)
  <2> DEFINE Fails == {k \in Nat : k <= Len(items) /\ e[k] # f[k]}
  <2>1. ASSUME Fails # {} PROVE FALSE
    <3>1. Fails \subseteq Nat
      BY Zenon
    <3>2. PICK k \in Fails : \A j \in Fails : k <= j
      <4> HIDE DEF Fails
      <4> QED BY <2>1, <3>1, LeastNat, Zenon
    <3>3. k \in Nat /\ k <= Len(items) /\ Len(items) \in Nat /\ e[k] # f[k]
      BY LenProperties, Zenon
    <3>4. k # 0
      BY <1>2, <1>4, <3>3 DEF Adds
    <3>5. k - 1 \in Nat /\ k - 1 <= Len(items) /\ ~(k <= k - 1)
      BY <3>3, <3>4
    <3>6. e[k - 1] = f[k - 1]
      BY <3>2, <3>5, Zenon
    <3> HIDE DEF e
    <3>7. e[k] = e[k - 1] + Len(items[k])
      BY <1>4, <3>3, <3>4 DEF e
    <3>8. f[k] = f[k - 1] + Len(items[k])
      BY <1>2, <3>3, <3>4 DEF Adds
    <3> QED BY <3>3, <3>6, <3>7, <3>8, Zenon
  <2>2. \A k \in 0..Len(items) : e[k] = f[k]
    BY <2>1, LenProperties
  <2> HIDE DEF e
  <2>3. e = [k \in 0..Len(items) |-> e[k]] /\ f = [k \in 0..Len(items) |-> f[k]]
    BY <1>2, <1>4, Zenon DEF Adds, e
  <2>4. e = f
    BY <2>2, <2>3, Zenon
  <2> QED BY <2>4, Zenon DEF e
<1> QED BY <1>2, <1>5, Zenon

IsStream(s) ==
  /\ s.items \in Seq(Item) /\ Adds(s.items, s.ends, Len(s.items))
  /\ s.bytes \in Seq(Framer!Symbols) /\ Len(s.bytes) = s.ends[Len(s.items)]
  /\ \A k \in 1..Len(s.items) : \A i \in 1..Len(s.items[k]) : s.bytes[s.ends[k - 1] + i] = s.items[k][i]

LEMMA EndsGrow ==
  ASSUME NEW items \in Seq(Item), NEW ends, Adds(items, ends, Len(items)),
         NEW j \in 0..Len(items), NEW k \in 0..Len(items), j <= k
  PROVE  ends[j] <= ends[k]
<1> DEFINE Fails == {i \in Nat : j <= i /\ i <= Len(items) /\ ends[i] < ends[j]}
<1>1. Len(items) \in Nat /\ \A i \in 0..Len(items) : ends[i] \in Nat
  BY LenProperties, Zenon DEF Adds
<1>2. ASSUME Fails # {} PROVE FALSE
  <2>1. Fails \subseteq Nat
    BY Zenon
  <2>2. PICK i \in Fails : \A h \in Fails : i <= h
    <3> HIDE DEF Fails
    <3> QED BY <1>2, <2>1, LeastNat, Zenon
  <2>3. i \in Nat /\ j <= i /\ i <= Len(items) /\ ends[i] < ends[j] /\ i # j
    BY <1>1
  <2>4. i - 1 \in Nat /\ j <= i - 1 /\ i - 1 <= Len(items) /\ i \in 1..Len(items) /\ ~(i <= i - 1)
    BY <1>1, <2>3
  <2>5. ~(ends[i - 1] < ends[j])
    BY <2>2, <2>4, Zenon
  <2>6. items[i] \in Item
    BY <2>4, ElementOfSeq, Zenon
  <2>7. ends[i] = ends[i - 1] + Len(items[i]) /\ Len(items[i]) \in Nat
    BY <2>4, <2>6, ItemFacts, Zenon DEF Adds
  <2>8. ends[i] \in Nat /\ ends[i - 1] \in Nat /\ ends[j] \in Nat
    BY <1>1, <2>4
  <2> QED BY <2>3, <2>5, <2>7, <2>8
<1> QED BY <1>1, <1>2

\* Every byte is of an item.
LEMMA ItemOf ==
  ASSUME NEW items \in Seq(Item), NEW ends, Adds(items, ends, Len(items)), NEW x \in 1..ends[Len(items)]
  PROVE  \E k \in 1..Len(items) : ends[k - 1] < x /\ x <= ends[k]
<1> DEFINE Reach == {k \in Nat : k <= Len(items) /\ x <= ends[k]}
<1>1. /\ Len(items) \in Nat /\ ends[0] = 0 /\ \A i \in 0..Len(items) : ends[i] \in Nat
      /\ x \in Nat /\ x > 0 /\ x <= ends[Len(items)]
  BY LenProperties DEF Adds
<1>2. Reach \subseteq Nat /\ Len(items) \in Reach
  BY <1>1
<1>3. PICK k \in Reach : \A h \in Reach : k <= h
  <2> HIDE DEF Reach
  <2> QED BY <1>2, LeastNat, Zenon
<1>4. k \in Nat /\ k <= Len(items) /\ x <= ends[k] /\ k # 0
  BY <1>1
<1>5. k - 1 \in Nat /\ k - 1 <= Len(items) /\ ~(k <= k - 1) /\ k \in 1..Len(items)
  BY <1>1, <1>4
<1>6. ~(x <= ends[k - 1])
  BY <1>3, <1>5, Zenon
<1>7. ends[k - 1] \in Nat
  BY <1>1, <1>5
<1> QED BY <1>1, <1>4, <1>5, <1>6, <1>7

LEMMA OneItem ==
  ASSUME NEW items \in Seq(Item), NEW ends, Adds(items, ends, Len(items)), NEW x \in Nat,
         NEW j \in 1..Len(items), NEW k \in 1..Len(items),
         ends[j - 1] < x, x <= ends[j], ends[k - 1] < x, x <= ends[k]
  PROVE  j = k
<1>1. Len(items) \in Nat /\ \A i \in 0..Len(items) : ends[i] \in Nat
  BY LenProperties, Zenon DEF Adds
<1>2. j - 1 \in 0..Len(items) /\ k - 1 \in 0..Len(items) /\ j \in 0..Len(items) /\ k \in 0..Len(items)
  BY <1>1
<1>3. ends[j] \in Nat /\ ends[k] \in Nat /\ ends[j - 1] \in Nat /\ ends[k - 1] \in Nat
  BY <1>1, <1>2, Zenon
<1>4. j <= k - 1 => ends[j] <= ends[k - 1]
  BY <1>2, EndsGrow, Zenon
<1>5. k <= j - 1 => ends[k] <= ends[j - 1]
  BY <1>2, EndsGrow, Zenon
<1> QED BY <1>3, <1>4, <1>5

\* What the server says is such a stream.
LEMMA SaysStream ==
  ASSUME NEW items \in Seq(Item)
  PROVE  IsStream(Say(items)) /\ Say(items).items = items
<1> DEFINE ends == Ends(items)
           of(i) == CHOOSE k \in 1..Len(items) : i \in (ends[k - 1] + 1)..ends[k]
           bytes == [i \in 1..ends[Len(items)] |-> items[of(i)][i - ends[of(i) - 1]]]
<1>3. Say(items) = [items |-> items, ends |-> ends, bytes |-> bytes]
  BY Zenon DEF Say
<1>1. Adds(items, ends, Len(items))
  BY EndsAdd, Zenon
<1> HIDE DEF ends
<1>2. bytes = [i \in 1..ends[Len(items)] |-> items[of(i)][i - ends[of(i) - 1]]]
  BY Zenon
<1> HIDE DEF bytes
<1>4. Len(items) \in Nat /\ \A i \in 0..Len(items) : ends[i] \in Nat
  BY <1>1, LenProperties, Zenon DEF Adds
<1>5. ASSUME NEW x \in 1..ends[Len(items)]
      PROVE  of(x) \in 1..Len(items) /\ ends[of(x) - 1] < x /\ x <= ends[of(x)]
  <2>1. PICK k \in 1..Len(items) : ends[k - 1] < x /\ x <= ends[k]
    BY <1>1, ItemOf, Zenon
  <2>2. k - 1 \in 0..Len(items) /\ k \in 0..Len(items)
    BY <1>4
  <2>3. x \in (ends[k - 1] + 1)..ends[k]
    BY <1>4, <2>1, <2>2
  <2>4. of(x) \in 1..Len(items) /\ x \in (ends[of(x) - 1] + 1)..ends[of(x)]
    BY <2>3, Zenon
  <2> HIDE DEF of
  <2>5. of(x) - 1 \in 0..Len(items) /\ of(x) \in 0..Len(items)
    BY <1>4, <2>4
  <2> QED BY <1>4, <2>4, <2>5
<1>6. ASSUME NEW k \in 1..Len(items), NEW i \in 1..Len(items[k])
      PROVE  ends[k - 1] + i \in 1..ends[Len(items)] /\ bytes[ends[k - 1] + i] = items[k][i]
  <2>1. items[k] \in Item
    BY ElementOfSeq, Zenon
  <2>2. Len(items[k]) \in Nat /\ ends[k] = ends[k - 1] + Len(items[k])
    BY <1>1, <2>1, ItemFacts, Zenon DEF Adds
  <2>3. k - 1 \in 0..Len(items) /\ k \in 0..Len(items) /\ Len(items) \in 0..Len(items) /\ k <= Len(items)
    BY <1>4
  <2>4. ends[k - 1] \in Nat /\ ends[k] \in Nat /\ ends[Len(items)] \in Nat /\ ends[k] <= ends[Len(items)]
    BY <1>1, <1>4, <2>3, EndsGrow, Zenon
  <2>5. PICK x \in Nat : x = ends[k - 1] + i
    BY <2>4
  <2>6. x \in 1..ends[Len(items)] /\ ends[k - 1] < x /\ x <= ends[k] /\ x - ends[k - 1] = i
    <3>1. PICK a \in Nat, b \in Nat, c \in Nat, l \in Nat :
            a = ends[k - 1] /\ b = ends[k] /\ c = ends[Len(items)] /\ l = Len(items[k])
      BY <2>2, <2>4, Zenon
    <3>2. i \in 1..l /\ b = a + l /\ b <= c /\ x = a + i
      BY <2>2, <2>4, <2>5, <3>1, Zenon
    <3>3. x \in 1..c /\ a < x /\ x <= b /\ x - a = i
      BY <3>2
    <3> QED BY <3>1, <3>3, Zenon
  <2>7. of(x) \in 1..Len(items) /\ ends[of(x) - 1] < x /\ x <= ends[of(x)]
    BY <1>5, <2>6, Zenon
  <2>8. bytes[x] = items[of(x)][x - ends[of(x) - 1]]
    BY <1>2, <2>6, Zenon
  <2> HIDE DEF of
  <2>9. of(x) = k
    BY <1>1, <2>6, <2>7, OneItem, Zenon
  <2> QED BY <2>5, <2>6, <2>8, <2>9, Zenon
<1>7. bytes \in Seq(Framer!Symbols) /\ Len(bytes) = ends[Len(items)]
  <2>1. ends[Len(items)] \in Nat
    BY <1>4
  <2>2. ASSUME NEW x \in 1..ends[Len(items)] PROVE bytes[x] \in Framer!Symbols
    <3>1. PICK k \in 1..Len(items) : ends[k - 1] < x /\ x <= ends[k]
      BY <1>1, ItemOf
    <3>2. items[k] \in Item
      BY ElementOfSeq
    <3>3. items[k] \in Seq(Framer!Symbols) /\ Len(items[k]) \in Nat /\ ends[k] = ends[k - 1] + Len(items[k])
      BY <1>1, <3>2, ItemFacts DEF Adds
    <3>4. ends[k - 1] \in Nat /\ ends[k] \in Nat
      BY <1>4
    <3>5. PICK i \in 1..Len(items[k]) : x = ends[k - 1] + i
      <4>1. x - ends[k - 1] \in 1..Len(items[k]) /\ x = ends[k - 1] + (x - ends[k - 1])
        BY <3>1, <3>3, <3>4
      <4> QED BY <4>1
    <3>6. bytes[x] = items[k][i]
      BY <1>6, <3>5
    <3> QED BY <3>3, <3>5, <3>6, ElementOfSeq
  <2>3. bytes = [x \in 1..ends[Len(items)] |-> bytes[x]]
    BY <1>2
  <2>4. bytes \in [1..ends[Len(items)] -> Framer!Symbols]
    BY <2>2, <2>3
  <2> QED BY <2>1, <2>4, IsASeq, LenProperties
<1>8. PICK s : /\ s = Say(items)
               /\ s.items = items /\ s.ends = ends /\ s.bytes = bytes
  BY <1>3
<1>9. \A k \in 1..Len(items) : \A i \in 1..Len(items[k]) : bytes[ends[k - 1] + i] = items[k][i]
  BY <1>6, Zenon
<1>10. s.items \in Seq(Item) /\ Adds(s.items, s.ends, Len(s.items))
  BY ONLY <1>1, <1>8, items \in Seq(Item)
<1>11. s.bytes \in Seq(Framer!Symbols) /\ Len(s.bytes) = s.ends[Len(s.items)]
  BY ONLY <1>7, <1>8
<1>12. \A k \in 1..Len(s.items) : \A i \in 1..Len(s.items[k]) : s.bytes[s.ends[k - 1] + i] = s.items[k][i]
  BY ONLY <1>8, <1>9
<1>13. IsStream(s)
  BY <1>10, <1>11, <1>12, Zenon DEF IsStream
<1> QED BY <1>8, <1>13, Zenon

-----------------------------------------------------------------------------
(* What comes after the items up to k, when only line ends lie between     *)
(* them and the byte q.                                                    *)

\* Only line ends lie between the end of item k and q.
Between(s, k, q) == s.ends[k] <= q /\ \A i \in Nat : s.ends[k] < i /\ i <= q => s.bytes[i] \in {Framer!CR, Framer!LF}

LEMMA StreamFacts ==
  ASSUME NEW s, IsStream(s)
  PROVE  /\ Len(s.items) \in Nat /\ Len(s.bytes) \in Nat /\ s.bytes \in Seq(Framer!Symbols)
         /\ \A k \in 0..Len(s.items) : s.ends[k] \in Nat /\ s.ends[k] <= Len(s.bytes)
         /\ \A k \in 1..Len(s.items) : s.items[k] \in Item /\ s.ends[k] = s.ends[k - 1] + Len(s.items[k])
         /\ \A j, k \in 0..Len(s.items) : j <= k => s.ends[j] <= s.ends[k]
<1>1. s.items \in Seq(Item) /\ Adds(s.items, s.ends, Len(s.items)) /\ Len(s.bytes) = s.ends[Len(s.items)]
  BY DEF IsStream
<1>2. Len(s.items) \in Nat /\ Len(s.bytes) \in Nat /\ s.bytes \in Seq(Framer!Symbols)
  BY LenProperties DEF IsStream
<1>3. \A j, k \in 0..Len(s.items) : j <= k => s.ends[j] <= s.ends[k]
  BY <1>1, EndsGrow
<1>4. \A k \in 0..Len(s.items) : s.ends[k] \in Nat
  BY <1>1 DEF Adds
<1>5. \A k \in 0..Len(s.items) : s.ends[k] <= Len(s.bytes)
  BY <1>1, <1>2, <1>3
<1>6. \A k \in 1..Len(s.items) : s.items[k] \in Item
  BY <1>1, ElementOfSeq
<1>7. \A k \in 1..Len(s.items) : s.ends[k] = s.ends[k - 1] + Len(s.items[k])
  BY <1>1 DEF Adds
<1> QED BY <1>2, <1>3, <1>4, <1>5, <1>6, <1>7

\* No message, and nothing malformed, begins there.
LEMMA NoneBetween ==
  ASSUME NEW s, IsStream(s), NEW k \in 0..Len(s.items), NEW q \in Nat, Between(s, k, q),
         NEW j \in (k + 1)..Len(s.items), s.items[j] \in Messages \cup Malformed
  PROVE  q <= s.ends[j - 1] /\ s.ends[j - 1] < s.ends[j]
<1>1. Len(s.items) \in Nat
  BY StreamFacts
<1>2. j \in 1..Len(s.items) /\ j - 1 \in 0..Len(s.items) /\ k <= j - 1
  BY <1>1
<1>3. /\ s.ends[j - 1] \in Nat /\ s.ends[k] \in Nat /\ s.ends[k] <= s.ends[j - 1]
      /\ s.items[j] \in Item /\ s.ends[j] = s.ends[j - 1] + Len(s.items[j])
  BY <1>2, StreamFacts, Zenon
<1>4. Len(s.items[j]) \in Nat /\ Len(s.items[j]) > 0 /\ s.items[j][1] \notin {Framer!CR, Framer!LF}
  BY <1>3, ItemFacts
<1>5. 1 \in 1..Len(s.items[j])
  BY <1>4
<1>6. s.bytes[s.ends[j - 1] + 1] = s.items[j][1]
  BY <1>2, <1>5 DEF IsStream
<1>7. PICK x \in Nat : x = s.ends[j - 1] + 1
  BY <1>3
<1>8. ~(s.ends[k] < x /\ x <= q)
  BY <1>4, <1>6, <1>7 DEF Between
<1>9. s.ends[j - 1] < s.ends[j]
  BY <1>3, <1>4
<1> QED BY <1>3, <1>7, <1>8, <1>9

\* One of them begins where the line ends stop.
LEMMA OneAfter ==
  ASSUME NEW s, IsStream(s), NEW k \in 0..Len(s.items), NEW q \in Nat, Between(s, k, q),
         q < Len(s.bytes), s.bytes[q + 1] \notin {Framer!CR, Framer!LF}
  PROVE  \E j \in (k + 1)..Len(s.items) :
           /\ s.ends[j - 1] = q /\ s.items[j] \in Messages \cup Malformed
           /\ \A i \in (k + 1)..(j - 1) : s.items[i] \notin Messages \cup Malformed
<1>1. PICK x \in Nat : x = q + 1
  OBVIOUS
<1>2. Len(s.items) \in Nat /\ Len(s.bytes) \in Nat /\ s.ends[k] \in Nat /\ s.ends[k] <= q
  BY StreamFacts DEF Between
<1>3. PICK j \in 1..Len(s.items) : s.ends[j - 1] < x /\ x <= s.ends[j]
  <2>1. x \in 1..s.ends[Len(s.items)]
    BY <1>1, <1>2 DEF IsStream
  <2> QED BY <2>1, ItemOf, Zenon DEF IsStream
<1>4. j \in 0..Len(s.items) /\ j - 1 \in 0..Len(s.items)
  BY <1>2
<1>5. /\ s.ends[j - 1] \in Nat /\ s.ends[j] \in Nat /\ s.items[j] \in Item
      /\ s.ends[j] = s.ends[j - 1] + Len(s.items[j])
      /\ j <= k => s.ends[j] <= s.ends[k]
  BY <1>4, StreamFacts, Zenon
<1>6. j \in (k + 1)..Len(s.items)
  <2>1. PICK l \in Nat, a \in Nat, b \in Nat : l = Len(s.items) /\ a = s.ends[k] /\ b = s.ends[j]
    BY <1>2, <1>5
  <2>2. a <= q /\ q < b /\ (j <= k => b <= a)
    BY <1>1, <1>2, <1>3, <1>5, <2>1
  <2>3. ~(j <= k)
    BY <2>2
  <2> QED BY <2>1, <2>3
<1>7. Len(s.items[j]) \in Nat
  BY <1>5, ItemFacts
<1>8. PICK i \in 1..Len(s.items[j]) : x = s.ends[j - 1] + i
  <2>1. x - s.ends[j - 1] \in 1..Len(s.items[j]) /\ x = s.ends[j - 1] + (x - s.ends[j - 1])
    <3>1. PICK a \in Nat, b \in Nat, l \in Nat : a = s.ends[j - 1] /\ b = s.ends[j] /\ l = Len(s.items[j])
      BY <1>5, <1>7
    <3>2. a < x /\ x <= b /\ b = a + l
      BY <1>3, <1>5, <3>1
    <3>3. x - a \in 1..l /\ x = a + (x - a)
      BY <3>2
    <3> QED BY <3>1, <3>3
  <2> QED BY <2>1
<1>9. s.items[j][i] \notin {Framer!CR, Framer!LF}
  <2>1. s.bytes[s.ends[j - 1] + i] = s.items[j][i]
    BY Zenon DEF IsStream
  <2> QED BY <1>1, <1>8, <2>1, Zenon
<1>10. s.items[j] \in Messages \cup Malformed
  BY <1>5, <1>8, <1>9, ItemFacts
<1>11. s.ends[j - 1] = q
  BY <1>1, <1>3, <1>5, <1>6, <1>10, NoneBetween
<1>12. ASSUME NEW h \in (k + 1)..(j - 1), s.items[h] \in Messages \cup Malformed PROVE FALSE
  <2>1. h \in (k + 1)..Len(s.items) /\ h \in 0..Len(s.items) /\ h <= j - 1 /\ h - 1 \in 0..Len(s.items)
    <3>1. PICK l \in Nat : l = Len(s.items)
      BY <1>2
    <3>2. j \in 1..l /\ k \in 0..l
      BY <3>1
    <3> QED BY <3>1, <3>2
  <2>2. q <= s.ends[h - 1] /\ s.ends[h - 1] < s.ends[h]
    BY <1>12, <2>1, NoneBetween, Zenon
  <2>3. s.ends[h] <= s.ends[j - 1] /\ s.ends[h] \in Nat /\ s.ends[h - 1] \in Nat
    BY <1>4, <2>1, StreamFacts
  <2>4. PICK a \in Nat, b \in Nat : a = s.ends[h - 1] /\ b = s.ends[h]
    BY <2>3
  <2>5. q <= a /\ a < b /\ b <= q
    BY <1>11, <2>2, <2>3, <2>4
  <2> QED BY <2>5
<1> QED BY <1>6, <1>10, <1>11, <1>12
=============================================================================
