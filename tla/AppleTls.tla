------------------------------ MODULE AppleTls ------------------------------
(***************************************************************************)
(* One AppleTls connection (net/tls_apple.cpp): the blocks that run one    *)
(* after another on its dispatch queue, and the network thread, which      *)
(* destroys it.  They share Shared.  Network.framework and the server are  *)
(* external: the framework reports state changes and completes receives by *)
(* putting blocks on the queue, also blocks that a cancel has overtaken.   *)
(* Bytes are numbered in the order in which the server sends them.         *)
(***************************************************************************)
EXTENDS Integers, Sequences

CONSTANT MaxBytes   \* bound on what the server sends

ASSUME AppleAssumption == MaxBytes \in Nat

VARIABLES
  nw,          \* the framework's connection: "preparing", "waiting", "ready" or "failed"
  cancelled,   \* nw_connection_cancel was called
  sent,        \* bytes the server has sent
  closed,      \* the server has closed its side
  read,        \* bytes handed to completed receives
  receiving,   \* a receive is outstanding
  blocks,      \* blocks waiting on the queue
  running,     \* the block that runs, NoBlock between blocks
  listener,    \* Shared::listener is set
  inside,      \* a callback is running, under Shared::mutex
  owner,       \* the network thread's view: "using", "cancelling" in the destructor, "gone"
  heard,       \* what the listener heard last of the connection's state
  events       \* callbacks the listener was given and the network thread has not looked at

frameworkVars == <<nw, sent, closed, read>>
sharedVars == <<listener, inside, heard, events>>
vars == <<frameworkVars, cancelled, receiving, blocks, running, sharedVars, owner>>

\* A state change to ready, to waiting or failed ("down"), or a receive that completed with the
\* bytes from+1..to; `ends` says it brought is_complete or an error.
Block == [kind: {"ready", "down", "received", "cancel"}, from: 0..MaxBytes, to: 0..MaxBytes, ends: BOOLEAN]
StateBlock(kind) == [kind |-> kind, from |-> 0, to |-> 0, ends |-> FALSE]
NoBlock == StateBlock("none")

\* A callback to the listener: on_connected, on_data with the bytes from+1..to, or on_closed.
StreamErrors == {"Closed", "ConnectFailed", "HandshakeFailed"}
Event == [kind: {"connected", "data"} \cup StreamErrors, from: 0..MaxBytes, to: 0..MaxBytes]
Callback(kind, from, to) == [kind |-> kind, from |-> from, to |-> to]

TypeOK ==
  /\ sent \in 0..MaxBytes /\ read \in 0..MaxBytes
  /\ blocks \in Seq(Block) /\ running \in Block \cup {NoBlock}

Init ==
  /\ nw = "preparing" /\ cancelled = FALSE /\ sent = 0 /\ closed = FALSE /\ read = 0
  /\ receiving = FALSE /\ blocks = <<>> /\ running = NoBlock
  /\ listener = TRUE /\ inside = FALSE /\ owner = "using" /\ heard = "nothing" /\ events = <<>>

-----------------------------------------------------------------------------
(* The server and Network.framework.                                       *)

ServerSends ==
  /\ nw = "ready" /\ ~closed /\ sent < MaxBytes
  /\ sent' \in (sent + 1)..MaxBytes
  /\ UNCHANGED <<nw, closed, read, cancelled, receiving, blocks, running, sharedVars, owner>>

ServerCloses ==
  /\ nw = "ready" /\ ~closed /\ closed' = TRUE
  /\ UNCHANGED <<nw, sent, read, cancelled, receiving, blocks, running, sharedVars, owner>>

\* A waiting connection tries again by itself.
StateChanges(state) ==
  /\ ~cancelled
  /\ \/ nw = "preparing" /\ state # nw
     \/ nw = "waiting" /\ state \in {"ready", "failed"}
     \/ nw = "ready" /\ state = "failed"
  /\ nw' = state
  /\ blocks' = Append(blocks, StateBlock(IF state = "ready" THEN "ready" ELSE "down"))
  /\ UNCHANGED <<sent, closed, read, cancelled, receiving, running, sharedVars, owner>>

\* A receive completes with at least one byte; at the end of the stream, or with an error, it may
\* bring none.
ReceiveCompletes ==
  /\ receiving /\ receiving' = FALSE
  /\ \E to \in read..sent, ends \in BOOLEAN :
       /\ ends => nw = "failed" \/ cancelled \/ (closed /\ to = sent)
       /\ ~ends => to > read
       /\ blocks' = Append(blocks, [kind |-> "received", from |-> read, to |-> to, ends |-> ends])
       /\ read' = to
  /\ UNCHANGED <<nw, sent, closed, cancelled, running, sharedVars, owner>>

-----------------------------------------------------------------------------
(* The queue: one block at a time, and in it one call after another.       *)

StartBlock ==
  /\ running = NoBlock /\ blocks # <<>>
  /\ running' = Head(blocks) /\ blocks' = Tail(blocks)
  /\ UNCHANGED <<frameworkVars, cancelled, receiving, sharedVars, owner>>

CallbackReturns ==
  /\ inside /\ inside' = FALSE
  /\ UNCHANGED <<frameworkVars, cancelled, receiving, blocks, running, listener, heard, events, owner>>

\* The mutex is taken, and kept while the callback runs; without a listener nothing happens.
Notify(event, state) ==
  /\ ~inside
  /\ IF listener
     THEN inside' = TRUE /\ events' = Append(events, event) /\ heard' = state
     ELSE UNCHANGED <<inside, events, heard>>

\* The state handler for ready: notify_connected, then the first receive.
NotifyConnected ==
  /\ running.kind = "ready"
  /\ Notify(Callback("connected", 0, 0), "connected")
  /\ running' = StateBlock("received")
  /\ UNCHANGED <<frameworkVars, cancelled, receiving, blocks, listener, owner>>

\* Mutant: only the first region of a receive's bytes is passed on.
NotifyData_FirstRegion ==
  /\ running.kind = "received" /\ running.from < running.to
  /\ \E n \in (running.from + 1)..running.to :
       Notify(Callback("data", running.from, n), "connected")
  /\ running' = [running EXCEPT !.from = running.to]
  /\ UNCHANGED <<frameworkVars, cancelled, receiving, blocks, listener, owner>>

\* dispatch_data_apply: notify_data for each region of what was received.
NotifyData ==
  /\ running.kind = "received" /\ running.from < running.to
  /\ \E n \in (running.from + 1)..running.to :
       /\ Notify(Callback("data", running.from, n), "connected")
       /\ running' = [running EXCEPT !.from = n]
  /\ UNCHANGED <<frameworkVars, cancelled, receiving, blocks, listener, owner>>

\* Mutant: the end of the stream is taken for the end of a receive.
Receive_AtEnd ==
  /\ running.kind = "received" /\ running.from = running.to /\ ~inside
  /\ receiving' = TRUE /\ running' = NoBlock
  /\ UNCHANGED <<frameworkVars, cancelled, blocks, sharedVars, owner>>

\* receive(): the next one.
Receive ==
  /\ running.kind = "received" /\ running.from = running.to /\ ~running.ends /\ ~inside
  /\ receiving' = TRUE /\ running' = NoBlock
  /\ UNCHANGED <<frameworkVars, cancelled, blocks, sharedVars, owner>>

\* An error of the TLS domain goes before whether the connection was up.
CloseReasons ==
  {IF heard = "connected" THEN "Closed" ELSE "ConnectFailed"}
    \cup (IF running.kind = "down" \/ nw = "failed" THEN {"HandshakeFailed"} ELSE {})

\* close(), from the state handler or from the last receive.
Close ==
  /\ running.kind = "down" \/ (running.kind = "received" /\ running.from = running.to /\ running.ends)
  /\ \E reason \in CloseReasons : Notify(Callback(reason, 0, 0), "closed")
  /\ listener' = FALSE
  /\ running' = StateBlock("cancel")
  /\ UNCHANGED <<frameworkVars, cancelled, receiving, blocks, owner>>

CancelConnection ==
  /\ running.kind = "cancel" /\ ~inside
  /\ cancelled' = TRUE /\ running' = NoBlock
  /\ UNCHANGED <<frameworkVars, receiving, blocks, sharedVars, owner>>

-----------------------------------------------------------------------------
(* The destructor, on the network thread.                                  *)

\* Mutant: the destructor does not take the mutex.
Detach_NoLock ==
  /\ owner = "using" /\ owner' = "cancelling" /\ listener' = FALSE
  /\ UNCHANGED <<frameworkVars, cancelled, receiving, blocks, running, inside, heard>>

\* It waits for a callback in progress.
Detach ==
  /\ owner = "using" /\ owner' = "cancelling"
  /\ ~inside /\ listener' = FALSE
  /\ UNCHANGED <<frameworkVars, cancelled, receiving, blocks, running, inside, heard>>

DestroyCancels ==
  /\ owner = "cancelling" /\ owner' = "gone" /\ cancelled' = TRUE
  /\ UNCHANGED <<frameworkVars, receiving, blocks, running, sharedVars>>

\* The network thread looks at a callback.
TakeEvent ==
  /\ owner = "using" /\ events # <<>> /\ events' = Tail(events)
  /\ UNCHANGED <<frameworkVars, cancelled, receiving, blocks, running, listener, inside, heard, owner>>

-----------------------------------------------------------------------------
Queue ==
  \/ StartBlock \/ CallbackReturns
  \/ NotifyConnected \/ NotifyData \/ Receive \/ Close \/ CancelConnection

Framework ==
  \/ ServerSends \/ ServerCloses \/ ReceiveCompletes
  \/ \E state \in {"waiting", "ready", "failed"} : StateChanges(state)

Next == Queue \/ Framework \/ TakeEvent \/ (Detach /\ events' = <<>>) \/ DestroyCancels
Spec == Init /\ [][Next]_vars

Contract == INSTANCE StreamCallbacks WITH alive <- owner # "gone"

\* The connection keeps the contract of tls_transport.hpp: however state changes, receives, cancels
\* and the destructor interleave, callbacks come one at a time, data only between on_connected and
\* on_closed, and none after on_closed or after the destructor has returned.
KeepsCallbacks == Contract!Spec
=============================================================================
