-------------------------------- MODULE Link --------------------------------
(***************************************************************************)
(* The TLS signalling link of Engine (core/engine.cpp): the network        *)
(* thread's loop, the connection's own thread that queues its callbacks in *)
(* the inbox, reconnecting, and what becomes of the requests the user      *)
(* agent sends.  `pc` is the part of loop() the network thread is in:      *)
(* running commands, draining the inbox, the relink and reconnect checks,  *)
(* and on_timer.  The user agent is reduced to its outstanding requests.   *)
(***************************************************************************)
EXTENDS Integers, Sequences, FiniteSets

CONSTANTS Requests,         \* requests the user agent may have outstanding
          MaxGeneration,    \* bound on the connections made and dropped
          InboxBound,       \* bound on the events waiting in the inbox
          PendingLimit      \* kPendingLimit, in requests

ASSUME LinkAssumption ==
  MaxGeneration \in Nat \ {0} /\ InboxBound \in Nat \ {0} /\ PendingLimit \in Nat

VARIABLES
  pc,           \* where the network thread is in loop()
  link,         \* link_
  generation,   \* generation_
  connection,   \* connection_: "none", or the state its thread has reached
  backoff,      \* backoff_, in seconds: the wait before the next attempt
  relink,       \* relink_
  framer,       \* the generation whose bytes framer_ holds a part of, 0 when it is empty
  inbox,        \* inbox_, shared with the connection's thread
  batch,        \* events drain_link took from the inbox and has not handled
  pending,      \* requests whose bytes wait in pending_
  where,        \* each request: idle, or outstanding with its bytes pending, discarded or handed
                \* to the connection of some generation
  up,           \* the user agent was told that the transport is up
  suspect       \* generation on which a REGISTER went unanswered when relink was set, else 0

connectionVars == <<link, generation, connection, backoff, framer, up>>
requestVars == <<pending, where>>
linkVars == <<pc, connectionVars, relink, suspect, inbox, batch, requestVars>>

Generations == 1..MaxGeneration
Idle == 0
Pending == -1
Discarded == -2

LinkEvent == [generation: Generations, kind: {"Connected", "Data", "Closed"}]

LinkTypeOK ==
  /\ pc \in {"commands", "drain", "relink", "connect", "timer"}
  /\ link \in {"Down", "Connecting", "Up"}
  /\ generation \in 0..MaxGeneration
  /\ connection \in {"none", "opening", "open", "ended"}
  /\ backoff \in 1..30
  /\ relink \in BOOLEAN
  /\ framer \in 0..MaxGeneration
  /\ inbox \in Seq(LinkEvent) /\ batch \in Seq(LinkEvent)
  /\ pending \subseteq Requests
  /\ where \in [Requests -> Generations \cup {Idle, Pending, Discarded}]
  /\ up \in BOOLEAN
  /\ suspect \in 0..MaxGeneration

LinkInit ==
  /\ pc = "commands"
  /\ link = "Down" /\ generation = 0 /\ connection = "none" /\ backoff = 1
  /\ relink = FALSE /\ suspect = 0 /\ framer = 0
  /\ inbox = <<>> /\ batch = <<>>
  /\ pending = {} /\ where = [r \in Requests |-> Idle]
  /\ up = FALSE

-----------------------------------------------------------------------------
(* The connection's thread: StreamListener callbacks through post().       *)

Post(kind) ==
  /\ Len(inbox) < InboxBound
  /\ inbox' = Append(inbox, [generation |-> generation, kind |-> kind])
  /\ UNCHANGED <<pc, link, generation, backoff, framer, up, relink, suspect, batch, requestVars>>

OnConnected == connection = "opening" /\ connection' = "open" /\ Post("Connected")
OnData == connection = "open" /\ UNCHANGED connection /\ Post("Data")
OnClosed == connection \in {"opening", "open"} /\ connection' = "ended" /\ Post("Closed")

-----------------------------------------------------------------------------
(* The user agent, on the network thread.                                  *)

\* send_sip() of a new request, from a command, a callback, a handler or a timer.
SendSip(r) ==
  /\ where[r] = Idle /\ r \notin pending
  /\ \/ /\ connection # "none"
        /\ where' = [where EXCEPT ![r] = generation]
        /\ UNCHANGED pending
     \/ /\ connection = "none" /\ Cardinality(pending) < PendingLimit
        /\ where' = [where EXCEPT ![r] = Pending]
        /\ pending' = pending \cup {r}
     \/ /\ connection = "none" /\ Cardinality(pending) >= PendingLimit
        /\ where' = [where EXCEPT ![r] = Discarded]
        /\ UNCHANGED pending
  /\ UNCHANGED <<pc, connectionVars, relink, suspect, inbox, batch>>

\* A REGISTER ends in 408, by on_timer or by the server's word, and passes through deliver_events.
Suspect(registers) ==
  IF registers /\ link = "Up" THEN relink' = TRUE /\ suspect' = generation
                              ELSE UNCHANGED <<relink, suspect>>

\* on_timer gives up on request r.  Bytes that still wait in pending_ stay there.
NoAnswer(r, registers) ==
  /\ pc = "timer" /\ where[r] # Idle
  /\ where' = [where EXCEPT ![r] = Idle]
  /\ Suspect(registers)
  /\ UNCHANGED <<pc, connectionVars, inbox, batch, pending>>

-----------------------------------------------------------------------------
(* The network thread's loop.                                              *)

Min(a, b) == IF a < b THEN a ELSE b

\* Mutant: the link is not marked down.
ScheduleReconnect_KeepsLink == UNCHANGED link /\ backoff' = Min(2 * backoff, 30)

ScheduleReconnect == link' = "Down" /\ backoff' = Min(2 * backoff, 30)

\* Mutant: the user agent's requests outlive the connection they went out on.
DropLink_KeepsRequests ==
  /\ generation < MaxGeneration
  /\ connection' = "none" /\ generation' = generation + 1 /\ framer' = 0
  /\ ScheduleReconnect
  /\ up' = FALSE
  /\ UNCHANGED where

\* drop_link(), on_transport_down() included: every outstanding request fails.  The 408 of a
\* REGISTER among them finds the link down and does not set relink_.
DropLink ==
  /\ generation < MaxGeneration
  /\ connection' = "none" /\ generation' = generation + 1 /\ framer' = 0
  /\ ScheduleReconnect
  /\ up' = FALSE
  /\ where' = [r \in Requests |-> Idle]

RunCommands ==
  /\ pc = "commands" /\ pc' = "drain"
  /\ batch' = inbox /\ inbox' = <<>>
  /\ UNCHANGED <<connectionVars, relink, suspect, requestVars>>

\* Mutant: events of a replaced connection are handled.
Stale_Never(event) == FALSE

Stale(event) == event.generation # generation

\* A read of the connection: it completes messages, one of which may answer r, and may leave part
\* of another in the framer; or it cannot be framed, which drops the link.
Receive(from) ==
  \/ /\ framer' \in {0, from}
     /\ \/ UNCHANGED <<where, relink, suspect>>
        \/ \E r \in Requests, refused \in BOOLEAN :
             where[r] = from /\ where' = [where EXCEPT ![r] = Idle] /\ Suspect(refused)
     /\ UNCHANGED <<link, generation, connection, backoff, up>>
  \/ DropLink /\ UNCHANGED <<relink, suspect>>

\* One event of the batch.
DrainLink ==
  /\ pc = "drain" /\ batch # <<>>
  /\ batch' = Tail(batch)
  /\ LET event == Head(batch)
     IN \/ Stale(event) /\ UNCHANGED <<connectionVars, where, relink, suspect>>
        \/ /\ ~Stale(event) /\ event.kind = "Connected"
           /\ link' = "Up" /\ backoff' = 1 /\ up' = TRUE
           /\ UNCHANGED <<generation, connection, framer, where, relink, suspect>>
        \/ ~Stale(event) /\ event.kind = "Data" /\ Receive(event.generation)
        \/ ~Stale(event) /\ event.kind = "Closed" /\ DropLink /\ UNCHANGED <<relink, suspect>>
  /\ UNCHANGED <<pc, inbox, pending>>

DrainDone ==
  /\ pc = "drain" /\ batch = <<>> /\ pc' = "relink"
  /\ UNCHANGED <<connectionVars, relink, suspect, inbox, batch, requestVars>>

\* Mutant: relink_ is only looked at while the link is up.
Relink_WhenUp ==
  /\ pc = "relink" /\ pc' = "connect"
  /\ IF relink /\ link = "Up" THEN relink' = FALSE /\ suspect' = 0 /\ DropLink
                              ELSE UNCHANGED <<relink, suspect, connectionVars, where>>
  /\ UNCHANGED <<inbox, batch, pending>>

Relink ==
  /\ pc = "relink" /\ pc' = "connect"
  /\ relink' = FALSE /\ suspect' = 0
  /\ IF relink /\ link = "Up" THEN DropLink ELSE UNCHANGED <<connectionVars, where>>
  /\ UNCHANGED <<inbox, batch, pending>>

\* connect_link(): `made` says connect_tls returned a connection.  It takes what is pending.
ConnectLink(made) ==
  /\ generation < MaxGeneration
  /\ generation' = generation + 1 /\ framer' = 0
  /\ IF made
     THEN /\ connection' = "opening" /\ link' = "Connecting"
          /\ pending' = {}
          /\ where' = [r \in Requests |-> IF where[r] = Pending THEN generation + 1 ELSE where[r]]
          /\ UNCHANGED backoff
     ELSE /\ connection' = "none" /\ ScheduleReconnect
          /\ UNCHANGED requestVars
  /\ UNCHANGED up

Connect ==
  /\ pc = "connect" /\ pc' = "timer"
  /\ \/ link = "Down" /\ \E made \in BOOLEAN : ConnectLink(made)
     \/ UNCHANGED <<connectionVars, requestVars>>     \* reconnect_at_ has not come
  /\ UNCHANGED <<relink, suspect, inbox, batch>>

\* on_timer has run; the loop starts over.
LoopAgain ==
  /\ pc = "timer" /\ pc' = "commands"
  /\ UNCHANGED <<connectionVars, relink, suspect, inbox, batch, requestVars>>

-----------------------------------------------------------------------------
LinkNext ==
  \/ OnConnected
  \/ OnData
  \/ OnClosed
  \/ \E r \in Requests : SendSip(r)
  \/ \E r \in Requests, registers \in BOOLEAN : NoAnswer(r, registers)
  \/ RunCommands
  \/ DrainLink
  \/ DrainDone
  \/ Relink
  \/ Connect
  \/ LoopAgain

LinkSpec == LinkInit /\ [][LinkNext]_linkVars

-----------------------------------------------------------------------------
\* connection_ is there exactly when the link is not down.
ConnectionMatchesLink == (connection = "none") <=> (link = "Down")

\* "until it is up, requests wait for it": the bytes of an outstanding request are in pending_ or
\* were handed to the connection there is now.  None waits for an answer that cannot come, except
\* what kPendingLimit discarded.
NoRequestStranded ==
  \A r \in Requests :
    /\ where[r] = Pending => r \in pending /\ connection = "none"
    /\ where[r] \in Generations => where[r] = generation /\ connection # "none"

\* framer_ never joins bytes of two connections into one message.
FramerFresh == framer \in {0, generation}

\* The user agent believes the transport to be up exactly when link_ says so, and link_ is true to
\* the connection: the keep-alive of loop() never sends on a missing one, a link that waits to
\* reconnect holds no old one, and one that is up has finished its handshake.
UpIsReal ==
  /\ ConnectionMatchesLink
  /\ up <=> link = "Up"
  /\ link = "Up" => connection \in {"open", "ended"}

\* "A registration that times out on a connection that looks fine also makes it reconnect": only
\* that connection, not one made since.
RelinkDropsSuspect ==
  [][relink /\ ~relink' /\ generation' # generation => suspect = generation]_linkVars
=============================================================================
