---------------------------- MODULE InboundStream ----------------------------
(***************************************************************************)
(* What the server says on a TLS connection, on its way to the user agent: *)
(* AppleTls on its queue, the engine's inbox, and drain_link with the      *)
(* StreamFramer on the network thread (core/engine.cpp).  The server says  *)
(* a few items: keep-alives, messages, and ones that are malformed.        *)
(***************************************************************************)
EXTENDS AppleTls, FiniteSets

CONSTANTS Messages,     \* well-formed messages
          Malformed,    \* what no message can be cut from
          Streams,      \* sequences of these that a server may say on one connection
          InboxBound,   \* bound on the events waiting in the inbox
          Lengths, MaxMessage

VARIABLES
  said,      \* what the server of this connection says: see Say
  buffer, failed,
  draining,  \* drain_link: "idle", "cutting" while it calls next(), "dropping" after a framing error
  pushed,    \* bytes the framer was given
  handed     \* messages the user agent was given

Framer == INSTANCE StreamFramer

inboundVars == <<said, buffer, failed, draining, pushed, handed>>

ASSUME StreamAssumption ==
  /\ MaxMessage \in Nat /\ \A line \in DOMAIN Lengths : Lengths[line] \in Nat \cup {-1}
  /\ \A text \in Messages : Framer!WellFormed(text)
  /\ \A text \in Malformed : Framer!IllFormed(text)
  /\ Streams \subseteq Seq(Messages \cup Malformed \cup Seq({Framer!CR, Framer!LF}))

\* How many bytes have been said after each item, and the bytes.
Ends(items) ==
  LET ends[k \in 0..Len(items)] == IF k = 0 THEN 0 ELSE ends[k - 1] + Len(items[k]) IN ends

Say(items) ==
  LET ends == Ends(items)
      of(i) == CHOOSE k \in 1..Len(items) : i \in (ends[k - 1] + 1)..ends[k]
  IN [items |-> items, ends |-> ends,
      bytes |-> [i \in 1..ends[Len(items)] |-> items[of(i)][i - ends[of(i) - 1]]]]

InboundInit ==
  /\ Init
  /\ said \in {Say(items) : items \in Streams}
  /\ Framer!FramerInit
  /\ draining = "idle" /\ pushed = 0 /\ handed = <<>>

-----------------------------------------------------------------------------
\* drop_link: the connection is destroyed, what it still has in the inbox is ignored.
DropLink == Detach /\ events' = <<>> /\ Framer!Reset

\* One event of drain_link.
DrainLink ==
  /\ owner = "using" /\ draining = "idle" /\ events # <<>>
  /\ LET event == Head(events)
     IN \/ /\ event.kind = "connected" /\ TakeEvent
           /\ UNCHANGED <<buffer, failed, draining, pushed>>
        \/ /\ event.kind = "data" /\ TakeEvent
           /\ Framer!Push(SubSeq(said.bytes, event.from + 1, event.to))
           /\ draining' = "cutting" /\ pushed' = event.to
        \/ event.kind \in StreamErrors /\ DropLink /\ UNCHANGED <<draining, pushed>>
  /\ UNCHANGED <<said, handed>>

\* One turn of its loop around next().
Hand(message) ==
  IF message # <<>> THEN handed' = Append(handed, message) /\ UNCHANGED draining
  ELSE draining' = (IF failed' THEN "dropping" ELSE "idle") /\ UNCHANGED handed

CutMessage ==
  /\ draining = "cutting"
  /\ \E rest \in {Framer!Rest} : \E ends \in {Framer!HeadEnds(rest)} :
       \E next \in {Framer!Next(rest, ends)} :
         buffer' = next.buffer /\ failed' = next.failed /\ Hand(next.message)
  /\ UNCHANGED <<vars, said, pushed>>

\* The connection is dropped after a framing error, or for a reason of the engine's.
Drop ==
  /\ draining \in {"idle", "dropping"}
  /\ DropLink
  /\ draining' = "idle"
  /\ UNCHANGED <<said, pushed, handed>>

NetworkThread == DrainLink \/ CutMessage \/ Drop

InboundNext ==
  \/ /\ Queue \/ Framework \/ DestroyCancels
     /\ \E k \in DOMAIN said.ends : sent' = said.ends[k]
     /\ Len(events') <= InboxBound
     /\ UNCHANGED inboundVars
  \/ NetworkThread

InboundSpec == InboundInit /\ [][InboundNext]_<<vars, inboundVars>>

\* The queue runs on and a receive for which there is something completes; the network thread drains
\* its inbox and finishes what it has begun.  The server need not say anything.
FairSpec ==
  /\ InboundSpec
  /\ WF_vars(Queue \/ ReceiveCompletes)
  /\ WF_<<vars, inboundVars>>(DrainLink \/ CutMessage \/ (draining = "dropping" /\ Drop)
                              \/ (DestroyCancels /\ UNCHANGED inboundVars))

-----------------------------------------------------------------------------
\* The items before the first malformed one, and the messages among them that lie wholly within the
\* first n bytes.
Sound == {k \in 1..Len(said.items) : \A j \in 1..k : said.items[j] \notin Malformed}
MessagesWithin(n) == {k \in Sound : said.items[k] \in Messages /\ said.ends[k] <= n}

\* They were handed over, each in its place.
HandedWithin(n) ==
  LET whole == MessagesWithin(n)
  IN /\ Len(handed) = Cardinality(whole)
     /\ \A k \in whole : handed[Cardinality(whole \cap 1..k)] = said.items[k]

\* However the framework cuts the stream, the user agent is given exactly the messages that have
\* arrived whole, in order, and the framer gives up only on a malformed one.
MessagesExact ==
  /\ owner = "using" /\ draining = "idle" => HandedWithin(pushed)
  /\ failed => \E k \in 1..Len(said.items) : said.items[k] \in Malformed

\* What the server said before it closed the connection in order is not lost: when drop_link comes
\* to the on_closed of a connection that did not fail, every message was handed over.
NothingLostAtClose ==
  draining = "idle" /\ events # <<>> /\ Head(events).kind = "Closed" /\ nw = "ready" => HandedWithin(sent)

\* While the connection is used and does not fail, every message sent is handed over, and a
\* connection that the server closes is dropped.
ServerIsHeard ==
  /\ []<>(owner # "using" \/ nw = "failed" \/ HandedWithin(sent))
  /\ []<>(~closed \/ owner = "gone")
=============================================================================
