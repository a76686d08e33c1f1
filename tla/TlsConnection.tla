--------------------------- MODULE TlsConnection ---------------------------
(***************************************************************************)
(* One OpenSslTls connection (net/tls_openssl.cpp): its own thread, which  *)
(* connects, shakes hands and pumps bytes, and the network thread, which   *)
(* sends and destroys.  They share the outbox, stopping_ and the wake      *)
(* pipe.  A byte is the number of its place among all bytes given to send. *)
(* The peer, the socket's room for bytes and the passing of the deadline   *)
(* are the environment.                                                    *)
(***************************************************************************)
EXTENDS Integers, Sequences

CONSTANTS MaxSends,       \* bound on the bytes given to send
          MaxInput,       \* bound on what the peer sends
          Endpoints,      \* addresses resolve_all finds
          WakeCapacity    \* bytes the wake pipe holds

ASSUME TlsAssumption ==
  MaxSends \in Nat /\ MaxInput \in Nat /\ Endpoints \in Nat /\ WakeCapacity \in Nat \ {0}

VARIABLES
  pc,          \* where run() is
  phase,       \* which loop calls wait(): connect_socket's or handshake's
  left,        \* endpoints not tried yet
  revents,     \* fds[0].revents # 0 after wait()'s poll
  pending,     \* pump's pending bytes
  wantWrite,   \* pump's want_write
  outbox,      \* outbox_
  wake,        \* bytes in the wake pipe
  stopping,    \* stopping_
  owner,       \* the network thread: between calls, in send, or in the destructor
  sent,        \* bytes given to send so far
  told,        \* the listener's last callback
  written,     \* bytes SSL_write took
  input,       \* what the peer sent and was not read yet
  inputLeft,   \* what it may still send
  peer,        \* "open" or "closed"; closed stands for any failure of the connection
  room,        \* the socket takes bytes
  late         \* the deadline of connecting has passed

loopVars == <<phase, left, revents, pending, wantWrite>>
threadVars == <<pc, loopVars>>
sharedVars == <<outbox, wake, stopping>>
ownerVars == <<owner, sent>>
outcomeVars == <<told, written>>
networkVars == <<input, inputLeft, peer, room, late>>
vars == <<threadVars, sharedVars, ownerVars, outcomeVars, networkVars>>

Bytes == 1..MaxSends

TypeOK ==
  /\ pc \in {"connect", "handshake", "wait", "waitPoll", "waitDrain", "waitCheck", "connected",
             "read", "take", "write", "poll", "drain", "check", "end", "done"}
  /\ phase \in {"connect", "handshake"}
  /\ left \in 0..Endpoints
  /\ revents \in BOOLEAN /\ wantWrite \in BOOLEAN /\ stopping \in BOOLEAN
  /\ pending \in Seq(Bytes) /\ outbox \in Seq(Bytes) /\ written \in Seq(Bytes)
  /\ wake \in 0..WakeCapacity
  /\ owner \in {"idle", "wake", "stop", "join", "gone"}
  /\ sent \in 0..MaxSends
  /\ told \in {"none", "connected", "data", "closed"}
  /\ input \in 0..MaxInput /\ inputLeft \in 0..MaxInput
  /\ peer \in {"open", "closed"} /\ room \in BOOLEAN /\ late \in BOOLEAN

Init ==
  /\ pc = "connect" /\ phase = "connect" /\ left = Endpoints /\ revents = FALSE
  /\ pending = <<>> /\ wantWrite = FALSE
  /\ outbox = <<>> /\ wake = 0 /\ stopping = FALSE
  /\ owner = "idle" /\ sent = 0
  /\ told = "none" /\ written = <<>>
  /\ input = 0 /\ inputLeft = MaxInput /\ peer = "open" /\ room = TRUE /\ late = FALSE

-----------------------------------------------------------------------------
(* The network thread.                                                     *)

\* wake(): a write to a full pipe fails, and the pipe is readable anyway.
PutWake == wake' = IF wake < WakeCapacity THEN wake + 1 ELSE wake

\* send(), up to the unlock; then its wake().
Send ==
  /\ owner = "idle" /\ sent < MaxSends
  /\ sent' = sent + 1
  /\ outbox' = Append(outbox, sent + 1)
  /\ owner' = "wake"
  /\ UNCHANGED <<threadVars, wake, stopping, outcomeVars, networkVars>>

Wake ==
  /\ owner = "wake" /\ owner' = "idle"
  /\ PutWake
  /\ UNCHANGED <<threadVars, outbox, stopping, sent, outcomeVars, networkVars>>

\* The destructor: stopping_, wake(), join().
Destroy ==
  /\ owner = "idle" /\ owner' = "stop"
  /\ stopping' = TRUE
  /\ UNCHANGED <<threadVars, outbox, wake, sent, outcomeVars, networkVars>>

\* Mutant: the destructor does not wake the thread.
WakeStop_None ==
  /\ owner = "stop" /\ owner' = "join"
  /\ UNCHANGED <<threadVars, sharedVars, sent, outcomeVars, networkVars>>

WakeStop ==
  /\ owner = "stop" /\ owner' = "join"
  /\ PutWake
  /\ UNCHANGED <<threadVars, outbox, stopping, sent, outcomeVars, networkVars>>

Join ==
  /\ owner = "join" /\ pc = "done" /\ owner' = "gone"
  /\ UNCHANGED <<threadVars, sharedVars, sent, outcomeVars, networkVars>>

-----------------------------------------------------------------------------
(* The connection's thread: connecting and shaking hands.                  *)

\* The attempt at one endpoint failed.
NextEndpoint == pc' = IF stopping THEN "end" ELSE "connect"

\* connect_socket: the next endpoint connects at once, fails at once, or is waited for; when socket()
\* itself fails the one after it is tried without a look at stopping_.
Connect ==
  /\ pc = "connect"
  /\ \/ left = 0 /\ pc' = "end" /\ UNCHANGED left
     \/ left > 0 /\ left' = left - 1 /\ (pc' \in {"handshake", "wait", "connect"} \/ NextEndpoint)
  /\ UNCHANGED <<phase, revents, pending, wantWrite, sharedVars, ownerVars, outcomeVars, networkVars>>

\* handshake: SSL_connect is done, refused, or wants to read or write.
Handshake ==
  /\ pc = "handshake" /\ phase' = "handshake"
  /\ pc' \in {"connected", "end"} \cup (IF peer = "open" THEN {"wait"} ELSE {})
  /\ UNCHANGED <<left, revents, pending, wantWrite, sharedVars, ownerVars, outcomeVars, networkVars>>

WaitFails == IF phase = "connect" THEN NextEndpoint ELSE pc' = "end"

\* getsockopt tells connect_socket whether it worked; handshake calls SSL_connect again.
WaitSucceeds == pc' = "handshake" \/ (phase = "connect" /\ NextEndpoint)

\* The socket is ready: while connecting, `input` stands for whatever wait() waits for.
Readable == input > 0 \/ peer = "closed"

\* Mutant: the deadline is not looked at.
Wait_NoDeadline ==
  /\ pc = "wait"
  /\ IF stopping THEN WaitFails ELSE pc' = "waitPoll"
  /\ UNCHANGED <<loopVars, sharedVars, ownerVars, outcomeVars, networkVars>>

\* One round of wait(): look at stopping_ and the clock, poll, drain the pipe, look again.
Wait ==
  /\ pc = "wait"
  /\ IF stopping \/ late THEN WaitFails ELSE pc' = "waitPoll"
  /\ UNCHANGED <<loopVars, sharedVars, ownerVars, outcomeVars, networkVars>>

WaitPoll ==
  /\ pc = "waitPoll" /\ pc' = "waitDrain"
  /\ Readable \/ wake > 0 \/ late
  /\ revents' = Readable
  /\ UNCHANGED <<phase, left, pending, wantWrite, sharedVars, ownerVars, outcomeVars, networkVars>>

WaitDrain ==
  /\ pc = "waitDrain" /\ pc' = "waitCheck"
  /\ wake' = 0
  /\ UNCHANGED <<loopVars, outbox, stopping, ownerVars, outcomeVars, networkVars>>

\* What the peer sent while connecting is used up by connect or SSL_connect.
WaitCheck ==
  /\ pc = "waitCheck"
  /\ \/ stopping /\ WaitFails /\ UNCHANGED input
     \/ ~stopping /\ revents /\ WaitSucceeds /\ input' = IF input > 0 THEN input - 1 ELSE 0
     \/ ~stopping /\ ~revents /\ pc' = "wait" /\ UNCHANGED input
  /\ UNCHANGED <<loopVars, sharedVars, ownerVars, outcomeVars,
                 inputLeft, peer, room, late>>

-----------------------------------------------------------------------------
(* The connection's thread: on_connected and pump.                         *)

\* Mutant: the pump waits before it works.
Connected_Waits ==
  /\ pc = "connected" /\ pc' = "poll"
  /\ told' = "connected"
  /\ UNCHANGED <<loopVars, sharedVars, ownerVars, written, networkVars>>

Connected ==
  /\ pc = "connected" /\ pc' = "read"
  /\ told' = "connected"
  /\ UNCHANGED <<loopVars, sharedVars, ownerVars, written, networkVars>>

\* One SSL_read.
Read ==
  /\ pc = "read"
  /\ \/ input > 0 /\ input' = input - 1 /\ told' = "data" /\ UNCHANGED pc
     \/ input = 0 /\ peer = "open" /\ pc' = "take" /\ UNCHANGED <<input, told>>
     \/ input = 0 /\ peer = "closed" /\ pc' = "end" /\ UNCHANGED <<input, told>>
  /\ UNCHANGED <<loopVars, sharedVars, ownerVars, written,
                 inputLeft, peer, room, late>>

\* Mutant: new bytes go before what a full socket left over.
Take_Before ==
  /\ pc = "take" /\ pc' = "write"
  /\ pending' = outbox \o pending /\ outbox' = <<>> /\ wantWrite' = FALSE
  /\ UNCHANGED <<phase, left, revents, wake, stopping, ownerVars, outcomeVars, networkVars>>

Take ==
  /\ pc = "take" /\ pc' = "write"
  /\ pending' = pending \o outbox /\ outbox' = <<>> /\ wantWrite' = FALSE
  /\ UNCHANGED <<phase, left, revents, wake, stopping, ownerVars, outcomeVars, networkVars>>

\* One SSL_write: it takes some of the bytes, finds no room, or fails.
Write ==
  /\ pc = "write"
  /\ \/ /\ pending = <<>> /\ pc' = "poll"
        /\ UNCHANGED <<pending, written, wantWrite, room>>
     \/ /\ room
        /\ \E n \in 1..Len(pending) :
             /\ written' = written \o SubSeq(pending, 1, n)
             /\ pending' = SubSeq(pending, n + 1, Len(pending))
        /\ room' \in BOOLEAN
        /\ UNCHANGED <<pc, wantWrite>>
     \/ /\ pending # <<>> /\ ~room /\ pc' = "poll" /\ wantWrite' = TRUE
        /\ UNCHANGED <<pending, written, room>>
     \/ /\ pending # <<>> /\ peer = "closed" /\ pc' = "end"
        /\ UNCHANGED <<pending, written, wantWrite, room>>
  /\ UNCHANGED <<phase, left, revents, sharedVars, ownerVars, told, input, inputLeft, peer, late>>

Poll ==
  /\ pc = "poll" /\ pc' = "drain"
  /\ Readable \/ (wantWrite /\ room) \/ wake > 0
  /\ UNCHANGED <<loopVars, sharedVars, ownerVars, outcomeVars, networkVars>>

Drain ==
  /\ pc = "drain" /\ pc' = "check"
  /\ wake' = 0
  /\ UNCHANGED <<loopVars, outbox, stopping, ownerVars, outcomeVars, networkVars>>

\* Mutant: a wake-up with nothing to read goes back to the poll.
Check_PollsAgain ==
  /\ pc = "check"
  /\ pc' = IF stopping THEN "end" ELSE IF Readable THEN "read" ELSE "poll"
  /\ UNCHANGED <<loopVars, sharedVars, ownerVars, outcomeVars, networkVars>>

Check ==
  /\ pc = "check"
  /\ pc' = IF stopping THEN "end" ELSE "read"
  /\ UNCHANGED <<loopVars, sharedVars, ownerVars, outcomeVars, networkVars>>

\* Every way out of run(): on_closed unless the connection is being destroyed.
End ==
  /\ pc = "end" /\ pc' = "done"
  /\ told' = IF stopping THEN told ELSE "closed"
  /\ pending' = <<>>
  /\ UNCHANGED <<phase, left, revents, wantWrite, sharedVars, ownerVars, written, networkVars>>

-----------------------------------------------------------------------------
(* The network and the clock.                                              *)

PeerSends ==
  /\ peer = "open" /\ inputLeft > 0
  /\ input' = input + 1 /\ inputLeft' = inputLeft - 1
  /\ UNCHANGED <<threadVars, sharedVars, ownerVars, outcomeVars, peer, room, late>>

PeerCloses ==
  /\ peer = "open" /\ peer' = "closed"
  /\ UNCHANGED <<threadVars, sharedVars, ownerVars, outcomeVars, input, inputLeft, room, late>>

RoomComes ==
  /\ ~room /\ room' = TRUE
  /\ UNCHANGED <<threadVars, sharedVars, ownerVars, outcomeVars, input, inputLeft, peer, late>>

DeadlinePasses ==
  /\ ~late /\ late' = TRUE
  /\ UNCHANGED <<threadVars, sharedVars, ownerVars, outcomeVars, input, inputLeft, peer, room>>

-----------------------------------------------------------------------------
Run ==
  \/ Connect \/ Handshake
  \/ Wait \/ WaitPoll \/ WaitDrain \/ WaitCheck
  \/ Connected \/ Read \/ Take \/ Write \/ Poll \/ Drain \/ Check
  \/ End

Owner == Send \/ Wake \/ Destroy \/ WakeStop \/ Join

Network == PeerSends \/ PeerCloses \/ RoomComes \/ DeadlinePasses

Next == Run \/ Owner \/ Network

Spec == Init /\ [][Next]_vars

\* Both threads run on, a call that was begun is finished, time passes, and the peer's system takes
\* bytes off the socket.  Nobody has to send, to destroy or to close anything.
FairSpec ==
  /\ Spec
  /\ WF_vars(Run)
  /\ WF_vars(Wake) /\ WF_vars(WakeStop) /\ WF_vars(Join)
  /\ WF_vars(RoomComes) /\ WF_vars(DeadlinePasses)

-----------------------------------------------------------------------------
\* "A send after the outbox was taken above has left a byte in the wake pipe, so this returns":
\* pump never sleeps on bytes in the outbox unless send() is about to wake it.
WakeUpComes == pc = "poll" /\ outbox # <<>> => wake > 0 \/ owner = "wake"

\* The contract's view of the connection.
StreamState ==
  CASE pc = "done" -> "ended"
    [] pc # "done" /\ told = "none" -> "opening"
    [] OTHER -> "open"
QueuedBytes == IF pc = "done" THEN <<>> ELSE pending \o outbox

Contract == INSTANCE ByteStream WITH stream <- StreamState, queued <- QueuedBytes, delivered <- written

\* The connection keeps the contract of tls_transport.hpp: bytes go out in order and once, after
\* on_connected, and nothing follows the end.
IsByteStream == Contract!Spec

\* A byte given to send goes out, unless the connection ends: no wake-up is lost, also when send
\* comes during the handshake, whose waits consume it.
SentGoesOut == \A b \in Bytes : sent >= b ~> Len(written) >= b \/ stopping \/ pc = "done"

\* Unless the connection is being destroyed, the listener hears how connecting went, at the latest
\* after kConnectTimeout, and hears on_closed once the peer has ended it, wherever the thread is.
ListenerHears ==
  /\ []<>(told # "none" \/ stopping)
  /\ []<>(peer = "open" \/ told = "closed" \/ stopping)

\* The destructor returns, wherever the thread is when it is called.
DestroyReturns == []<>(~stopping \/ owner = "gone")
=============================================================================
