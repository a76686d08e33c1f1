----------------------------- MODULE ByteStream -----------------------------
(***************************************************************************)
(* What TlsConnection and StreamListener (net/tls_transport.hpp) promise   *)
(* each other: bytes given to send go out in order, each once, after       *)
(* on_connected and before the end, and nothing goes on after the end.     *)
(***************************************************************************)
EXTENDS Sequences, Naturals

VARIABLES
  stream,      \* "opening", "open" once on_connected was called, "ended"
  queued,      \* bytes given to send that wait to go out
  delivered    \* bytes that went out

vars == <<stream, queued, delivered>>

Init == stream = "opening" /\ queued = <<>> /\ delivered = <<>>

\* Bytes given to an ended connection are dropped, which is no step here.
Send ==
  /\ stream # "ended"
  /\ queued' = Append(queued, Len(delivered) + Len(queued) + 1)
  /\ UNCHANGED <<stream, delivered>>

Connected == stream = "opening" /\ stream' = "open" /\ UNCHANGED <<queued, delivered>>

Deliver ==
  /\ stream = "open"
  /\ \E n \in 1..Len(queued) :
       /\ delivered' = delivered \o SubSeq(queued, 1, n)
       /\ queued' = SubSeq(queued, n + 1, Len(queued))
  /\ UNCHANGED stream

\* The connection failed, was closed, or was destroyed: what has not gone out is dropped.
End == stream # "ended" /\ stream' = "ended" /\ queued' = <<>> /\ UNCHANGED delivered

Next == Send \/ Connected \/ Deliver \/ End

Spec == Init /\ [][Next]_vars
=============================================================================
