--------------------------- MODULE StreamCallbacks ---------------------------
(***************************************************************************)
(* What net/tls_transport.hpp promises the StreamListener of a connection: *)
(* callbacks "one at a time, never after the connection is destroyed",     *)
(* data only while connected, and nothing after on_closed.                 *)
(***************************************************************************)
VARIABLES
  heard,    \* the listener has heard "nothing", "connected" or "closed"
  inside,   \* a callback is running
  alive     \* the connection has not been destroyed

vars == <<heard, inside, alive>>

Init == heard = "nothing" /\ inside = FALSE /\ alive = TRUE

Callback == alive /\ ~inside /\ inside' = TRUE /\ UNCHANGED alive

OnConnected == heard = "nothing" /\ Callback /\ heard' = "connected"
OnData == heard = "connected" /\ Callback /\ UNCHANGED heard
OnClosed == heard # "closed" /\ Callback /\ heard' = "closed"

Return == inside /\ inside' = FALSE /\ UNCHANGED <<heard, alive>>
Destroy == alive /\ ~inside /\ alive' = FALSE /\ UNCHANGED <<heard, inside>>

Next == OnConnected \/ OnData \/ OnClosed \/ Return \/ Destroy

Spec == Init /\ [][Next]_vars
=============================================================================
