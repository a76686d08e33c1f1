---------------------------- MODULE CallLiveness ----------------------------
(***************************************************************************)
(* CallAgent under the fairness the engine's loop gives its timers.        *)
(***************************************************************************)
EXTENDS CallAgent

\* The loop polls no longer than next_deadline() and then calls on_timer, so a deadline that is not
\* moved passes.  A provisional response moves an INVITE's deadline by three minutes; this assumes
\* that the far end does not send them forever.
LiveSpec == Spec /\ WF_vars(\E expired \in SUBSET transactions, unacked \in BOOLEAN : OnTimer(expired, unacked))

Waiting(id) == call.id = id /\ call.state \in {"Calling", "Answering"}

\* No call waits forever for its INVITE to be answered or for the ACK of its answer, whatever
\* is lost: neither the far end nor the connection is fair.
NoCallHangs == \A id \in Ids : []<>~Waiting(id)
=============================================================================
