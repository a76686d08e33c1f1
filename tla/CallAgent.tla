------------------------------ MODULE CallAgent ------------------------------
(***************************************************************************)
(* The call half of UserAgent (core/user_agent.cpp) with the media half of *)
(* its host (core/engine.cpp): at most one call, its INVITE, CANCEL and    *)
(* BYE transactions, and the events the application sees.                  *)
(*                                                                         *)
(* The far end is external.  For an outgoing call, peer[b] says how it has *)
(* decided to answer the INVITE on branch b; what it decided may be        *)
(* delivered late, repeatedly or never, and provisional responses may      *)
(* arrive at any time.  For an incoming call it may send INVITE, ACK, BYE  *)
(* and CANCEL in any order, repeated INVITEs included.  Deadlines are      *)
(* abstracted to "has passed".                                             *)
(***************************************************************************)
EXTENDS Integers, Sequences

CONSTANTS MaxCalls,        \* bound on the calls of one run of the engine
          Callers,         \* Call-IDs of the dialogs the far end opens
          Transport        \* "UDP" or "TLS" (UserAgentConfig::transport)

Ids == 1..MaxCalls

ASSUME CallAgentAssumption ==
  /\ MaxCalls \in Nat
  /\ Callers \cap Int = {}
  /\ Transport \in {"UDP", "TLS"}

VARIABLES
  call,           \* call_, NoCall when there is none
  transactions,   \* the INVITE, CANCEL and BYE transactions of transactions_
  media,          \* the host's media: "closed", "open" (a bound socket) or "started"
  shuttingDown,   \* shutting_down_
  nextId,         \* the engine's call id counter
  peer,           \* external: the far end's decision on each INVITE this side sent
  heard,          \* INVITE branches a provisional response was noted on (Call::provisional)
  cancelled,      \* INVITE branches a CANCEL was sent on
  answered,       \* INVITE branches a 2xx was received on
  acked,          \* INVITE branches whose 2xx was acknowledged
  response,       \* the last kind of response sent to each caller's INVITE
  up,             \* dialogs whose 2xx this side sent or acknowledged, with no BYE sent or received
  story           \* the events the application was given about each call

hostVars == <<media, nextId>>
observers == <<heard, cancelled, answered, acked, response, up, story>>
vars == <<call, transactions, hostVars, shuttingDown, peer, observers>>

\* An outgoing call uses one branch, and a second one when it is challenged.
Branches == Ids \X (1..2)
\* The Call-ID of an outgoing call is random and used once, so the call's id stands for it.
Dialogs == Ids \cup Callers

Invite(b) == [method |-> "INVITE", of |-> b]
Cancel(b) == [method |-> "CANCEL", of |-> b]
Bye(d) == [method |-> "BYE", of |-> d]
Requests == [method: {"INVITE", "CANCEL"}, of: Branches] \cup [method: {"BYE"}, of: Dialogs]

\* `attempt` is 2 once authenticated; invite_branch is <<id, attempt>>; port is 0 until open_media.
Calls == [id: Ids, direction: {"out", "in"}, state: {"Calling", "Ringing", "Answering", "Confirmed"},
          dialog: Dialogs, attempt: 0..2, provisional: {"no", "yes"},
          cancel: {"no", "requested", "sent"}, port: {0, 1}]
NewCall(id, direction, state, dialog, port) ==
  [id |-> id, direction |-> direction, state |-> state, dialog |-> dialog, attempt |-> 0,
   provisional |-> "no", cancel |-> "no", port |-> port]
NoCall == NewCall(0, "out", "None", 0, 0)

EndReasons == {"Local", "RemoteHangup", "RemoteCancelled", "Rejected", "Timeout", "MediaFailed", "Shutdown"}
Events == {"Incoming", "Progress", "Answered"} \cup EndReasons

TypeOK ==
  /\ call \in Calls \cup {NoCall}
  /\ transactions \subseteq Requests
  /\ media \in {"closed", "open", "started"}
  /\ shuttingDown \in BOOLEAN
  /\ nextId \in 1..(MaxCalls + 1)
  /\ peer \in [Branches -> {"none", "invited", "accepted", "refused", "challenged"}]
  /\ heard \subseteq Branches /\ cancelled \subseteq Branches /\ answered \subseteq Branches /\ acked \subseteq Branches
  /\ response \in [Callers -> {"none", "ringing", "accepted", "refused", "unusable", "withdrawn"}]
  /\ up \subseteq Dialogs
  /\ story \in [Ids -> Seq(Events)]

Init ==
  /\ call = NoCall
  /\ transactions = {}
  /\ media = "closed"
  /\ shuttingDown = FALSE
  /\ nextId = 1
  /\ peer = [b \in Branches |-> "none"]
  /\ heard = {} /\ cancelled = {} /\ answered = {} /\ acked = {} /\ up = {}
  /\ response = [d \in Callers |-> "none"]
  /\ story = [id \in Ids |-> <<>>]

-----------------------------------------------------------------------------
\* Consecutive CallProgress events count as one.
Tell(id, event) ==
  story' = IF event = "Progress" /\ story[id] # <<>> /\ story[id][Len(story[id])] = "Progress"
           THEN story ELSE [story EXCEPT ![id] = Append(@, event)]

\* Mutant: the media socket is left open.
EndCall_KeepsMedia(c, reason) ==
  call' = NoCall /\ media' = media /\ Tell(c.id, reason)

\* Ends the call c, which is call_ as this step has left it.
EndCall(c, reason) ==
  /\ call' = NoCall
  /\ media' = IF c.port = 1 THEN "closed" ELSE media
  /\ Tell(c.id, reason)

LocalReason == IF shuttingDown THEN "Shutdown" ELSE "Local"

\* start_media: "refused" when the keys are, "silent" when the address does not resolve.
StartOutcomes == {"ok", "refused", "silent"}
Started(outcome) == IF outcome = "ok" \/ media = "started" THEN "started" ELSE "open"

SendBye(d, others) ==
  /\ transactions' = others \cup {Bye(d)}
  /\ up' = up \ {d}

SendCancel ==
  /\ transactions' = transactions \cup {Cancel(<<call.id, call.attempt>>)}
  /\ cancelled' = cancelled \cup {<<call.id, call.attempt>>}

SendInvite(c, others) ==
  LET b == <<c.id, c.attempt + 1>>
  IN /\ call' = [c EXCEPT !.attempt = @ + 1, !.provisional = "no"]
     /\ transactions' = others \cup {Invite(b)}
     /\ peer' = [peer EXCEPT ![b] = "invited"]

-----------------------------------------------------------------------------
(* Commands of the application.                                            *)

\* call(): `opened` is open_media's outcome, `keyed` new_srtp_key's.
Dial(opened, keyed) ==
  /\ call = NoCall /\ ~shuttingDown
  /\ nextId <= MaxCalls
  /\ nextId' = nextId + 1
  /\ LET c == NewCall(nextId, "out", "Calling", nextId, IF opened THEN 1 ELSE 0)
     IN IF opened /\ keyed
        THEN SendInvite(c, transactions) /\ media' = "open" /\ UNCHANGED story
        ELSE EndCall(c, "MediaFailed") /\ UNCHANGED <<transactions, peer>>
  /\ UNCHANGED <<shuttingDown, heard, cancelled, answered, acked, response, up>>

\* answer(): `outcome` is start_media's; a failure refuses the INVITE with 500.
Answer(opened, keyed, outcome) ==
  /\ call.state = "Ringing"
  /\ LET c == [call EXCEPT !.port = IF opened THEN 1 ELSE 0]
     IN IF opened /\ keyed /\ outcome # "refused"
        THEN /\ call' = [c EXCEPT !.state = "Answering"]
             /\ media' = Started(outcome)
             /\ response' = [response EXCEPT ![call.dialog] = "accepted"]
             /\ up' = up \cup {call.dialog}
             /\ UNCHANGED story
        ELSE /\ EndCall(c, "MediaFailed")
             /\ response' = [response EXCEPT ![call.dialog] = "refused"]
             /\ UNCHANGED up
  /\ UNCHANGED <<transactions, nextId, shuttingDown, peer, heard, cancelled, answered, acked>>

Reject ==
  /\ call.state = "Ringing"
  /\ response' = [response EXCEPT ![call.dialog] = "refused"]
  /\ EndCall(call, "Local")
  /\ UNCHANGED <<transactions, nextId, shuttingDown, peer, heard, cancelled, answered, acked, up>>

\* Only the first hangup() while Calling may send the CANCEL, and only after a provisional response.
CancelAtOnce == call.cancel = "no" /\ call.provisional = "yes"

\* Mutant: the CANCEL always waits for the next provisional response.
GiveUp_Waits ==
  call' = [call EXCEPT !.cancel = "requested"] /\ UNCHANGED <<transactions, cancelled>>

GiveUp ==
  IF CancelAtOnce
  THEN call' = [call EXCEPT !.cancel = "sent"] /\ SendCancel
  ELSE /\ call' = [call EXCEPT !.cancel = IF @ = "no" THEN "requested" ELSE @]
       /\ UNCHANGED <<transactions, cancelled>>

\* hangup() with a dialog or an incoming INVITE to end.
HangUpCall(reason) ==
  /\ \/ /\ call.state = "Ringing"
        /\ response' = [response EXCEPT ![call.dialog] = "refused"]
        /\ UNCHANGED <<transactions, up>>
     \/ /\ call.state \in {"Answering", "Confirmed"}
        /\ SendBye(call.dialog, transactions)
        /\ UNCHANGED response
  /\ EndCall(call, reason)

Hangup ==
  /\ \/ call.state = "Calling" /\ GiveUp /\ UNCHANGED <<media, response, up, story>>
     \/ HangUpCall("Local") /\ UNCHANGED cancelled
  /\ UNCHANGED <<nextId, shuttingDown, peer, heard, answered, acked>>

\* shutdown() hangs up; an outgoing call ends at once, with a CANCEL if one may be sent.
Shutdown ==
  /\ ~shuttingDown
  /\ shuttingDown' = TRUE
  /\ \/ call = NoCall /\ UNCHANGED <<call, transactions, media, cancelled, response, up, story>>
     \/ /\ call.state = "Calling"
        /\ IF CancelAtOnce THEN SendCancel ELSE UNCHANGED <<transactions, cancelled>>
        /\ EndCall(call, "Shutdown")
        /\ UNCHANGED <<response, up>>
     \/ HangUpCall("Shutdown") /\ UNCHANGED cancelled
  /\ UNCHANGED <<nextId, peer, heard, answered, acked>>

-----------------------------------------------------------------------------
(* Responses to the INVITE on branch b.                                    *)

\* The far end makes up its mind.
Decide(b, decision) ==
  /\ peer[b] = "invited"
  /\ peer' = [peer EXCEPT ![b] = decision]
  /\ UNCHANGED <<call, transactions, hostVars, shuttingDown, observers>>

\* on_invite_provisional; `rings` says the status is 180 or 183.  One for a call that is over, given up
\* or not, is dropped: no step.
OnProvisional(b, rings) ==
  /\ Invite(b) \in transactions /\ call.id = b[1] /\ call.state = "Calling"
  /\ heard' = heard \cup {b}
  /\ IF call.cancel = "requested"
     THEN /\ call' = [call EXCEPT !.provisional = "yes", !.cancel = "sent"]
          /\ SendCancel
          /\ UNCHANGED story
     ELSE /\ call' = [call EXCEPT !.provisional = "yes"]
          /\ IF rings THEN Tell(call.id, "Progress") ELSE UNCHANGED story
          /\ UNCHANGED <<transactions, cancelled>>
  /\ UNCHANGED <<hostVars, shuttingDown, peer, answered, acked, response, up>>

Ours(b) == call.state # "None" /\ call.direction = "out" /\ <<call.id, call.attempt>> = b

\* Mutant: a 2xx for a call given up on is acknowledged and forgotten.
AcceptUnknown_Forgets(b, others) == transactions' = others

\* A 2xx for a call this side has given up on: ACK, then BYE.
AcceptUnknown(b, others) == transactions' = others \cup {Bye(b[1])}

\* on_invite_final for a 2xx; `usable` says the answer suits, `outcome` is start_media's.
OnAccepted(b, usable, outcome) ==
  /\ peer[b] = "accepted" /\ Invite(b) \in transactions
  /\ answered' = answered \cup {b} /\ acked' = acked \cup {b}
  /\ LET others == transactions \ {Invite(b)}
         ending == others \cup {Bye(b[1])}
         good == usable /\ outcome # "refused"
     IN \/ ~Ours(b) /\ AcceptUnknown(b, others) /\ UNCHANGED <<call, media, story>>
        \/ Ours(b) /\ call.cancel # "no" /\ transactions' = ending /\ EndCall(call, LocalReason)
        \/ Ours(b) /\ call.cancel = "no" /\ ~good /\ transactions' = ending /\ EndCall(call, "MediaFailed")
        \/ /\ Ours(b) /\ call.cancel = "no" /\ good
           /\ call' = [call EXCEPT !.state = "Confirmed"]
           /\ media' = Started(outcome)
           /\ transactions' = others
           /\ Tell(call.id, "Answered")
  /\ up' = IF Bye(b[1]) \in transactions' THEN up ELSE up \cup {b[1]}
  /\ UNCHANGED <<nextId, shuttingDown, peer, heard, cancelled, response>>

\* A 2xx whose transaction is gone: on_response repeats the ACK while the call lasts.  Without one
\* this side has no dialog, whatever the far end believes.
OnLateAccepted(b) ==
  /\ peer[b] = "accepted" /\ Invite(b) \notin transactions
  /\ answered' = answered \cup {b}
  /\ acked' = IF call.dialog = b[1] /\ call.direction = "out" /\ call.state = "Confirmed"
              THEN acked \cup {b} ELSE acked
  /\ UNCHANGED <<call, transactions, hostVars, shuttingDown, peer, heard, cancelled, response, up, story>>

MeetsChallenge(b, usable) ==
  peer[b] = "challenged" /\ usable /\ call.attempt = 1 /\ call.cancel = "no"

\* on_invite_final for a failure, which it acknowledges; `usable` says the challenge can be met.
OnFailed(b, usable) ==
  /\ peer[b] \in {"refused", "challenged"} /\ Invite(b) \in transactions
  /\ LET others == transactions \ {Invite(b)}
     IN \/ ~Ours(b) /\ transactions' = others /\ UNCHANGED <<call, media, peer, story>>
        \/ /\ Ours(b) /\ MeetsChallenge(b, usable)
           /\ SendInvite(call, others)
           /\ UNCHANGED <<media, story>>
        \/ /\ Ours(b) /\ ~MeetsChallenge(b, usable)
           /\ transactions' = others
           /\ EndCall(call, IF call.cancel = "no" THEN "Rejected" ELSE LocalReason)
           /\ UNCHANGED peer
  /\ UNCHANGED <<nextId, shuttingDown, heard, cancelled, answered, acked, response, up>>

\* CANCEL and BYE finish without consequences.
OnOtherFinal(t) ==
  /\ t.method # "INVITE"
  /\ transactions' = transactions \ {t}
  /\ UNCHANGED <<call, hostVars, shuttingDown, peer, observers>>

-----------------------------------------------------------------------------
(* Requests of the far end.                                                *)

Busy == call # NoCall \/ shuttingDown

\* An INVITE outside the dialog of the current call: busy (486), unusable (488) or ringing (180).
\* A repeated INVITE carries the same offer, so one that was unusable stays so: no step.
OnInvite(d, usable) ==
  /\ call.dialog # d
  /\ response[d] = "none" \/ (usable /\ response[d] # "unusable")
  /\ IF Busy \/ ~usable
     THEN /\ response' = [response EXCEPT ![d] = IF Busy THEN "refused" ELSE "unusable"]
          /\ UNCHANGED <<call, nextId, story>>
     ELSE /\ nextId <= MaxCalls
          /\ nextId' = nextId + 1
          /\ call' = NewCall(nextId, "in", "Ringing", d, 0)
          /\ response' = [response EXCEPT ![d] = "ringing"]
          /\ Tell(nextId, "Incoming")
  /\ UNCHANGED <<transactions, media, shuttingDown, peer, heard, cancelled, answered, acked, up>>

\* An INVITE with the Call-ID of the call, once connected (or outgoing): media follows it.
OnReInvite(outcome) ==
  /\ call.state = "Confirmed" \/ (call.direction = "out" /\ call.state = "Calling")
  /\ media' = IF outcome = "refused" THEN media ELSE Started(outcome)
  /\ UNCHANGED <<call, transactions, nextId, shuttingDown, peer, observers>>

OnAck ==
  /\ call.state = "Answering"
  /\ call' = [call EXCEPT !.state = "Confirmed"]
  /\ Tell(call.id, "Answered")
  /\ UNCHANGED <<transactions, hostVars, shuttingDown, peer, heard, cancelled, answered, acked, response, up>>

\* A BYE with the call's Call-ID ends it in every state.  Before an incoming call is answered the far
\* end then wants no answer to its INVITE; the INVITE of an outgoing one stays outstanding.
OnBye ==
  /\ call # NoCall
  /\ EndCall(call, "RemoteHangup")
  /\ up' = up \ {call.dialog}
  /\ response' = IF call.state = "Ringing" THEN [response EXCEPT ![call.dialog] = "withdrawn"] ELSE response
  /\ UNCHANGED <<transactions, nextId, shuttingDown, peer, heard, cancelled, answered, acked>>

\* Mutants: a CANCEL also ends an answered call; the INVITE it ends gets no 487.
OnCancel_AfterAnswer ==
  /\ call.state \in {"Ringing", "Answering"}
  /\ response' = [response EXCEPT ![call.dialog] = "refused"]
  /\ EndCall(call, "RemoteCancelled")
  /\ UNCHANGED <<transactions, nextId, shuttingDown, peer, heard, cancelled, answered, acked, up>>
OnCancel_No487 ==
  /\ call.state = "Ringing"
  /\ EndCall(call, "RemoteCancelled")
  /\ UNCHANGED <<transactions, nextId, shuttingDown, peer, heard, cancelled, answered, acked, response, up>>

\* A CANCEL after the 200 went out is answered and otherwise ignored: no step.
OnCancel ==
  /\ call.state = "Ringing"
  /\ response' = [response EXCEPT ![call.dialog] = "refused"]
  /\ EndCall(call, "RemoteCancelled")
  /\ UNCHANGED <<transactions, nextId, shuttingDown, peer, heard, cancelled, answered, acked, up>>

-----------------------------------------------------------------------------
\* Mutants: any INVITE's failure ends the call; none does.
InviteLost_Any(failed) == call # NoCall /\ \E t \in failed : t.method = "INVITE"
InviteLost_Never(failed) == FALSE

\* on_final(nullptr) ran for every transaction in `failed`: the call's own INVITE is among them.
InviteLost(failed) == \E t \in failed : t.method = "INVITE" /\ Ours(t.of)

\* One on_timer call; `unacked` says the deadline for the ACK of an answered call has passed.
OnTimer(expired, unacked) ==
  /\ expired # {} \/ unacked
  /\ unacked => call.state = "Answering"
  /\ LET others == transactions \ expired
     IN \/ /\ InviteLost(expired)
           /\ transactions' = others /\ EndCall(call, "Timeout") /\ UNCHANGED up
        \/ /\ unacked
           /\ SendBye(call.dialog, others) /\ EndCall(call, "Timeout")
        \/ /\ ~InviteLost(expired) /\ ~unacked
           /\ transactions' = others /\ UNCHANGED <<call, media, story, up>>
  /\ UNCHANGED <<nextId, shuttingDown, peer, heard, cancelled, answered, acked, response>>

\* The connection closed: what was in flight fails; a call past its INVITE stays.
OnTransportDown ==
  /\ Transport = "TLS"
  /\ transactions' = {}
  /\ IF InviteLost(transactions) THEN EndCall(call, "Timeout") ELSE UNCHANGED <<call, media, story>>
  /\ UNCHANGED <<nextId, shuttingDown, peer, heard, cancelled, answered, acked, response, up>>

-----------------------------------------------------------------------------
Next ==
  \/ \E opened, keyed \in BOOLEAN : Dial(opened, keyed)
  \/ \E opened, keyed \in BOOLEAN, outcome \in StartOutcomes : Answer(opened, keyed, outcome)
  \/ Reject
  \/ Hangup
  \/ Shutdown
  \/ \E b \in Branches :
       \/ \E decision \in {"accepted", "refused", "challenged"} : Decide(b, decision)
       \/ \E rings \in BOOLEAN : OnProvisional(b, rings)
       \/ \E usable \in BOOLEAN, outcome \in StartOutcomes : OnAccepted(b, usable, outcome)
       \/ OnLateAccepted(b)
       \/ \E usable \in BOOLEAN : OnFailed(b, usable)
  \/ \E t \in transactions : OnOtherFinal(t)
  \/ \E d \in Callers, usable \in BOOLEAN : OnInvite(d, usable)
  \/ \E outcome \in StartOutcomes : OnReInvite(outcome)
  \/ OnAck
  \/ OnBye
  \/ OnCancel
  \/ \E expired \in SUBSET transactions, unacked \in BOOLEAN : OnTimer(expired, unacked)
  \/ OnTransportDown

Spec == Init /\ [][Next]_vars

-----------------------------------------------------------------------------
\* A legal story: an incoming call starts with Incoming; progress comes before the answer; the
\* call is answered at most once and ends at most once, last, and not for want of an answer or of
\* media once it was answered.
Legal(events) ==
  \A i \in 1..Len(events) :
    /\ events[i] = "Incoming" => i = 1
    /\ events[i] = "Progress" => i = 1
    /\ events[i] = "Answered" => i = 1 \/ events[i - 1] \in {"Incoming", "Progress"}
    /\ events[i] = "RemoteCancelled" => i = 2 /\ events[1] = "Incoming"
    /\ events[i] \in EndReasons => i = Len(events)
    /\ events[i] \in {"Rejected", "Timeout", "MediaFailed"} => i = 1 \/ events[i - 1] # "Answered"

Ended(id) == story[id] # <<>> /\ story[id][Len(story[id])] \in EndReasons

\* Whatever the order of commands, messages, timers and transport failures, the application is
\* given a legal story of every call, and every call but the current one has been reported ended.
StoriesLegal ==
  \A id \in Ids : Legal(story[id]) /\ (Ended(id) <=> id < nextId /\ call.id # id)

\* The host's media socket is open exactly while the call says so: end_call never leaks it and
\* never closes it under a newer call.
SocketFollowsCall == media # "closed" <=> call.port = 1

EndedBy(id, reason) == story[id] # <<>> /\ story[id][Len(story[id])] = reason

\* "CANCEL may only follow a provisional response" to the very INVITE it cancels; "otherwise it goes
\* out when one arrives": an outstanding INVITE that was given up by hangup() or shutdown() and whose
\* call noted a provisional response, before or after, has been cancelled.  Only a BYE of the far end
\* ends a call without.
CancelWhenAllowed ==
  /\ cancelled \subseteq heard
  /\ \A b \in heard :
       Invite(b) \in transactions /\ (call.id # b[1] \/ call.cancel # "no")
         => b \in cancelled \/ EndedBy(b[1], "RemoteHangup")

\* The dialogs that are up are those of the current call: a 2xx for a call given up is ended with
\* a BYE, and a call does not end without one while its dialog is up.
NoOrphanDialog ==
  up = IF call.state \in {"Answering", "Confirmed"} THEN {call.dialog} ELSE {}

\* "Every 2xx must be acknowledged, even for a call this side has already given up on."
EveryAnswerAcked == answered \subseteq acked

\* Every INVITE that rang is still ringing, was given a final response, or was withdrawn by a BYE.
RingingOrAnswered ==
  \A d \in Callers : response[d] = "ringing" <=> (call.state = "Ringing" /\ call.dialog = d)

\* An INVITE is given one final response: a CANCEL, a hangup or a reject that crosses the answer
\* does not send a second one while the call lasts.
OneFinalResponse ==
  [][\A d \in Callers : response[d] = "accepted" /\ call.dialog = d => response'[d] = response[d]]_vars

\* "A retransmitted INVITE gets the same 180 again, not a second call."
NotASecondCall ==
  [][\A d \in Callers : response[d] # "none" /\ call'.dialog = d => call.dialog = d]_vars
=============================================================================
