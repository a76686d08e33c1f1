-------------------------- MODULE CallAgent_proofs --------------------------
(***************************************************************************)
(* The safety of the call state machine for any number of calls and any    *)
(* set of callers, over either transport.                                  *)
(***************************************************************************)
EXTENDS CallAgent, TLAPS

\* What a direction says about a call, and that its id came from the engine's counter.
CallOK ==
  /\ nextId \in Nat \ {0}
  /\ call \in Calls \cup {NoCall}
  /\ call.state # "None" => call.id < nextId
  /\ call.state = "Calling" => call.direction = "out"
  /\ call.state # "None" /\ call.direction = "out" =>
       /\ call.dialog = call.id /\ call.state \in {"Calling", "Confirmed"} /\ call.port = 1
       /\ call.attempt \in 1..2
  /\ call.direction = "in" =>
       call.dialog \in Callers /\ (call.port = 1 <=> call.state # "Ringing")

SocketOK == media \in {"closed", "open", "started"} /\ SocketFollowsCall

\* An outstanding INVITE of the current call is its latest, and no BYE is out for the dialog of a
\* call that is still there.
TransactionsOK ==
  /\ transactions \subseteq Requests
  /\ \A b \in Branches : Invite(b) \in transactions =>
       b[1] < nextId /\ (b[1] = call.id => call.state = "Calling" /\ b[2] = call.attempt)
  /\ \A id \in Ids : Bye(id) \in transactions => id < nextId /\ id # call.id

ResponseOK ==
  /\ response \in [Callers -> {"none", "ringing", "accepted", "refused", "unusable", "withdrawn"}]
  /\ RingingOrAnswered

Inv == CallOK /\ SocketOK /\ TransactionsOK /\ ResponseOK /\ NoOrphanDialog

-----------------------------------------------------------------------------
LEMMA NoCallFacts ==
  /\ NoCall.id = 0 /\ NoCall.state = "None" /\ NoCall.direction = "out" /\ NoCall.dialog = 0
  /\ NoCall.attempt = 0 /\ NoCall.provisional = "no" /\ NoCall.cancel = "no" /\ NoCall.port = 0
  BY DEF NoCall, NewCall

\* call_ is empty exactly when its state is None.
LEMMA CallFacts ==
  ASSUME CallOK
  PROVE  /\ call = NoCall <=> call.state = "None"
         /\ call.state # "None" => call \in Calls /\ call.id \in Ids
         /\ call.state \in {"None", "Calling", "Ringing", "Answering", "Confirmed"}
         /\ call.state \in {"Ringing", "Answering"} => call.direction = "in"
         /\ call.state = "None" => call.id = 0 /\ call.dialog = 0 /\ call.port = 0
  BY NoCallFacts DEF CallOK, Calls

\* Requests are told apart by method and by what they are about.
LEMMA RequestFacts ==
  /\ \A b \in Branches : Invite(b) \in Requests /\ Cancel(b) \in Requests
  /\ \A d \in Dialogs : Bye(d) \in Requests
  /\ \A b, c, d : Invite(b) # Cancel(c) /\ Invite(b) # Bye(d) /\ Cancel(c) # Bye(d)
  /\ \A b, c : (Invite(b) = Invite(c) => b = c) /\ (Bye(b) = Bye(c) => b = c)
  BY DEF Invite, Cancel, Bye, Requests

\* Steps that add no INVITE: CANCELs, and BYEs of callers and of calls that are over.
Adds(more) ==
  \A t \in more : \/ \E b \in Branches : t = Cancel(b)
                  \/ \E d \in Callers : t = Bye(d)
                  \/ \E id \in Ids : t = Bye(id) /\ id < nextId /\ id # call'.id

LEMMA TransactionsKept ==
  ASSUME CallOK, TransactionsOK, NEW more, Adds(more), transactions' \subseteq transactions \cup more,
         nextId' \in Nat, nextId <= nextId',
         \A b \in Branches : Invite(b) \in transactions' /\ b[1] = call'.id =>
           b[1] = call.id /\ call'.state = call.state /\ call'.attempt = call.attempt,
         \A id \in Ids : Bye(id) \in transactions /\ id = call'.id => id = call.id
  PROVE  TransactionsOK'
<1>1. more \subseteq Requests
  BY RequestFacts DEF Adds, Dialogs
<1>2. \A b \in Branches : Invite(b) \in transactions' => Invite(b) \in transactions
  BY RequestFacts DEF Adds
<1>3. \A id \in Ids : Bye(id) \in transactions' =>
        Bye(id) \in transactions \/ (id < nextId /\ id # call'.id)
  <2> SUFFICES ASSUME NEW id \in Ids, Bye(id) \in more
               PROVE  id < nextId /\ id # call'.id
    OBVIOUS
  <2>1. id \notin Callers
    BY CallAgentAssumption DEF Ids
  <2> QED BY <2>1, RequestFacts DEF Adds
<1>4. \A b \in Branches : b[1] \in Nat
  BY DEF Branches, Ids
<1>5. nextId \in Nat
  BY DEF CallOK
<1>6. transactions' \subseteq Requests
  BY <1>1 DEF TransactionsOK
<1>7. \A b \in Branches : Invite(b) \in transactions' =>
       b[1] < nextId' /\ (b[1] = call'.id => call'.state = "Calling" /\ b[2] = call'.attempt)
  BY <1>2, <1>4, <1>5 DEF TransactionsOK
<1>8. \A id \in Ids : Bye(id) \in transactions' => id < nextId' /\ id # call'.id
  BY <1>3, <1>5 DEF TransactionsOK, Ids
<1> QED BY <1>6, <1>7, <1>8 DEF TransactionsOK, Invite, Bye

-----------------------------------------------------------------------------
\* end_call: whatever else the step did, the call is gone and its socket with it.
LEMMA Ending ==
  ASSUME Inv, call.state # "None", call' = NoCall, media' = "closed", nextId' = nextId,
         NEW more, Adds(more), transactions' \subseteq transactions \cup more,
         \/ up' = up \ {call.dialog}
         \/ up' = up /\ call.state \notin {"Answering", "Confirmed"},
         \/ response' = response /\ call.state # "Ringing"
         \/ /\ call.state = "Ringing"
            /\ \E r \in {"refused", "withdrawn"} : response' = [response EXCEPT ![call.dialog] = r]
  PROVE  Inv'
<1> USE DEF Inv
<1>1. CallOK'
  BY NoCallFacts DEF CallOK
<1>2. SocketOK'
  BY NoCallFacts DEF SocketOK, SocketFollowsCall
<1>3. TransactionsOK'
  <2>1. nextId' \in Nat /\ nextId <= nextId'
    BY DEF CallOK
  <2>2. \A b \in Branches : b[1] # call'.id
    BY NoCallFacts DEF Branches, Ids
  <2>3. \A id \in Ids : id # call'.id
    BY NoCallFacts DEF Ids
  <2> QED BY <2>1, <2>2, <2>3, TransactionsKept
<1>4. ResponseOK'
  BY NoCallFacts, CallFacts DEF ResponseOK, RingingOrAnswered, CallOK
<1>5. NoOrphanDialog'
  BY NoCallFacts DEF NoOrphanDialog
<1> QED BY <1>1, <1>2, <1>3, <1>4, <1>5

\* EndCall closes what was open.
LEMMA EndCallCloses ==
  ASSUME Inv, NEW c, NEW reason, EndCall(c, reason), c.port = 1 \/ c.port = call.port
  PROVE  call' = NoCall /\ media' = "closed"
  BY DEF Inv, SocketOK, SocketFollowsCall, EndCall

\* Steps that change nothing of the call but what these properties do not speak of.
LEMMA Continuing ==
  ASSUME Inv, call' \in Calls \cup {NoCall},
         call'.id = call.id, call'.direction = call.direction, call'.state = call.state,
         call'.dialog = call.dialog, call'.attempt = call.attempt, call'.port = call.port,
         media' \in {"closed", "open", "started"}, media' = "closed" <=> media = "closed",
         UNCHANGED <<nextId, response, up>>,
         NEW more, Adds(more), transactions' \subseteq transactions \cup more
  PROVE  Inv'
<1> USE DEF Inv
<1>1. CallOK'
  BY DEF CallOK
<1>2. SocketOK'
  BY DEF SocketOK, SocketFollowsCall
<1>3. TransactionsOK'
  <2>1. nextId' \in Nat /\ nextId <= nextId'
    BY DEF CallOK
  <2> QED BY <2>1, TransactionsKept
<1>4. ResponseOK'
  BY DEF ResponseOK, RingingOrAnswered
<1>5. NoOrphanDialog'
  BY DEF NoOrphanDialog
<1> QED BY <1>1, <1>2, <1>3, <1>4, <1>5

\* Nothing added.
LEMMA NothingAdded == Adds({})
  BY DEF Adds

LEMMA Standing ==
  ASSUME Inv, UNCHANGED <<call, media, nextId, response, up>>, transactions' \subseteq transactions
  PROVE  Inv'
<1>1. /\ call' \in Calls \cup {NoCall} /\ media' \in {"closed", "open", "started"}
      /\ transactions' \subseteq transactions \cup {}
  BY DEF Inv, CallOK, SocketOK
<1> QED BY <1>1, NothingAdded, Continuing

\* What hangup() and shutdown() may add.
LEMMA CancelAdded ==
  ASSUME CallOK, call.state = "Calling", SendCancel
  PROVE  /\ Adds({Cancel(<<call.id, call.attempt>>)})
         /\ transactions' = transactions \cup {Cancel(<<call.id, call.attempt>>)}
<1>1. <<call.id, call.attempt>> \in Branches
  BY CallFacts DEF CallOK, Branches
<1> QED BY <1>1 DEF SendCancel, Adds

LEMMA ByeAdded ==
  ASSUME CallOK, call.state # "None", call' = NoCall
  PROVE  Adds({Bye(call.dialog)})
<1>1. CASE call.direction = "in"
  BY <1>1 DEF CallOK, Adds
<1>2. CASE call.direction = "out"
  <2>1. call.dialog = call.id /\ call.id < nextId /\ call.id \in Ids /\ call.id # call'.id
    BY <1>2, CallFacts, NoCallFacts DEF CallOK, Ids
  <2> QED BY <2>1 DEF Adds
<1>3. call.direction \in {"in", "out"}
  BY CallFacts DEF Calls
<1> QED BY <1>1, <1>2, <1>3

-----------------------------------------------------------------------------
(* One step per action.                                                    *)

\* send_invite gives the call its next branch.
LEMMA InviteSent ==
  ASSUME NEW c \in Calls, c.attempt \in 0..1, NEW others, SendInvite(c, others)
  PROVE  /\ call' \in Calls /\ call'.attempt = c.attempt + 1
         /\ call'.id = c.id /\ call'.direction = c.direction /\ call'.state = c.state
         /\ call'.dialog = c.dialog /\ call'.port = c.port
         /\ call'.cancel = c.cancel /\ call'.provisional = "no"
         /\ <<c.id, c.attempt + 1>> \in Branches
         /\ transactions' = others \cup {Invite(<<c.id, c.attempt + 1>>)}
<1>1. /\ call' = [c EXCEPT !.attempt = c.attempt + 1, !.provisional = "no"]
      /\ transactions' = others \cup {Invite(<<c.id, c.attempt + 1>>)}
  BY DEF SendInvite
<1>2. c.attempt + 1 \in 1..2
  OBVIOUS
<1>3. call' \in Calls
  <2> DEFINE n == c.attempt + 1
  <2>1. n \in 0..2 /\ call' = [c EXCEPT !.attempt = n, !.provisional = "no"]
    BY <1>1, <1>2
  <2> HIDE DEF n
  <2> QED BY <2>1, Zenon DEF Calls
<1>4. /\ call'.attempt = c.attempt + 1 /\ call'.provisional = "no"
      /\ call'.id = c.id /\ call'.direction = c.direction /\ call'.state = c.state
      /\ call'.dialog = c.dialog /\ call'.port = c.port /\ call'.cancel = c.cancel
  BY <1>1 DEF Calls
<1> QED BY <1>1, <1>2, <1>3, <1>4 DEF Calls, Branches

LEMMA DialStep ==
  ASSUME Inv, NEW opened \in BOOLEAN, NEW keyed \in BOOLEAN, Dial(opened, keyed)
  PROVE  Inv'
<1> USE DEF Inv
<1>1. /\ call = NoCall /\ nextId <= MaxCalls /\ nextId' = nextId + 1
      /\ nextId \in Nat \ {0} /\ nextId' \in Nat \ {0} /\ nextId \in Ids
      /\ UNCHANGED <<response, up>> /\ media = "closed" /\ up = {}
  BY NoCallFacts, CallAgentAssumption DEF Dial, CallOK, SocketOK, SocketFollowsCall, NoOrphanDialog, Ids
<1>2. CASE ~(opened /\ keyed)
  <2>1. call' = NoCall /\ media' = "closed" /\ UNCHANGED transactions
    BY <1>1, <1>2 DEF Dial, EndCall
  <2>2. CallOK' /\ SocketOK'
    BY <1>1, <2>1, NoCallFacts DEF CallOK, SocketOK, SocketFollowsCall
  <2>3. TransactionsOK'
    BY <1>1, <2>1 DEF TransactionsOK, Branches, Ids
  <2>4. ResponseOK' /\ NoOrphanDialog'
    BY <1>1, <2>1 DEF ResponseOK, RingingOrAnswered, NoOrphanDialog
  <2> QED BY <2>2, <2>3, <2>4
<1>3. CASE opened /\ keyed
  <2> DEFINE c == NewCall(nextId, "out", "Calling", nextId, IF opened THEN 1 ELSE 0)
             b == <<nextId, 1>>
  <2>1. /\ c \in Calls /\ c.id = nextId /\ c.direction = "out" /\ c.state = "Calling" /\ c.dialog = nextId
        /\ c.attempt = 0 /\ c.attempt \in 0..1 /\ c.attempt + 1 = 1 /\ c.port = 1
    BY <1>1, <1>3 DEF NewCall, Calls, Dialogs
  <2>2. media' = "open" /\ SendInvite(c, transactions)
    BY <1>3 DEF Dial
  <2> HIDE DEF c
  <2>3. /\ call' \in Calls /\ call'.id = nextId /\ call'.direction = "out" /\ call'.state = "Calling"
        /\ call'.dialog = nextId /\ call'.attempt = 1 /\ call'.port = 1
    BY <2>1, <2>2, InviteSent, Zenon
  <2>4. transactions' = transactions \cup {Invite(b)} /\ b \in Branches /\ b[1] = nextId /\ b[2] = 1
    BY <1>1, <2>1, <2>2, InviteSent
  <2> HIDE DEF b
  <2>5. CallOK' /\ SocketOK'
    BY <1>1, <2>2, <2>3 DEF CallOK, Calls, Dialogs, SocketOK, SocketFollowsCall
  <2>6. TransactionsOK'
    <3>1. transactions' \subseteq Requests
      BY <2>4, RequestFacts DEF TransactionsOK
    <3>2. ASSUME NEW x \in Branches, Invite(x) \in transactions'
          PROVE  x[1] < nextId' /\ (x[1] = call'.id => call'.state = "Calling" /\ x[2] = call'.attempt)
      <4>1. CASE x = b
        BY <1>1, <2>3, <2>4, <4>1
      <4>2. CASE x # b
        <5>1. Invite(x) \in transactions
          BY <2>4, <3>2, <4>2, RequestFacts
        <5> QED BY <1>1, <2>3, <5>1 DEF TransactionsOK, Branches, Ids
      <4> QED BY <4>1, <4>2
    <3>3. ASSUME NEW id \in Ids, Bye(id) \in transactions'
          PROVE  id < nextId' /\ id # call'.id
      <4>1. Bye(id) \in transactions
        BY <2>4, <3>3, RequestFacts
      <4> QED BY <1>1, <2>3, <4>1 DEF TransactionsOK, Ids
    <3> QED BY <3>1, <3>2, <3>3 DEF TransactionsOK, Invite, Bye
  <2>7. ResponseOK' /\ NoOrphanDialog'
    BY <1>1, <2>3, NoCallFacts DEF ResponseOK, RingingOrAnswered, NoOrphanDialog
  <2> QED BY <2>5, <2>6, <2>7
<1> QED BY <1>2, <1>3

LEMMA AnswerStep ==
  ASSUME Inv, NEW opened \in BOOLEAN, NEW keyed \in BOOLEAN, NEW outcome \in StartOutcomes,
         Answer(opened, keyed, outcome)
  PROVE  Inv'
<1> USE DEF Inv
<1>1. /\ call.state = "Ringing" /\ call.direction = "in" /\ call.dialog \in Callers /\ call.port = 0
      /\ call \in Calls /\ media = "closed" /\ up = {} /\ UNCHANGED <<transactions, nextId>>
  BY CallFacts DEF Answer, CallOK, Calls, SocketOK, SocketFollowsCall, NoOrphanDialog
<1> DEFINE c == [call EXCEPT !.port = IF opened THEN 1 ELSE 0]
<1>2. CASE opened /\ keyed /\ outcome # "refused"
  <2>1. /\ call' = [c EXCEPT !.state = "Answering"] /\ media' = Started(outcome)
        /\ response' = [response EXCEPT ![call.dialog] = "accepted"]
        /\ up' = {call.dialog}
    BY <1>1, <1>2 DEF Answer
  <2>2. /\ call' \in Calls /\ call'.state = "Answering" /\ call'.port = 1
        /\ call'.id = call.id /\ call'.direction = "in" /\ call'.dialog = call.dialog
        /\ call'.attempt = call.attempt
    BY <1>1, <1>2, <2>1, Zenon DEF Calls
  <2>3. CallOK'
    BY <1>1, <2>2 DEF CallOK
  <2>4. SocketOK'
    BY <2>1, <2>2 DEF SocketOK, SocketFollowsCall, Started
  <2>5. TransactionsOK'
    BY <1>1, <2>2 DEF TransactionsOK
  <2>6. ResponseOK'
    BY <1>1, <2>1, <2>2 DEF ResponseOK, RingingOrAnswered
  <2>7. NoOrphanDialog'
    BY <2>1, <2>2 DEF NoOrphanDialog
  <2> QED BY <2>3, <2>4, <2>5, <2>6, <2>7
<1>3. CASE ~(opened /\ keyed /\ outcome # "refused")
  <2>1. /\ EndCall(c, "MediaFailed") /\ UNCHANGED up
        /\ response' = [response EXCEPT ![call.dialog] = "refused"]
    BY <1>3 DEF Answer
  <2>2. c.port = 1 \/ c.port = call.port
    BY <1>1 DEF Calls
  <2> HIDE DEF c
  <2>3. call' = NoCall /\ media' = "closed"
    BY <2>1, <2>2, EndCallCloses
  <2>4. nextId' = nextId /\ transactions' \subseteq transactions \cup {}
    BY <1>1
  <2> QED BY <1>1, <2>1, <2>3, <2>4, NothingAdded, Ending
<1> QED BY <1>2, <1>3

LEMMA RejectStep ==
  ASSUME Inv, Reject \/ OnCancel
  PROVE  Inv'
<1>1. /\ call.state = "Ringing" /\ response' = [response EXCEPT ![call.dialog] = "refused"]
      /\ UNCHANGED <<nextId, up>> /\ transactions' \subseteq transactions \cup {}
  BY DEF Reject, OnCancel
<1>2. call' = NoCall /\ media' = "closed"
  BY EndCallCloses DEF Reject, OnCancel
<1> QED BY <1>1, <1>2, NothingAdded, Ending

LEMMA HangUpCallStep ==
  ASSUME Inv, NEW reason, HangUpCall(reason), UNCHANGED nextId
  PROVE  Inv'
<1>1. call' = NoCall /\ media' = "closed"
  BY EndCallCloses DEF HangUpCall
<1>2. CASE call.state = "Ringing"
  <2>1. /\ response' = [response EXCEPT ![call.dialog] = "refused"] /\ UNCHANGED up
        /\ transactions' \subseteq transactions \cup {}
    BY <1>2 DEF HangUpCall
  <2> QED BY <1>1, <1>2, <2>1, NothingAdded, Ending
<1>3. CASE call.state \in {"Answering", "Confirmed"}
  <2>1. /\ UNCHANGED response /\ up' = up \ {call.dialog}
        /\ transactions' \subseteq transactions \cup {Bye(call.dialog)}
    BY <1>3 DEF HangUpCall, SendBye
  <2>2. Adds({Bye(call.dialog)})
    BY <1>1, <1>3, ByeAdded DEF Inv
  <2> QED BY <1>1, <1>3, <2>1, <2>2, Ending
<1> QED BY <1>2, <1>3 DEF HangUpCall

LEMMA HangupStep ==
  ASSUME Inv, Hangup
  PROVE  Inv'
<1>1. CASE call.state = "Calling" /\ GiveUp /\ UNCHANGED <<media, response, up, story>>
  <2>1. call \in Calls /\ media \in {"closed", "open", "started"} /\ UNCHANGED <<nextId, media, response, up>>
    BY <1>1, CallFacts DEF Hangup, Inv, SocketOK
  <2>2. \E cancel \in {"requested", "sent", call.cancel} : call' = [call EXCEPT !.cancel = cancel]
    BY <1>1 DEF GiveUp
  <2>3. /\ call' \in Calls /\ call'.id = call.id /\ call'.direction = call.direction
        /\ call'.state = call.state /\ call'.dialog = call.dialog /\ call'.attempt = call.attempt
        /\ call'.port = call.port
    BY <2>1, <2>2 DEF Calls
  <2>4. CASE SendCancel
    <3>1. Adds({Cancel(<<call.id, call.attempt>>)})
      BY <1>1, <2>4, CancelAdded DEF Inv
    <3>2. transactions' \subseteq transactions \cup {Cancel(<<call.id, call.attempt>>)}
      BY <2>4 DEF SendCancel
    <3> QED BY <2>1, <2>3, <3>1, <3>2, Continuing
  <2>5. CASE UNCHANGED transactions
    <3>1. transactions' \subseteq transactions \cup {}
      BY <2>5
    <3> QED BY <2>1, <2>3, <3>1, NothingAdded, Continuing
  <2> QED BY <1>1, <2>4, <2>5 DEF GiveUp
<1>2. CASE HangUpCall("Local")
  BY <1>2, HangUpCallStep DEF Hangup
<1> QED BY <1>1, <1>2 DEF Hangup

LEMMA ShutdownStep ==
  ASSUME Inv, Shutdown
  PROVE  Inv'
<1>1. UNCHANGED nextId
  BY DEF Shutdown
<1>2. CASE call = NoCall /\ UNCHANGED <<call, transactions, media, cancelled, response, up, story>>
  BY <1>1, <1>2, Standing
<1>3. CASE /\ call.state = "Calling"
           /\ IF CancelAtOnce THEN SendCancel ELSE UNCHANGED <<transactions, cancelled>>
           /\ EndCall(call, "Shutdown")
           /\ UNCHANGED <<response, up>>
  <2>1. call' = NoCall /\ media' = "closed"
    BY <1>3, EndCallCloses
  <2>2. CASE SendCancel
    <3>1. Adds({Cancel(<<call.id, call.attempt>>)})
      BY <1>3, <2>2, CancelAdded DEF Inv
    <3>2. transactions' \subseteq transactions \cup {Cancel(<<call.id, call.attempt>>)}
      BY <2>2 DEF SendCancel
    <3> QED BY <1>1, <1>3, <2>1, <3>1, <3>2, Ending
  <2>3. CASE UNCHANGED transactions
    <3>1. transactions' \subseteq transactions \cup {}
      BY <2>3
    <3> QED BY <1>1, <1>3, <2>1, <3>1, NothingAdded, Ending
  <2> QED BY <1>3, <2>2, <2>3
<1>4. CASE HangUpCall("Shutdown")
  BY <1>1, <1>4, HangUpCallStep
<1> QED BY <1>2, <1>3, <1>4 DEF Shutdown

LEMMA ProvisionalStep ==
  ASSUME Inv, NEW b \in Branches, NEW rings \in BOOLEAN, OnProvisional(b, rings)
  PROVE  Inv'
<1>1. UNCHANGED <<media, nextId, response, up>> /\ media \in {"closed", "open", "started"}
  BY DEF OnProvisional, hostVars, Inv, SocketOK
<1>2. CASE ~(call.id = b[1] /\ call.state = "Calling")
  <2>1. UNCHANGED <<call, transactions>>
    BY <1>2 DEF OnProvisional
  <2> QED BY <1>1, <2>1, Standing
<1>3. CASE call.id = b[1] /\ call.state = "Calling"
  <2>1. call \in Calls
    BY <1>3, CallFacts DEF Inv
  <2>2. \/ SendCancel /\ call' = [call EXCEPT !.provisional = "yes", !.cancel = "sent"]
        \/ UNCHANGED transactions /\ call' = [call EXCEPT !.provisional = "yes"]
    BY <1>3 DEF OnProvisional
  <2>3. /\ call' \in Calls /\ call'.id = call.id /\ call'.direction = call.direction
        /\ call'.state = call.state /\ call'.dialog = call.dialog /\ call'.attempt = call.attempt
        /\ call'.port = call.port
    BY <2>1, <2>2, Zenon DEF Calls
  <2>4. CASE SendCancel
    <3>1. Adds({Cancel(<<call.id, call.attempt>>)})
      BY <1>3, <2>4, CancelAdded DEF Inv
    <3>2. transactions' \subseteq transactions \cup {Cancel(<<call.id, call.attempt>>)}
      BY <2>4 DEF SendCancel
    <3> QED BY <1>1, <2>3, <3>1, <3>2, Continuing
  <2>5. CASE UNCHANGED transactions
    <3>1. transactions' \subseteq transactions \cup {}
      BY <2>5
    <3> QED BY <1>1, <2>3, <3>1, NothingAdded, Continuing
  <2> QED BY <2>2, <2>4, <2>5
<1> QED BY <1>2, <1>3

LEMMA AcceptedStep ==
  ASSUME Inv, NEW b \in Branches, NEW usable \in BOOLEAN, NEW outcome \in StartOutcomes,
         OnAccepted(b, usable, outcome)
  PROVE  Inv'
<1> DEFINE others == transactions \ {Invite(b)}
           ending == others \cup {Bye(b[1])}
           good == usable /\ outcome # "refused"
<1>1. /\ Invite(b) \in transactions /\ UNCHANGED <<nextId, response>>
      /\ up' = IF Bye(b[1]) \in transactions' THEN up ELSE up \cup {b[1]}
      /\ b[1] \in Ids /\ b[1] < nextId /\ b[1] # 0
      /\ b[1] = call.id => call.state = "Calling" /\ b[2] = call.attempt
  BY DEF OnAccepted, Inv, TransactionsOK, Branches, Ids
<1>2. CASE ~Ours(b) /\ AcceptUnknown(b, others) /\ UNCHANGED <<call, media, story>>
  <2>1. b[1] # call.id
    <3> SUFFICES ASSUME b[1] = call.id PROVE FALSE
      OBVIOUS
    <3>1. call.state = "Calling" /\ call.direction = "out" /\ <<call.id, call.attempt>> = b
      BY <1>1 DEF Inv, CallOK, Branches
    <3> QED BY <1>2, <3>1 DEF Ours
  <2>2. transactions' = ending /\ up' = up
    BY <1>1, <1>2 DEF AcceptUnknown
  <2>3. Adds({Bye(b[1])}) /\ transactions' \subseteq transactions \cup {Bye(b[1])}
    BY <1>1, <1>2, <2>1, <2>2 DEF Adds
  <2>4. call' \in Calls \cup {NoCall} /\ media' \in {"closed", "open", "started"}
    BY <1>2 DEF Inv, CallOK, SocketOK
  <2> QED BY <1>1, <1>2, <2>2, <2>3, <2>4, Continuing
<1>3. ASSUME Ours(b)
      PROVE  /\ call.id = b[1] /\ call.state = "Calling" /\ call.direction = "out" /\ call \in Calls
             /\ call.port = 1 /\ call.dialog = call.id /\ media # "closed" /\ up = {}
  <2>1. call.id = b[1] /\ call.state = "Calling" /\ call.direction = "out"
    BY <1>1, <1>3 DEF Ours, Branches
  <2> QED BY <2>1, CallFacts DEF Inv, CallOK, SocketOK, SocketFollowsCall, NoOrphanDialog
<1>4. ASSUME Ours(b), transactions' = ending, NEW reason, EndCall(call, reason)
      PROVE  Inv'
  <2>1. call' = NoCall /\ media' = "closed"
    BY <1>4, EndCallCloses
  <2>2. up' = up
    BY <1>1, <1>4
  <2>3. Adds({Bye(b[1])})
    <3>1. Adds({Bye(call.dialog)})
      BY <1>3, <1>4, <2>1, ByeAdded DEF Inv
    <3> QED BY <1>3, <1>4, <3>1
  <2>4. transactions' \subseteq transactions \cup {Bye(b[1])}
    BY <1>4
  <2> QED BY <1>1, <1>3, <1>4, <2>1, <2>2, <2>3, <2>4, Ending
<1>5. CASE /\ Ours(b) /\ call.cancel = "no" /\ good
           /\ call' = [call EXCEPT !.state = "Confirmed"]
           /\ media' = Started(outcome)
           /\ transactions' = others
  <2>1. /\ call' \in Calls /\ call'.id = call.id /\ call'.direction = call.direction
        /\ call'.state = "Confirmed" /\ call'.dialog = call.dialog /\ call'.attempt = call.attempt
        /\ call'.port = call.port
    BY <1>3, <1>5 DEF Calls
  <2>2. Bye(b[1]) \notin transactions'
    BY <1>1, <1>3, <1>5 DEF Inv, TransactionsOK
  <2>3. up' = {call.dialog}
    BY <1>1, <1>3, <1>5, <2>2
  <2>4. CallOK'
    BY <1>1, <1>3, <1>5, <2>1 DEF Inv, CallOK
  <2>5. SocketOK'
    BY <1>3, <1>5, <2>1 DEF SocketOK, SocketFollowsCall, Started
  <2>6. TransactionsOK'
    <3>1. \A x \in Branches : Invite(x) \in transactions' => x[1] # call'.id
      <4> SUFFICES ASSUME NEW x \in Branches, Invite(x) \in transactions', x[1] = call'.id
                   PROVE  FALSE
        OBVIOUS
      <4>1. Invite(x) \in transactions /\ x # b
        BY <1>5
      <4>2. x[1] = b[1] /\ x[2] = b[2]
        BY <1>1, <1>3, <1>5, <2>1, <4>1 DEF Inv, TransactionsOK
      <4> QED BY <4>1, <4>2 DEF Branches
    <3>2. nextId' \in Nat /\ nextId <= nextId' /\ transactions' \subseteq transactions \cup {}
      BY <1>1, <1>5 DEF Inv, CallOK
    <3> QED BY <2>1, <3>1, <3>2, NothingAdded, TransactionsKept DEF Inv
  <2>7. ResponseOK'
    BY <1>1, <1>3, <1>5, <2>1 DEF Inv, ResponseOK, RingingOrAnswered
  <2>8. NoOrphanDialog'
    BY <2>1, <2>3 DEF NoOrphanDialog
  <2> QED BY <2>4, <2>5, <2>6, <2>7, <2>8 DEF Inv
<1> HIDE DEF others, ending, good
<1> QED BY <1>2, <1>4, <1>5 DEF OnAccepted, others, ending, good

LEMMA FailedStep ==
  ASSUME Inv, NEW b \in Branches, NEW usable \in BOOLEAN, OnFailed(b, usable)
  PROVE  Inv'
<1> DEFINE others == transactions \ {Invite(b)}
<1>1. Invite(b) \in transactions /\ UNCHANGED <<nextId, response, up>>
  BY DEF OnFailed
<1>2. CASE ~Ours(b) /\ transactions' = others /\ UNCHANGED <<call, media, peer, story>>
  BY <1>1, <1>2, Standing
<1>3. CASE Ours(b) /\ ~MeetsChallenge(b, usable) /\ transactions' = others
           /\ \E reason \in {"Rejected", LocalReason} : EndCall(call, reason)
  <2>1. call' = NoCall /\ media' = "closed"
    BY <1>3, EndCallCloses
  <2>2. call.state = "Calling"
    BY <1>1, <1>3 DEF Ours, Inv, TransactionsOK
  <2>3. transactions' \subseteq transactions \cup {}
    BY <1>3
  <2> QED BY <1>1, <2>1, <2>2, <2>3, NothingAdded, Ending
<1>4. CASE Ours(b) /\ MeetsChallenge(b, usable) /\ SendInvite(call, others) /\ UNCHANGED <<media, story>>
  <2>1. call.state = "Calling" /\ call.id = b[1] /\ call.attempt = b[2] /\ call.attempt = 1
    BY <1>1, <1>4 DEF Ours, MeetsChallenge, Inv, TransactionsOK
  <2>2. /\ call \in Calls /\ call.direction = "out" /\ call.attempt \in 0..1 /\ call.attempt + 1 = 2
        /\ call.id \in Ids /\ call.id < nextId
    BY <2>1, CallFacts DEF Inv, CallOK
  <2>3. /\ call' \in Calls /\ call'.id = call.id /\ call'.direction = call.direction
        /\ call'.state = call.state /\ call'.dialog = call.dialog /\ call'.attempt = 2
        /\ call'.port = call.port
        /\ <<call.id, 2>> \in Branches
        /\ transactions' = others \cup {Invite(<<call.id, 2>>)}
    BY <1>4, <2>2, InviteSent
  <2>4. CallOK'
    BY <1>1, <2>2, <2>3 DEF Inv, CallOK
  <2>5. SocketOK' /\ ResponseOK' /\ NoOrphanDialog'
    BY <1>1, <1>4, <2>3 DEF Inv, SocketOK, SocketFollowsCall, ResponseOK, RingingOrAnswered, NoOrphanDialog
  <2>6. TransactionsOK'
    <3>1. transactions' \subseteq Requests
      BY <2>3, RequestFacts DEF Inv, TransactionsOK
    <3>2. ASSUME NEW x \in Branches, Invite(x) \in transactions'
          PROVE  x[1] < nextId' /\ (x[1] = call'.id => call'.state = "Calling" /\ x[2] = call'.attempt)
      <4>1. CASE x = <<call.id, 2>>
        BY <1>1, <2>1, <2>2, <2>3, <4>1
      <4>2. CASE x # <<call.id, 2>>
        <5>1. Invite(x) \in transactions /\ x # b
          BY <2>3, <3>2, <4>2, RequestFacts, Zenon
        <5>2. x[1] # call.id
          <6> SUFFICES ASSUME x[1] = call.id PROVE FALSE
            OBVIOUS
          <6>1. x[1] = b[1] /\ x[2] = b[2]
            BY <2>1, <5>1 DEF Inv, TransactionsOK
          <6> QED BY <5>1, <6>1 DEF Branches
        <5> QED BY <1>1, <2>3, <5>1, <5>2 DEF Inv, TransactionsOK
      <4> QED BY <4>1, <4>2
    <3>3. ASSUME NEW id \in Ids, Bye(id) \in transactions'
          PROVE  id < nextId' /\ id # call'.id
      <4>1. Bye(id) \in transactions
        BY <2>3, <3>3, RequestFacts
      <4> QED BY <1>1, <2>3, <4>1 DEF Inv, TransactionsOK
    <3> QED BY <3>1, <3>2, <3>3 DEF TransactionsOK, Invite, Bye
  <2> QED BY <2>4, <2>5, <2>6 DEF Inv
<1> QED BY <1>2, <1>3, <1>4 DEF OnFailed

LEMMA InviteStep ==
  ASSUME Inv, NEW d \in Callers, NEW usable \in BOOLEAN, OnInvite(d, usable)
  PROVE  Inv'
<1> USE DEF Inv
<1>1. call.dialog # d /\ UNCHANGED <<transactions, media, up>>
  BY DEF OnInvite
<1>2. CASE Busy \/ ~usable
  <2>1. /\ UNCHANGED <<call, nextId>>
        /\ \E r \in {"refused", "unusable"} : response' = [response EXCEPT ![d] = r]
    BY <1>2 DEF OnInvite
  <2>2. CallOK' /\ SocketOK' /\ TransactionsOK' /\ NoOrphanDialog'
    BY <1>1, <2>1 DEF CallOK, SocketOK, SocketFollowsCall, TransactionsOK, NoOrphanDialog
  <2>3. ResponseOK'
    BY <1>1, <2>1 DEF ResponseOK, RingingOrAnswered
  <2> QED BY <2>2, <2>3
<1>3. CASE ~(Busy \/ ~usable)
  <2>1. /\ call = NoCall /\ nextId \in Ids /\ nextId' = nextId + 1 /\ nextId \in Nat \ {0}
        /\ nextId' \in Nat \ {0}
        /\ call' = NewCall(nextId, "in", "Ringing", d, 0)
        /\ response' = [response EXCEPT ![d] = "ringing"]
    BY <1>3, CallAgentAssumption DEF OnInvite, Busy, CallOK, Ids
  <2>2. /\ call' \in Calls /\ call'.id = nextId /\ call'.direction = "in" /\ call'.state = "Ringing"
        /\ call'.dialog = d /\ call'.port = 0
    BY <2>1 DEF NewCall, Calls, Dialogs
  <2>3. CallOK'
    BY <2>1, <2>2 DEF CallOK
  <2>4. SocketOK'
    BY <1>1, <2>1, <2>2, NoCallFacts DEF SocketOK, SocketFollowsCall
  <2>5. TransactionsOK'
    BY <1>1, <2>1, <2>2 DEF TransactionsOK, Branches, Ids
  <2>6. ResponseOK'
    BY <2>1, <2>2, NoCallFacts DEF ResponseOK, RingingOrAnswered
  <2>7. NoOrphanDialog'
    BY <1>1, <2>1, <2>2, NoCallFacts DEF NoOrphanDialog
  <2> QED BY <2>3, <2>4, <2>5, <2>6, <2>7
<1> QED BY <1>2, <1>3

LEMMA ReInviteStep ==
  ASSUME Inv, NEW outcome \in StartOutcomes, OnReInvite(outcome)
  PROVE  Inv'
<1>1. call.port = 1
  BY CallFacts DEF OnReInvite, Inv, CallOK, Calls
<1>2. media # "closed" /\ media' \in {"open", "started"}
  BY <1>1 DEF OnReInvite, Started, Inv, SocketOK, SocketFollowsCall
<1>3. call' \in Calls \cup {NoCall} /\ transactions' \subseteq transactions \cup {}
  BY DEF OnReInvite, Inv, CallOK
<1>4. UNCHANGED <<call, nextId, response, up>>
  BY DEF OnReInvite, observers
<1> QED BY <1>2, <1>3, <1>4, NothingAdded, Continuing

LEMMA AckStep ==
  ASSUME Inv, OnAck
  PROVE  Inv'
<1> USE DEF Inv
<1>1. /\ call.state = "Answering" /\ call.direction = "in" /\ call \in Calls
      /\ call' = [call EXCEPT !.state = "Confirmed"]
      /\ UNCHANGED <<transactions, media, nextId, response, up>>
  BY CallFacts DEF OnAck, hostVars
<1>2. /\ call' \in Calls /\ call'.id = call.id /\ call'.direction = "in"
      /\ call'.state = "Confirmed" /\ call'.dialog = call.dialog /\ call'.attempt = call.attempt
      /\ call'.port = call.port
  BY <1>1 DEF Calls
<1>3. CallOK' /\ SocketOK'
  BY <1>1, <1>2 DEF CallOK, SocketOK, SocketFollowsCall
<1>4. TransactionsOK'
  BY <1>1, <1>2 DEF TransactionsOK
<1>5. ResponseOK' /\ NoOrphanDialog'
  BY <1>1, <1>2 DEF ResponseOK, RingingOrAnswered, NoOrphanDialog
<1> QED BY <1>3, <1>4, <1>5

LEMMA ByeStep ==
  ASSUME Inv, OnBye
  PROVE  Inv'
<1>1. /\ call.state # "None" /\ up' = up \ {call.dialog} /\ UNCHANGED nextId
      /\ transactions' \subseteq transactions \cup {}
  BY CallFacts DEF OnBye, Inv
<1>2. call' = NoCall /\ media' = "closed"
  BY EndCallCloses DEF OnBye
<1>3. \/ response' = response /\ call.state # "Ringing"
      \/ /\ call.state = "Ringing"
         /\ \E r \in {"refused", "withdrawn"} : response' = [response EXCEPT ![call.dialog] = r]
  BY DEF OnBye
<1> QED BY <1>1, <1>2, <1>3, NothingAdded, Ending

\* Only the INVITE of the current call ends it when it fails.
LEMMA LostInvite ==
  ASSUME Inv, NEW failed \in SUBSET transactions, InviteLost(failed)
  PROVE  call.state = "Calling"
<1>1. PICK t \in failed : t.method = "INVITE" /\ Ours(t.of)
  BY DEF InviteLost
<1>2. t \in Requests /\ t.of = <<call.id, call.attempt>>
  BY <1>1 DEF Ours, Inv, TransactionsOK
<1>3. t.of \in Branches /\ t = Invite(t.of) /\ t.of[1] = call.id
  BY <1>1, <1>2 DEF Requests, Invite
<1> QED BY <1>3 DEF Inv, TransactionsOK

LEMMA TimerStep ==
  ASSUME Inv, NEW expired \in SUBSET transactions, NEW unacked \in BOOLEAN, OnTimer(expired, unacked)
  PROVE  Inv'
<1>1. UNCHANGED <<nextId, response>> /\ (unacked => call.state = "Answering")
  BY DEF OnTimer
<1>2. CASE InviteLost(expired) /\ transactions' = transactions \ expired /\ EndCall(call, "Timeout")
           /\ UNCHANGED up
  <2>1. call' = NoCall /\ media' = "closed"
    BY <1>2, EndCallCloses
  <2>2. call.state = "Calling" /\ transactions' \subseteq transactions \cup {}
    BY <1>2, LostInvite
  <2> QED BY <1>1, <1>2, <2>1, <2>2, NothingAdded, Ending
<1>3. CASE unacked /\ SendBye(call.dialog, transactions \ expired) /\ EndCall(call, "Timeout")
  <2>1. call' = NoCall /\ media' = "closed"
    BY <1>3, EndCallCloses
  <2>2. Adds({Bye(call.dialog)})
    BY <1>1, <1>3, <2>1, ByeAdded DEF Inv
  <2>3. transactions' \subseteq transactions \cup {Bye(call.dialog)} /\ up' = up \ {call.dialog}
    BY <1>3 DEF SendBye
  <2> QED BY <1>1, <1>3, <2>1, <2>2, <2>3, Ending
<1>4. CASE transactions' = transactions \ expired /\ UNCHANGED <<call, media, story, up>>
  BY <1>1, <1>4, Standing
<1> QED BY <1>2, <1>3, <1>4 DEF OnTimer

LEMMA TransportDownStep ==
  ASSUME Inv, OnTransportDown
  PROVE  Inv'
<1>1. UNCHANGED <<nextId, response, up>> /\ transactions' \subseteq transactions \cup {}
  BY DEF OnTransportDown
<1>2. CASE InviteLost(transactions)
  <2>1. call' = NoCall /\ media' = "closed"
    BY <1>2, EndCallCloses DEF OnTransportDown
  <2>2. call.state = "Calling"
    BY <1>2, LostInvite
  <2> QED BY <1>1, <2>1, <2>2, NothingAdded, Ending
<1>3. CASE ~InviteLost(transactions)
  BY <1>1, <1>3, Standing DEF OnTransportDown
<1> QED BY <1>2, <1>3

-----------------------------------------------------------------------------
LEMMA InvStep ==
  ASSUME Inv, [Next]_vars
  PROVE  Inv'
<1>1. ASSUME NEW b \in Branches, NEW decision, Decide(b, decision)
      PROVE  Inv'
  BY <1>1, Standing DEF Decide, hostVars, observers
<1>2. ASSUME NEW b \in Branches, OnLateAccepted(b)
      PROVE  Inv'
  BY <1>2, Standing DEF OnLateAccepted, hostVars
<1>3. ASSUME NEW t \in transactions, OnOtherFinal(t)
      PROVE  Inv'
  BY <1>3, Standing DEF OnOtherFinal, hostVars, observers
<1>4. CASE UNCHANGED vars
  BY <1>4, Standing DEF vars, hostVars, observers
<1> QED
  BY <1>1, <1>2, <1>3, <1>4, DialStep, AnswerStep, RejectStep, HangupStep, ShutdownStep, ProvisionalStep,
     AcceptedStep, FailedStep, InviteStep, ReInviteStep, AckStep, ByeStep, TimerStep, TransportDownStep
     DEF Next

LEMMA InitInv == Init => Inv
  BY NoCallFacts DEF Init, Inv, CallOK, SocketOK, SocketFollowsCall, TransactionsOK, ResponseOK,
                     RingingOrAnswered, NoOrphanDialog

\* For any number of calls, any callers and either transport: the media socket is open exactly
\* while the call needs it, the dialogs that are up are those of the current call, and an INVITE
\* that rang is either ringing still or was answered or withdrawn.
THEOREM CallSafe == Spec => [](SocketFollowsCall /\ NoOrphanDialog /\ RingingOrAnswered)
<1>1. Inv => SocketFollowsCall /\ NoOrphanDialog /\ RingingOrAnswered
  BY DEF Inv, SocketOK, ResponseOK
<1>2. Inv /\ [Next]_vars => Inv'
  BY InvStep
<1> QED BY InitInv, <1>1, <1>2, PTL DEF Spec

\* For any number of calls, any callers and either transport: once answer() has sent the 200, no
\* reject, hangup, CANCEL or second INVITE makes this side send another final response to that
\* INVITE while its call lasts.
THEOREM OneAnswer == Spec => OneFinalResponse
<1>1. ASSUME Inv, [Next]_vars
      PROVE  [\A d \in Callers : response[d] = "accepted" /\ call.dialog = d => response'[d] = response[d]]_vars
  <2> SUFFICES ASSUME Next, NEW d \in Callers, response[d] = "accepted", call.dialog = d
               PROVE  response'[d] = response[d]
    BY <1>1
  <2>1. call.state # "Ringing" /\ call # NoCall
    BY <1>1, NoCallFacts, CallAgentAssumption DEF Inv, ResponseOK, RingingOrAnswered
  <2>2. ASSUME NEW e \in Callers, NEW usable \in BOOLEAN, OnInvite(e, usable)
        PROVE  response'[d] = response[d]
    <3>1. e # d /\ Busy
      BY <2>1, <2>2 DEF OnInvite, Busy
    <3>2. response' = [response EXCEPT ![e] = "refused"]
      BY <2>2, <3>1 DEF OnInvite
    <3> QED BY <1>1, <3>1, <3>2 DEF Inv, ResponseOK
  <2>3. CASE Hangup \/ Shutdown
    BY <2>1, <2>3 DEF Hangup, Shutdown, HangUpCall
  <2>4. CASE OnBye
    BY <2>1, <2>4 DEF OnBye
  <2>5. CASE ~(\E e \in Callers, usable \in BOOLEAN : OnInvite(e, usable)) /\ ~Hangup /\ ~Shutdown /\ ~OnBye
    BY <2>1, <2>5, Zenon DEF Next, Dial, Answer, Reject, Decide, OnProvisional, OnAccepted, OnLateAccepted, OnFailed,
                      OnOtherFinal, OnReInvite, OnAck, OnCancel, OnTimer, OnTransportDown, observers
  <2> QED BY <2>2, <2>3, <2>4, <2>5
<1>2. Inv /\ [Next]_vars => Inv'
  BY InvStep
<1>3. Inv /\ [Next]_vars =>
        [\A d \in Callers : response[d] = "accepted" /\ call.dialog = d => response'[d] = response[d]]_vars
  BY <1>1
<1> QED BY InitInv, <1>2, <1>3, PTL DEF Spec, OneFinalResponse

-----------------------------------------------------------------------------
Branch == <<call.id, call.attempt>>

\* An outstanding INVITE of the current call is on its latest branch.
LEMMA LatestBranch ==
  ASSUME Inv, NEW b \in Branches, Invite(b) \in transactions, b[1] = call.id
  PROVE  call.state = "Calling" /\ b = Branch
  BY DEF Inv, TransactionsOK, Branches, Branch

-----------------------------------------------------------------------------
(* The events of a call.                                                   *)

\* The story of a call that has not ended: nothing but perhaps progress while it calls, just the
\* arrival until an incoming one is acknowledged.
OpenStory(state, events) ==
  /\ \A i \in 1..Len(events) : events[i] \notin EndReasons
  /\ state = "Calling" => events = <<>> \/ (Len(events) = 1 /\ events[1] = "Progress")
  /\ state \in {"Ringing", "Answering"} => Len(events) = 1 /\ events[1] = "Incoming"

\* Ids not given out yet have no story, those of calls that are over have ended, and the story of the
\* current call fits its state.
StoryInv ==
  /\ story \in [Ids -> Seq(Events)]
  /\ \A id \in Ids : Legal(story[id])
  /\ \A id \in Ids : id >= nextId => story[id] = <<>>
  /\ \A id \in Ids : id < nextId /\ id # call.id => Ended(id)
  /\ call.state # "None" => OpenStory(call.state, story[call.id])

\* What may follow a legal story that has not ended.
Follows(events, event) ==
  /\ event \in {"Incoming", "Progress"} => events = <<>>
  /\ event = "Answered" => events = <<>> \/ events[Len(events)] \in {"Incoming", "Progress"}
  /\ event = "RemoteCancelled" => Len(events) = 1 /\ events[1] = "Incoming"
  /\ event \in {"Rejected", "Timeout", "MediaFailed"} => events = <<>> \/ events[Len(events)] # "Answered"

LEMMA LegalAppend ==
  ASSUME NEW s \in Seq(Events), NEW e \in Events, Legal(s), Follows(s, e),
         \A i \in 1..Len(s) : s[i] \notin EndReasons
  PROVE  Legal(Append(s, e))
<1> DEFINE t == Append(s, e)
<1>1. /\ Len(s) \in Nat /\ Len(t) = Len(s) + 1 /\ t[Len(s) + 1] = e
      /\ \A i \in 1..Len(s) : t[i] = s[i]
  OBVIOUS
<1>2. s = <<>> <=> Len(s) = 0
  OBVIOUS
<1> HIDE DEF t
<1> SUFFICES ASSUME NEW i \in 1..Len(t)
             PROVE  /\ t[i] = "Incoming" => i = 1
                    /\ t[i] = "Progress" => i = 1
                    /\ t[i] = "Answered" => i = 1 \/ t[i - 1] \in {"Incoming", "Progress"}
                    /\ t[i] = "RemoteCancelled" => i = 2 /\ t[1] = "Incoming"
                    /\ t[i] \in EndReasons => i = Len(t)
                    /\ t[i] \in {"Rejected", "Timeout", "MediaFailed"} => i = 1 \/ t[i - 1] # "Answered"
  BY DEF Legal, t
<1>3. CASE i \in 1..Len(s)
  <2>1. t[i] = s[i] /\ s[i] \notin EndReasons /\ (i # 1 => i - 1 \in 1..Len(s) /\ t[i - 1] = s[i - 1])
    BY <1>1, <1>3
  <2>2. /\ s[i] = "Incoming" => i = 1
        /\ s[i] = "Progress" => i = 1
        /\ s[i] = "Answered" => i = 1 \/ s[i - 1] \in {"Incoming", "Progress"}
    BY <1>3 DEF Legal
  <2> QED BY <2>1, <2>2 DEF EndReasons
<1>4. CASE i = Len(s) + 1
  <2>1. t[i] = e /\ i = Len(t) /\ (i # 1 => i - 1 = Len(s) /\ t[i - 1] = s[Len(s)])
    BY <1>1, <1>4
  <2>2. Len(s) = 1 => t[1] = s[1] /\ i = 2
    BY <1>1, <1>4
  <2> QED BY <1>1, <1>2, <1>4, <2>1, <2>2 DEF Follows
<1> QED BY <1>1, <1>3, <1>4

\* One event is added to one story.
LEMMA StoryAppends ==
  ASSUME StoryInv, NEW id \in Ids, NEW e \in Events, Follows(story[id], e),
         \A i \in 1..Len(story[id]) : story[id][i] \notin EndReasons,
         story' = [story EXCEPT ![id] = Append(@, e)]
  PROVE  /\ story' \in [Ids -> Seq(Events)] /\ \A x \in Ids : Legal(story'[x])
         /\ \A x \in Ids : x # id => story'[x] = story[x]
         /\ story'[id] = Append(story[id], e)
<1>1. story \in [Ids -> Seq(Events)] /\ story[id] \in Seq(Events) /\ Legal(story[id])
  BY DEF StoryInv
<1>2. Legal(Append(story[id], e)) /\ Append(story[id], e) \in Seq(Events)
  BY <1>1, LegalAppend
<1>3. /\ story'[id] = Append(story[id], e) /\ \A x \in Ids : x # id => story'[x] = story[x]
      /\ story' \in [Ids -> Seq(Events)]
  BY <1>1, <1>2
<1>4. ASSUME NEW x \in Ids PROVE Legal(story'[x])
  BY <1>2, <1>3 DEF StoryInv
<1> QED BY <1>3, <1>4

\* The call ends with an event that its state allows.
LEMMA StoryEnds ==
  ASSUME Inv, StoryInv, call.state # "None", NEW c, c.id = call.id, NEW reason \in EndReasons,
         EndCall(c, reason), nextId' = nextId,
         reason = "RemoteCancelled" => call.state = "Ringing",
         reason \in {"Rejected", "Timeout", "MediaFailed"} => call.state # "Confirmed"
  PROVE  StoryInv'
<1>0. PICK id : id = call.id
  OBVIOUS
<1> DEFINE s == story[id]
<1>1. id \in Ids /\ id < nextId /\ call' = NoCall /\ nextId \in Nat
  BY <1>0, CallFacts DEF Inv, CallOK, EndCall
<1>2. story' = [story EXCEPT ![id] = Append(@, reason)]
  BY <1>0 DEF EndCall, Tell, EndReasons
<1>3. OpenStory(call.state, s) /\ s \in Seq(Events)
  BY <1>0, <1>1 DEF StoryInv
<1>4. call.state \in {"Calling", "Ringing", "Answering", "Confirmed"}
  BY CallFacts DEF Inv
<1>5. Follows(s, reason) /\ reason \in Events
  BY <1>3, <1>4 DEF Follows, OpenStory, EndReasons, Events
<1>6. /\ story' \in [Ids -> Seq(Events)] /\ \A x \in Ids : Legal(story'[x])
      /\ \A x \in Ids : x # id => story'[x] = story[x]
      /\ story'[id] = Append(s, reason)
  <2>1. \A i \in 1..Len(s) : s[i] \notin EndReasons
    BY <1>3 DEF OpenStory
  <2> QED BY <1>1, <1>2, <1>5, <2>1, StoryAppends, Zenon
<1>7. Ended(id)'
  <2>1. Append(s, reason) # <<>> /\ Append(s, reason)[Len(Append(s, reason))] = reason
    BY <1>3
  <2> QED BY <1>6, <2>1 DEF Ended
<1>8. \A x \in Ids : x >= nextId' => story'[x] = <<>>
  BY <1>1, <1>6 DEF StoryInv, Ids
<1>9. \A x \in Ids : x < nextId' /\ x # call'.id => Ended(x)'
  BY <1>0, <1>6, <1>7 DEF StoryInv, Ended
<1> QED BY <1>1, <1>6, <1>8, <1>9, NoCallFacts DEF StoryInv

\* No event: the call goes on, from ringing to answering at most.
LEMMA StoryKept ==
  ASSUME Inv, StoryInv, UNCHANGED <<story, nextId>>, call'.id = call.id,
         call'.state = call.state \/ (call.state = "Ringing" /\ call'.state = "Answering")
  PROVE  StoryInv'
<1>1. call'.state # "None" => OpenStory(call'.state, story[call.id])
  BY DEF StoryInv, OpenStory
<1> QED BY <1>1 DEF StoryInv, Ended

\* Progress, or the answer, of a call that waits for it.
LEMMA StoryGoesOn ==
  ASSUME Inv, StoryInv, nextId' = nextId, call'.id = call.id, NEW e, Tell(call.id, e),
         \/ e = "Progress" /\ call.state = "Calling" /\ call'.state = "Calling"
         \/ e = "Answered" /\ call.state \in {"Calling", "Answering"} /\ call'.state = "Confirmed"
  PROVE  StoryInv'
<1>0. PICK id : id = call.id
  OBVIOUS
<1> DEFINE s == story[id]
<1>1. id \in Ids /\ id < nextId /\ nextId \in Nat /\ e \in Events
  BY <1>0, CallFacts DEF Inv, CallOK, Events
<1>2. OpenStory(call.state, s) /\ s \in Seq(Events) /\ call'.state # "None"
  BY <1>0, <1>1 DEF StoryInv
<1>3. CASE e = "Progress" /\ s # <<>>
  <2>1. s[Len(s)] = "Progress"
    BY <1>2, <1>3 DEF OpenStory
  <2> QED BY <1>0, <1>3, <2>1, StoryKept DEF Tell
<1>4. CASE ~(e = "Progress" /\ s # <<>>)
  <2>1. story' = [story EXCEPT ![id] = Append(@, e)]
    BY <1>0, <1>4 DEF Tell
  <2>2. Follows(s, e)
    BY <1>2, <1>4 DEF Follows, OpenStory
  <2>3. /\ story' \in [Ids -> Seq(Events)] /\ \A x \in Ids : Legal(story'[x])
        /\ \A x \in Ids : x # id => story'[x] = story[x]
        /\ story'[id] = Append(s, e)
    <3>1. \A i \in 1..Len(s) : s[i] \notin EndReasons
      BY <1>2 DEF OpenStory
    <3> QED BY <1>1, <2>1, <2>2, <3>1, StoryAppends, Zenon
  <2>4. OpenStory(call'.state, Append(s, e))
    <3>1. e \notin EndReasons
      BY DEF EndReasons
    <3>2. /\ Len(Append(s, e)) = Len(s) + 1 /\ Append(s, e)[Len(s) + 1] = e
          /\ \A i \in 1..Len(s) : Append(s, e)[i] = s[i]
      BY <1>1, <1>2
    <3>3. \A i \in 1..Len(Append(s, e)) : Append(s, e)[i] \notin EndReasons
      BY <1>2, <3>1, <3>2 DEF OpenStory
    <3> QED BY <1>2, <1>4, <3>2, <3>3 DEF OpenStory
  <2>5. \A x \in Ids : x >= nextId' => story'[x] = <<>>
    BY <1>1, <2>3 DEF StoryInv, Ids
  <2>6. \A x \in Ids : x < nextId' /\ x # call'.id => Ended(x)'
    BY <1>0, <2>3 DEF StoryInv, Ended
  <2> QED BY <1>0, <1>1, <2>3, <2>4, <2>5, <2>6 DEF StoryInv
<1> QED BY <1>3, <1>4

\* A call that never came to be has its end as its story, a new incoming one its arrival.
LEMMA StoryBegins ==
  ASSUME Inv, StoryInv, call = NoCall, nextId <= MaxCalls, nextId' = nextId + 1,
         \/ call'.id = nextId /\ call'.state = "Calling" /\ UNCHANGED story
         \/ call'.id = nextId /\ call'.state = "Ringing" /\ Tell(nextId, "Incoming")
         \/ call' = NoCall /\ Tell(nextId, "MediaFailed")
  PROVE  StoryInv'
<1>0. PICK id : id = nextId
  OBVIOUS
<1>1. /\ id \in Ids /\ nextId \in Nat \ {0} /\ call.id = 0 /\ NoCall.id = 0 /\ NoCall.state = "None"
      /\ story[id] = <<>>
  BY <1>0, CallAgentAssumption, NoCallFacts DEF Inv, CallOK, Ids, StoryInv
<1>2. CASE UNCHANGED story /\ call'.id = nextId /\ call'.state = "Calling"
  <2>1. \A x \in Ids : x >= nextId' => story'[x] = <<>>
    BY <1>1, <1>2 DEF StoryInv, Ids
  <2>2. \A x \in Ids : x < nextId' /\ x # call'.id => Ended(x)'
    BY <1>1, <1>2 DEF StoryInv, Ids, Ended
  <2>3. OpenStory(call'.state, story'[call'.id])
    BY <1>0, <1>1, <1>2 DEF OpenStory
  <2> QED BY <1>2, <2>1, <2>2, <2>3 DEF StoryInv
<1>3. ASSUME NEW e \in Events, Tell(nextId, e),
             \/ call'.id = nextId /\ call'.state = "Ringing" /\ e = "Incoming"
             \/ call' = NoCall /\ e = "MediaFailed"
      PROVE  StoryInv'
  <2>1. story' = [story EXCEPT ![id] = Append(@, e)]
    BY <1>0, <1>3 DEF Tell
  <2>2. Follows(story[id], e) /\ \A i \in 1..Len(story[id]) : story[id][i] \notin EndReasons
    BY <1>1, <1>3 DEF Follows
  <2>3. /\ story' \in [Ids -> Seq(Events)] /\ \A x \in Ids : Legal(story'[x])
        /\ \A x \in Ids : x # id => story'[x] = story[x]
        /\ story'[id] = Append(story[id], e)
    BY <1>1, <2>1, <2>2, StoryAppends, Zenon
  <2>4. /\ story'[id] # <<>> /\ Len(story'[id]) = 1 /\ story'[id][1] = e
        /\ story'[id][Len(story'[id])] = e
    BY <1>1, <2>3
  <2>5. \A x \in Ids : x >= nextId' => story'[x] = <<>>
    BY <1>0, <1>1, <2>3 DEF StoryInv, Ids
  <2>6. \A x \in Ids : x < nextId' /\ x # call'.id => Ended(x)'
    <3> SUFFICES ASSUME NEW x \in Ids, x < nextId', x # call'.id PROVE Ended(x)'
      OBVIOUS
    <3>1. CASE x = id
      BY <1>0, <1>3, <2>4, <3>1 DEF Ended, EndReasons
    <3>2. CASE x # id
      BY <1>0, <1>1, <2>3, <3>2 DEF StoryInv, Ids, Ended
    <3> QED BY <3>1, <3>2
  <2>7. call'.state # "None" => OpenStory(call'.state, story'[call'.id])
    BY <1>0, <1>1, <1>3, <2>4 DEF OpenStory, EndReasons
  <2> QED BY <2>3, <2>5, <2>6, <2>7 DEF StoryInv
<1> QED BY <1>2, <1>3 DEF Events, EndReasons

LEMMA CommandsTell ==
  ASSUME Inv, StoryInv,
         \/ \E opened, keyed \in BOOLEAN : Dial(opened, keyed)
         \/ \E opened, keyed \in BOOLEAN, outcome \in StartOutcomes : Answer(opened, keyed, outcome)
         \/ Reject \/ Hangup \/ Shutdown
  PROVE  StoryInv'
<1>1. ASSUME NEW opened \in BOOLEAN, NEW keyed \in BOOLEAN, Dial(opened, keyed)
      PROVE  StoryInv'
  <2> DEFINE c == NewCall(nextId, "out", "Calling", nextId, IF opened THEN 1 ELSE 0)
  <2>1. call = NoCall /\ nextId <= MaxCalls /\ nextId' = nextId + 1
    BY <1>1 DEF Dial
  <2>2. c.id = nextId /\ c.state = "Calling"
    BY DEF NewCall
  <2>3. CASE opened /\ keyed
    <3>1. SendInvite(c, transactions) /\ UNCHANGED story
      BY <1>1, <2>3 DEF Dial
    <3>2. c \in Calls /\ c.attempt \in 0..1
      BY <2>1, <2>3, CallAgentAssumption DEF NewCall, Calls, Dialogs, Inv, CallOK, Ids
    <3> HIDE DEF c
    <3>3. SendInvite(c, transactions)
      BY <3>1
    <3>4. call'.id = c.id /\ call'.state = c.state
      BY <3>2, <3>3, InviteSent, Zenon
    <3> QED BY <2>1, <2>2, <3>1, <3>4, StoryBegins
  <2>4. CASE ~(opened /\ keyed)
    <3>1. EndCall(c, "MediaFailed")
      BY <1>1, <2>4 DEF Dial
    <3>2. call' = NoCall /\ Tell(nextId, "MediaFailed")
      BY <2>2, <3>1 DEF EndCall
    <3> QED BY <2>1, <3>2, StoryBegins
  <2> QED BY <2>3, <2>4
<1>2. ASSUME NEW opened \in BOOLEAN, NEW keyed \in BOOLEAN, NEW outcome \in StartOutcomes,
             Answer(opened, keyed, outcome)
      PROVE  StoryInv'
  <2> DEFINE c == [call EXCEPT !.port = IF opened THEN 1 ELSE 0]
  <2>1. call.state = "Ringing" /\ call \in Calls /\ nextId' = nextId
    BY <1>2, CallFacts DEF Answer, Inv
  <2>2. c.id = call.id /\ c \in Calls
    BY <2>1 DEF Calls
  <2>3. CASE opened /\ keyed /\ outcome # "refused"
    <3>1. call' = [c EXCEPT !.state = "Answering"] /\ UNCHANGED story
      BY <1>2, <2>3 DEF Answer
    <3>2. call'.id = call.id /\ call'.state = "Answering"
      BY <2>2, <3>1 DEF Calls
    <3> QED BY <2>1, <3>1, <3>2, StoryKept
  <2>4. CASE ~(opened /\ keyed /\ outcome # "refused")
    <3>1. EndCall(c, "MediaFailed")
      BY <1>2, <2>4 DEF Answer
    <3> HIDE DEF c
    <3> QED BY <2>1, <2>2, <3>1, StoryEnds DEF EndReasons
  <2> QED BY <2>3, <2>4
<1>3. CASE Reject
  BY <1>3, StoryEnds DEF Reject, EndReasons
<1>4. ASSUME NEW reason \in {"Local", "Shutdown"}, HangUpCall(reason), nextId' = nextId
      PROVE  StoryInv'
  BY <1>4, StoryEnds DEF HangUpCall, EndReasons
<1>5. CASE Hangup
  <2>1. nextId' = nextId
    BY <1>5 DEF Hangup
  <2>2. CASE call.state = "Calling" /\ GiveUp /\ UNCHANGED <<media, response, up, story>>
    <3>1. call \in Calls
      BY <2>2, CallFacts DEF Inv
    <3>2. call'.id = call.id /\ call'.state = call.state
      BY <2>2, <3>1 DEF GiveUp, Calls
    <3> QED BY <2>1, <2>2, <3>2, StoryKept
  <2> QED BY <1>4, <1>5, <2>1, <2>2 DEF Hangup
<1>6. CASE Shutdown
  <2>1. nextId' = nextId
    BY <1>6 DEF Shutdown
  <2>2. CASE UNCHANGED <<call, story>>
    BY <2>1, <2>2, StoryKept
  <2>3. CASE call.state = "Calling" /\ EndCall(call, "Shutdown")
    BY <2>1, <2>3, StoryEnds DEF EndReasons
  <2> QED BY <1>4, <1>6, <2>1, <2>2, <2>3 DEF Shutdown
<1> QED BY <1>1, <1>2, <1>3, <1>5, <1>6

LEMMA MessagesTell ==
  ASSUME Inv, StoryInv, NEW b \in Branches,
         \/ \E decision \in {"accepted", "refused", "challenged"} : Decide(b, decision)
         \/ \E rings \in BOOLEAN : OnProvisional(b, rings)
         \/ \E usable \in BOOLEAN, outcome \in StartOutcomes : OnAccepted(b, usable, outcome)
         \/ OnLateAccepted(b)
         \/ \E usable \in BOOLEAN : OnFailed(b, usable)
  PROVE  StoryInv'
<1>1. ASSUME Ours(b), Invite(b) \in transactions
      PROVE  call.state = "Calling" /\ call \in Calls
  BY <1>1, LatestBranch, CallFacts DEF Ours, Inv, Branches
<1>2. CASE (\E decision \in {"accepted", "refused", "challenged"} : Decide(b, decision)) \/ OnLateAccepted(b)
  BY <1>2, StoryKept, Zenon DEF Decide, OnLateAccepted, hostVars, observers
<1>3. ASSUME NEW rings \in BOOLEAN, OnProvisional(b, rings)
      PROVE  StoryInv'
  <2>1. nextId' = nextId
    BY <1>3 DEF OnProvisional, hostVars
  <2>2. CASE call.id = b[1] /\ call.state = "Calling"
    <3>1. call \in Calls
      BY <2>2, CallFacts DEF Inv
    <3>2. \/ call' = [call EXCEPT !.provisional = "yes", !.cancel = "sent"]
          \/ call' = [call EXCEPT !.provisional = "yes"]
      BY <1>3, <2>2 DEF OnProvisional
    <3>3. call'.id = call.id /\ call'.state = call.state
      <4>1. CASE call' = [call EXCEPT !.provisional = "yes", !.cancel = "sent"]
        BY <3>1, <4>1 DEF Calls
      <4>2. CASE call' = [call EXCEPT !.provisional = "yes"]
        BY <3>1, <4>2 DEF Calls
      <4> QED BY <3>2, <4>1, <4>2
    <3>4. UNCHANGED story \/ Tell(call.id, "Progress")
      BY <1>3, <2>2 DEF OnProvisional
    <3> QED BY <2>1, <2>2, <3>3, <3>4, StoryKept, StoryGoesOn
  <2>3. CASE ~(call.id = b[1] /\ call.state = "Calling")
    BY <1>3, <2>1, <2>3, StoryKept DEF OnProvisional
  <2> QED BY <2>2, <2>3
<1>4. ASSUME NEW usable \in BOOLEAN, NEW outcome \in StartOutcomes, OnAccepted(b, usable, outcome)
      PROVE  StoryInv'
  <2>1. nextId' = nextId /\ Invite(b) \in transactions
    BY <1>4 DEF OnAccepted
  <2>2. CASE UNCHANGED <<call, media, story>>
    BY <2>1, <2>2, StoryKept
  <2>3. ASSUME NEW reason \in {"Local", "Shutdown", "MediaFailed"}, Ours(b), EndCall(call, reason)
        PROVE  StoryInv'
    BY <1>1, <2>1, <2>3, StoryEnds DEF EndReasons
  <2>4. CASE Ours(b) /\ call' = [call EXCEPT !.state = "Confirmed"] /\ Tell(call.id, "Answered")
    <3>1. call'.id = call.id /\ call'.state = "Confirmed" /\ call.state = "Calling"
      BY <1>1, <2>1, <2>4 DEF Calls
    <3> QED BY <2>1, <2>4, <3>1, StoryGoesOn
  <2> QED BY <1>4, <2>2, <2>3, <2>4 DEF OnAccepted, LocalReason
<1>5. ASSUME NEW usable \in BOOLEAN, OnFailed(b, usable)
      PROVE  StoryInv'
  <2>1. nextId' = nextId /\ Invite(b) \in transactions
    BY <1>5 DEF OnFailed
  <2>2. CASE UNCHANGED <<call, story>>
    BY <2>1, <2>2, StoryKept
  <2>3. CASE Ours(b) /\ MeetsChallenge(b, usable) /\ SendInvite(call, transactions \ {Invite(b)}) /\ UNCHANGED story
    <3>1. call \in Calls /\ call.attempt \in 0..1
      BY <1>1, <2>1, <2>3 DEF MeetsChallenge
    <3>2. SendInvite(call, transactions \ {Invite(b)})
      BY <2>3
    <3>3. call'.id = call.id /\ call'.state = call.state
      BY <3>1, <3>2, InviteSent, Zenon
    <3> QED BY <2>1, <2>3, <3>3, StoryKept
  <2>4. ASSUME NEW reason \in {"Local", "Shutdown", "Rejected"}, Ours(b), EndCall(call, reason)
        PROVE  StoryInv'
    BY <1>1, <2>1, <2>4, StoryEnds DEF EndReasons
  <2> QED BY <1>5, <2>2, <2>3, <2>4 DEF OnFailed, LocalReason
<1> QED BY <1>2, <1>3, <1>4, <1>5

LEMMA OthersTell ==
  ASSUME Inv, StoryInv,
         \/ \E t \in transactions : OnOtherFinal(t)
         \/ \E d \in Callers, usable \in BOOLEAN : OnInvite(d, usable)
         \/ \E outcome \in StartOutcomes : OnReInvite(outcome)
         \/ OnAck \/ OnBye \/ OnCancel
         \/ \E expired \in SUBSET transactions, unacked \in BOOLEAN : OnTimer(expired, unacked)
         \/ OnTransportDown
         \/ UNCHANGED vars
  PROVE  StoryInv'
<1>1. CASE (\E t \in transactions : OnOtherFinal(t)) \/ (\E outcome \in StartOutcomes : OnReInvite(outcome))
           \/ UNCHANGED vars
  BY <1>1, StoryKept DEF OnOtherFinal, OnReInvite, vars, hostVars, observers
<1>2. ASSUME NEW d \in Callers, NEW usable \in BOOLEAN, OnInvite(d, usable)
      PROVE  StoryInv'
  <2>1. CASE Busy \/ ~usable
    BY <1>2, <2>1, StoryKept DEF OnInvite
  <2>2. CASE ~(Busy \/ ~usable)
    <3>1. /\ call = NoCall /\ nextId <= MaxCalls /\ nextId' = nextId + 1
          /\ call' = NewCall(nextId, "in", "Ringing", d, 0) /\ Tell(nextId, "Incoming")
      BY <1>2, <2>2 DEF OnInvite, Busy
    <3>2. call'.id = nextId /\ call'.state = "Ringing"
      BY <3>1 DEF NewCall
    <3> QED BY <3>1, <3>2, StoryBegins
  <2> QED BY <2>1, <2>2
<1>3. CASE OnAck
  <2>1. /\ call.state = "Answering" /\ call \in Calls /\ call' = [call EXCEPT !.state = "Confirmed"]
        /\ nextId' = nextId /\ Tell(call.id, "Answered")
    BY <1>3, CallFacts DEF OnAck, hostVars, Inv
  <2>2. call'.id = call.id /\ call'.state = "Confirmed"
    BY <2>1 DEF Calls
  <2> QED BY <2>1, <2>2, StoryGoesOn
<1>4. CASE OnBye
  <2>1. call.state # "None" /\ EndCall(call, "RemoteHangup") /\ nextId' = nextId
    BY <1>4, CallFacts DEF OnBye, Inv
  <2> QED BY <2>1, StoryEnds DEF EndReasons
<1>5. CASE OnCancel
  BY <1>5, StoryEnds DEF OnCancel, EndReasons
<1>6. ASSUME NEW failed \in SUBSET transactions, EndCall(call, "Timeout"), nextId' = nextId,
             InviteLost(failed) \/ call.state = "Answering"
      PROVE  StoryInv'
  BY <1>6, LostInvite, StoryEnds DEF EndReasons
<1>7. ASSUME NEW expired \in SUBSET transactions, NEW unacked \in BOOLEAN, OnTimer(expired, unacked)
      PROVE  StoryInv'
  <2>1. /\ nextId' = nextId
        /\ \/ EndCall(call, "Timeout") /\ (InviteLost(expired) \/ call.state = "Answering")
           \/ UNCHANGED <<call, story>>
    BY <1>7 DEF OnTimer
  <2> QED BY <1>6, <2>1, StoryKept
<1>8. CASE OnTransportDown
  <2>1. /\ nextId' = nextId
        /\ \/ EndCall(call, "Timeout") /\ InviteLost(transactions)
           \/ UNCHANGED <<call, story>>
    BY <1>8 DEF OnTransportDown
  <2>2. transactions \in SUBSET transactions
    OBVIOUS
  <2> QED BY <1>6, <2>1, <2>2, StoryKept
<1> QED BY <1>1, <1>2, <1>3, <1>4, <1>5, <1>7, <1>8

\* For any number of calls, any callers and either transport: whatever the order of commands,
\* messages, timers and transport failures, the events that end_call and its callers queue for the
\* application form a legal story of every call, and every call but the current one is reported
\* ended exactly once.
THEOREM StoriesSafe == Spec => []StoriesLegal
<1>1. Init => StoryInv
  BY NoCallFacts DEF Init, StoryInv, Legal, Ids
<1>2. Inv /\ StoryInv /\ [Next]_vars => Inv' /\ StoryInv'
  <2> SUFFICES ASSUME Inv, StoryInv, [Next]_vars PROVE StoryInv'
    BY InvStep
  <2> QED BY CommandsTell, MessagesTell, OthersTell DEF Next
<1>3. Inv /\ StoryInv => StoriesLegal
  <2> SUFFICES ASSUME Inv, StoryInv, NEW id \in Ids
               PROVE  Legal(story[id]) /\ (Ended(id) <=> id < nextId /\ call.id # id)
    BY DEF StoriesLegal
  <2>1. Legal(story[id]) /\ story[id] \in Seq(Events)
    BY DEF StoryInv
  <2>2. nextId \in Nat /\ id \in Nat
    BY DEF Inv, CallOK, Ids
  <2>3. id >= nextId => ~Ended(id)
    BY DEF StoryInv, Ended
  <2>4. ASSUME call.id = id PROVE ~Ended(id)
    <3>1. call.state # "None"
      BY <2>4, CallFacts DEF Inv, Ids
    <3>2. \A i \in 1..Len(story[id]) : story[id][i] \notin EndReasons
      BY <2>4, <3>1 DEF StoryInv, OpenStory
    <3> QED BY <2>1, <3>2 DEF Ended
  <2> QED BY <2>1, <2>2, <2>3, <2>4 DEF StoryInv
<1> QED BY InitInv, <1>1, <1>2, <1>3, PTL DEF Spec

-----------------------------------------------------------------------------
\* No CANCEL is owed for the INVITE on branch b once its call is over.
Settled(b) == b \notin heard \/ b \in cancelled \/ EndedBy(b[1], "RemoteHangup")

\* `provisional` of an outgoing call says what was heard on its latest branch, a requested CANCEL
\* waits only for a provisional response, and an INVITE that outlives its call is settled.
CancelInv ==
  /\ \A b \in heard : b \in Branches /\ b[1] < nextId /\ (b[1] = call.id => b[2] <= call.attempt)
  /\ cancelled \subseteq heard
  /\ call.state = "Calling" =>
       /\ call.provisional = "yes" <=> Branch \in heard
       /\ call.cancel = "sent" => Branch \in cancelled
       /\ call.cancel = "requested" => call.provisional = "no"
  /\ \A b \in Branches : Invite(b) \in transactions /\ b[1] # call.id => Settled(b)

\* The story of a call that is over does not change.
OthersKept == \A id \in Ids : id < nextId /\ id # call.id => story'[id] = story[id]

LEMMA OthersTold ==
  ASSUME Inv, StoryInv, [Next]_vars
  PROVE  OthersKept
<1>1. ASSUME NEW event, NEW id, Tell(id, event), id = call.id \/ id = nextId
      PROVE  OthersKept
  <2>1. nextId \in Nat
    BY DEF Inv, CallOK
  <2>2. story' = story \/ \E events : story' = [story EXCEPT ![id] = events]
    BY <1>1, Zenon DEF Tell
  <2>3. \A other \in Ids : other # id => story'[other] = story[other]
    BY <2>2 DEF StoryInv
  <2>4. \A other \in Ids : other < nextId /\ other # call.id => other # id
    BY <1>1, <2>1 DEF Ids
  <2> QED BY <2>2, <2>3, <2>4 DEF OthersKept
<1>2. CASE story' = story
  BY <1>2 DEF OthersKept
<1>3. ASSUME NEW opened \in BOOLEAN, NEW keyed \in BOOLEAN, Dial(opened, keyed)
      PROVE  OthersKept
  <2>1. story' = story \/ \E c : c = NewCall(nextId, "out", "Calling", nextId, IF opened THEN 1 ELSE 0)
                                /\ Tell(c.id, "MediaFailed")
    BY <1>3, Zenon DEF Dial, EndCall
  <2>2. story' = story \/ Tell(nextId, "MediaFailed")
    BY <2>1 DEF NewCall
  <2> QED BY <1>1, <1>2, <2>2
<1>4. ASSUME NEW opened \in BOOLEAN, NEW keyed \in BOOLEAN, NEW outcome \in StartOutcomes,
             Answer(opened, keyed, outcome)
      PROVE  OthersKept
  <2>1. call \in Calls
    BY <1>4, CallFacts DEF Answer, Inv
  <2>2. \A port : [call EXCEPT !.port = port].id = call.id
    BY <2>1 DEF Calls
  <2>3. story' = story \/ Tell(call.id, "MediaFailed")
    BY <1>4, <2>2, Zenon DEF Answer, EndCall
  <2> QED BY <1>1, <1>2, <2>3
<1>5. ASSUME NEW reason, EndCall(call, reason) PROVE OthersKept
  BY <1>1, <1>5 DEF EndCall
<1>6. CASE Reject \/ Hangup \/ Shutdown \/ OnBye \/ OnCancel
  BY <1>2, <1>5, <1>6, Zenon DEF Reject, Hangup, Shutdown, OnBye, OnCancel, HangUpCall
<1>7. CASE OnAck \/ (\E b \in Branches, rings \in BOOLEAN : OnProvisional(b, rings))
           \/ (\E d \in Callers, usable \in BOOLEAN : OnInvite(d, usable))
  BY <1>1, <1>2, <1>7, Zenon DEF OnAck, OnProvisional, OnInvite
<1>8. CASE \/ \E b \in Branches, usable \in BOOLEAN, outcome \in StartOutcomes : OnAccepted(b, usable, outcome)
           \/ \E b \in Branches, usable \in BOOLEAN : OnFailed(b, usable)
           \/ \E expired \in SUBSET transactions, unacked \in BOOLEAN : OnTimer(expired, unacked)
           \/ OnTransportDown
  BY <1>1, <1>2, <1>5, <1>8, Zenon DEF OnAccepted, OnFailed, OnTimer, OnTransportDown
<1>9. CASE \/ \E b \in Branches, decision \in {"accepted", "refused", "challenged"} : Decide(b, decision)
           \/ \E b \in Branches : OnLateAccepted(b)
           \/ \E t \in transactions : OnOtherFinal(t)
           \/ \E outcome \in StartOutcomes : OnReInvite(outcome)
           \/ UNCHANGED vars
  BY <1>2, <1>9, Zenon DEF Decide, OnLateAccepted, OnOtherFinal, OnReInvite, observers, vars
<1> QED BY <1>3, <1>4, <1>6, <1>7, <1>8, <1>9, Zenon DEF Next

LEMMA TellsLast ==
  ASSUME StoryInv, NEW id \in Ids, NEW event, event # "Progress", Tell(id, event)
  PROVE  EndedBy(id, event)'
<1>1. story \in [Ids -> Seq(Events)] /\ story' = [story EXCEPT ![id] = Append(story[id], event)]
  BY DEF StoryInv, Tell
<1>2. story'[id] = Append(story[id], event) /\ story[id] \in Seq(Events)
  BY <1>1
<1>3. /\ Len(Append(story[id], event)) = Len(story[id]) + 1 /\ Len(story[id]) \in Nat
      /\ Append(story[id], event)[Len(story[id]) + 1] = event
  BY <1>2
<1>4. Append(story[id], event) # <<>>
  <2>1. \A s : s = <<>> => Len(s) = 0
    OBVIOUS
  <2> QED BY <1>3, <2>1
<1> QED BY <1>2, <1>3, <1>4 DEF EndedBy

\* What is settled stays so while nothing more is heard on the branch.
LEMMA SettledKept ==
  ASSUME Inv, OthersKept, NEW b \in Branches, Invite(b) \in transactions, b[1] # call.id, Settled(b),
         b \in heard' => b \in heard, cancelled \subseteq cancelled'
  PROVE  Settled(b)'
<1>1. b[1] \in Ids /\ b[1] < nextId
  BY DEF Inv, TransactionsOK, Branches
<1>2. story'[b[1]] = story[b[1]]
  BY <1>1, Zenon DEF OthersKept
<1> QED BY <1>2, Zenon DEF Settled, EndedBy

\* Steps that neither hear nor cancel anything, and start no outgoing call.
LEMMA CancelKept ==
  ASSUME Inv, CancelInv, OthersKept, UNCHANGED <<heard, cancelled>>, nextId' \in Nat, nextId <= nextId',
         \A b \in Branches : Invite(b) \in transactions' => Invite(b) \in transactions,
         (call'.id = call.id /\ call'.attempt = call.attempt) \/ call'.id \in {0, nextId},
         call'.state = "Calling" =>
           /\ call.state = "Calling" /\ call'.id = call.id /\ call'.attempt = call.attempt
           /\ call'.provisional = call.provisional /\ call'.cancel = call.cancel,
         \A b \in Branches : Invite(b) \in transactions' /\ b[1] = call.id /\ b[1] # call'.id => Settled(b)'
  PROVE  CancelInv'
<1>1. nextId \in Nat /\ \A b \in Branches : b[1] \in Nat \ {0}
  BY DEF Inv, CallOK, Branches, Ids
<1>2. \A b \in heard' : b \in Branches /\ b[1] < nextId' /\ (b[1] = call'.id => b[2] <= call'.attempt)
  BY <1>1 DEF CancelInv
<1>3. call'.state = "Calling" =>
       /\ call'.provisional = "yes" <=> Branch' \in heard'
       /\ call'.cancel = "sent" => Branch' \in cancelled'
       /\ call'.cancel = "requested" => call'.provisional = "no"
  BY DEF CancelInv, Branch
<1>4. ASSUME NEW b \in Branches, Invite(b) \in transactions', b[1] # call'.id PROVE Settled(b)'
  BY <1>4, SettledKept, Zenon DEF CancelInv
<1> QED BY <1>2, <1>3, <1>4 DEF CancelInv, Invite

\* send_cancel, for a call that heard a provisional response on its latest branch.
LEMMA CancelSent ==
  ASSUME Inv, CancelInv, call.state = "Calling", SendCancel, Branch \in heard', heard \subseteq heard'
  PROVE  /\ cancelled' = cancelled \cup {Branch} /\ cancelled' \subseteq heard'
         /\ \A b \in Branches : Invite(b) \in transactions' => Invite(b) \in transactions
  BY RequestFacts DEF SendCancel, Branch, CancelInv

\* A call's first INVITE, or the one that answers a challenge, goes out on a branch nothing was
\* heard on.
LEMMA InviteCancelInv ==
  ASSUME Inv, CancelInv, OthersKept, NEW c \in Calls, c.attempt \in 0..1, c.cancel = "no", NEW others,
         SendInvite(c, others), others \subseteq transactions, UNCHANGED <<heard, cancelled>>,
         nextId \in Nat, nextId' \in Nat, nextId <= nextId',
         c.id = nextId \/ (c.id = call.id /\ c.attempt = call.attempt),
         c.id # call.id => \A b \in Branches : b[1] # call.id
  PROVE  CancelInv'
<1> DEFINE n == <<c.id, c.attempt + 1>>
<1>1. /\ call' \in Calls /\ call'.attempt = c.attempt + 1 /\ call'.id = c.id
      /\ call'.cancel = "no" /\ call'.provisional = "no"
      /\ n \in Branches /\ transactions' = others \cup {Invite(n)}
  BY InviteSent
<1>2. c.attempt \in Nat /\ c.attempt + 1 > c.attempt /\ n[1] = c.id /\ n[2] = c.attempt + 1
  OBVIOUS
<1>3. Branch' = n
  BY <1>1 DEF Branch
<1> HIDE DEF n
<1>5. \A b \in heard : b \in Branches /\ b[1] \in Nat /\ b[2] \in Nat
  BY DEF CancelInv, Branches, Ids
<1>6. n \notin heard
  BY <1>2, <1>5 DEF CancelInv
<1>7. \A b \in heard' : b \in Branches /\ b[1] < nextId' /\ (b[1] = call'.id => b[2] <= call'.attempt)
  BY <1>1, <1>2, <1>5 DEF CancelInv
<1>8. ASSUME NEW b \in Branches, Invite(b) \in transactions', b[1] # call'.id
      PROVE  Settled(b)'
  <2>1. b # n /\ Invite(b) \in transactions
    BY <1>1, <1>2, <1>8, RequestFacts, Zenon
  <2>2. b[1] # call.id
    BY <1>1, <1>8
  <2> QED BY <2>1, <2>2, SettledKept, Zenon DEF CancelInv
<1> QED BY <1>1, <1>3, <1>6, <1>7, <1>8 DEF CancelInv, Invite

\* A call ends quietly when its INVITE is no longer outstanding, or is settled.
LEMMA CancelEnding ==
  ASSUME Inv, CancelInv, OthersKept, call' = NoCall, UNCHANGED <<heard, cancelled, nextId>>,
         \A b \in Branches : Invite(b) \in transactions' => Invite(b) \in transactions,
         \A b \in Branches : Invite(b) \in transactions' /\ b[1] = call.id /\ call.state = "Calling" => Settled(b)'
  PROVE  CancelInv'
<1>1. nextId' \in Nat /\ nextId <= nextId' /\ call'.id = 0 /\ call'.state = "None"
  BY NoCallFacts DEF Inv, CallOK
<1>2. \A b \in Branches : Invite(b) \in transactions' /\ b[1] = call.id => Settled(b)'
  BY LatestBranch, Zenon
<1> QED BY <1>1, <1>2, CancelKept

\* Steps that leave the call's branch and its CANCEL alone.
LEMMA CancelStanding ==
  ASSUME Inv, CancelInv, OthersKept, UNCHANGED <<heard, cancelled, nextId>>,
         call'.id = call.id, call'.attempt = call.attempt,
         call'.state = "Calling" =>
           call.state = "Calling" /\ call'.provisional = call.provisional /\ call'.cancel = call.cancel,
         \A b \in Branches : Invite(b) \in transactions' => Invite(b) \in transactions
  PROVE  CancelInv'
<1>1. nextId' \in Nat /\ nextId <= nextId'
  BY DEF Inv, CallOK
<1> QED BY <1>1, CancelKept

LEMMA CommandsCancel ==
  ASSUME Inv, CancelInv, OthersKept,
         \/ \E opened, keyed \in BOOLEAN : Dial(opened, keyed)
         \/ \E opened, keyed \in BOOLEAN, outcome \in StartOutcomes : Answer(opened, keyed, outcome)
         \/ Reject \/ OnCancel \/ Hangup \/ Shutdown
  PROVE  CancelInv'
<1>1. nextId \in Nat \ {0}
  BY DEF Inv, CallOK
<1>2. ASSUME NEW opened \in BOOLEAN, NEW keyed \in BOOLEAN, Dial(opened, keyed)
      PROVE  CancelInv'
  <2>1. /\ call = NoCall /\ nextId' = nextId + 1 /\ nextId \in Ids
        /\ UNCHANGED <<heard, cancelled, shuttingDown>>
    BY <1>1, <1>2, CallAgentAssumption DEF Dial, Ids
  <2>2. CASE opened /\ keyed
    <3> DEFINE c == NewCall(nextId, "out", "Calling", nextId, IF opened THEN 1 ELSE 0)
    <3>1. c \in Calls /\ c.id = nextId /\ c.attempt \in 0..1 /\ c.cancel = "no"
      BY <2>1, <2>2 DEF NewCall, Calls, Dialogs
    <3>2. SendInvite(c, transactions)
      BY <1>2, <2>2 DEF Dial
    <3> HIDE DEF c
    <3>3. \A b \in Branches : b[1] # call.id
      BY <2>1, NoCallFacts DEF Branches, Ids
    <3>4. nextId \in Nat /\ nextId' \in Nat /\ nextId <= nextId'
      BY <1>1, <2>1
    <3> QED BY <2>1, <3>1, <3>2, <3>3, <3>4, InviteCancelInv
  <2>3. CASE ~(opened /\ keyed)
    <3>1. call' = NoCall /\ UNCHANGED <<transactions, peer>>
      BY <1>2, <2>3 DEF Dial, EndCall
    <3>2. nextId' \in Nat /\ nextId <= nextId' /\ call'.id = 0 /\ call'.state = "None" /\ call.id = 0
      BY <1>1, <2>1, <3>1, NoCallFacts
    <3>3. \A b \in Branches : b[1] # call.id
      BY <3>2 DEF Branches, Ids
    <3> QED BY <1>1, <2>1, <3>1, <3>2, <3>3, CancelKept
  <2> QED BY <2>2, <2>3
<1>3. ASSUME NEW opened \in BOOLEAN, NEW keyed \in BOOLEAN, NEW outcome \in StartOutcomes,
             Answer(opened, keyed, outcome)
      PROVE  CancelInv'
  <2>1. call.state = "Ringing" /\ call \in Calls
        /\ UNCHANGED <<transactions, nextId, shuttingDown, peer, heard, cancelled>>
    BY <1>3, CallFacts DEF Answer, Inv
  <2>2. \/ call' = NoCall
        \/ \E port \in {0, 1} : call' = [[call EXCEPT !.port = port] EXCEPT !.state = "Answering"]
    BY <1>3 DEF Answer, EndCall
  <2>3. CASE call' = NoCall
    BY <2>1, <2>3, CancelEnding
  <2>4. CASE \E port \in {0, 1} : call' = [[call EXCEPT !.port = port] EXCEPT !.state = "Answering"]
    <3>1. call'.id = call.id /\ call'.attempt = call.attempt /\ call'.state = "Answering"
      BY <2>1, <2>4 DEF Calls
    <3> QED BY <1>1, <2>1, <3>1, CancelStanding
  <2> QED BY <2>2, <2>3, <2>4
<1>4. CASE Reject \/ OnCancel
  <2>1. /\ call.state = "Ringing" /\ call' = NoCall
        /\ UNCHANGED <<transactions, nextId, shuttingDown, peer, heard, cancelled>>
    BY <1>4 DEF Reject, OnCancel, EndCall
  <2> QED BY <2>1, CancelEnding
<1>5. ASSUME NEW reason, HangUpCall(reason), UNCHANGED <<nextId, heard, cancelled>>
      PROVE  CancelInv'
  <2>1. call.state # "Calling" /\ call' = NoCall
    BY <1>5 DEF HangUpCall, EndCall
  <2>2. \A b \in Branches : Invite(b) \in transactions' => Invite(b) \in transactions
    BY <1>5, RequestFacts DEF HangUpCall, SendBye
  <2> QED BY <1>5, <2>1, <2>2, CancelEnding
<1>6. CASE Hangup
  <2>1. UNCHANGED <<nextId, shuttingDown, peer, heard>>
    BY <1>6 DEF Hangup
  <2>2. CASE call.state = "Calling" /\ GiveUp
    <3>1. call \in Calls
      BY <2>2, CallFacts DEF Inv
    <3>2. CASE CancelAtOnce
      <4>1. call' = [call EXCEPT !.cancel = "sent"] /\ SendCancel
        BY <2>2, <3>2 DEF GiveUp
      <4>2. Branch \in heard' /\ heard \subseteq heard'
        BY <2>1, <2>2, <3>2 DEF CancelAtOnce, CancelInv
      <4>3. /\ cancelled' = cancelled \cup {Branch} /\ cancelled' \subseteq heard'
            /\ \A b \in Branches : Invite(b) \in transactions' => Invite(b) \in transactions
        BY <2>2, <4>1, <4>2, CancelSent
      <4>4. /\ call'.id = call.id /\ call'.attempt = call.attempt /\ call'.cancel = "sent"
            /\ call'.provisional = "yes" /\ Branch' = Branch
        BY <3>1, <3>2, <4>1 DEF Calls, CancelAtOnce, Branch
      <4>5. ASSUME NEW b \in Branches, Invite(b) \in transactions', b[1] # call'.id PROVE Settled(b)'
        BY <2>1, <4>3, <4>4, <4>5, SettledKept, Zenon DEF CancelInv
      <4> QED BY <2>1, <4>2, <4>3, <4>4, <4>5 DEF CancelInv, Invite
    <3>3. CASE ~CancelAtOnce
      <4>1. /\ call' = [call EXCEPT !.cancel = IF call.cancel = "no" THEN "requested" ELSE call.cancel]
            /\ UNCHANGED <<transactions, cancelled>>
        BY <2>2, <3>3 DEF GiveUp
      <4>2. /\ call'.id = call.id /\ call'.attempt = call.attempt /\ call'.provisional = call.provisional
            /\ call'.cancel = (IF call.cancel = "no" THEN "requested" ELSE call.cancel)
            /\ Branch' = Branch
        BY <3>1, <4>1 DEF Calls, Branch
      <4>3. call.provisional \in {"no", "yes"}
        BY <3>1 DEF Calls
      <4>4. ASSUME NEW b \in Branches, Invite(b) \in transactions', b[1] # call'.id PROVE Settled(b)'
        BY <2>1, <4>1, <4>2, <4>4, SettledKept, Zenon DEF CancelInv
      <4> QED BY <2>1, <2>2, <3>3, <4>1, <4>2, <4>3, <4>4 DEF CancelInv, CancelAtOnce, Invite
    <3> QED BY <3>2, <3>3
  <2>3. CASE HangUpCall("Local") /\ UNCHANGED cancelled
    BY <1>5, <2>1, <2>3
  <2> QED BY <1>6, <2>2, <2>3 DEF Hangup
<1>7. CASE Shutdown
  <2>1. UNCHANGED <<nextId, peer, heard>> /\ shuttingDown' = TRUE
    BY <1>7 DEF Shutdown
  <2>2. CASE call = NoCall /\ UNCHANGED <<call, transactions, cancelled>>
    BY <1>1, <2>1, <2>2, CancelStanding
  <2>3. CASE call.state = "Calling" /\ call' = NoCall /\ ~CancelAtOnce /\ UNCHANGED <<transactions, cancelled>>
    <3>1. call.cancel \in {"no", "requested", "sent"} /\ call.provisional \in {"no", "yes"}
      BY <2>3, CallFacts DEF Inv, Calls
    <3>2. Branch \notin heard \/ Branch \in cancelled
      BY <2>3, <3>1 DEF CancelInv, CancelAtOnce
    <3>3. \A b \in Branches : Invite(b) \in transactions' /\ b[1] = call.id => Settled(b)'
      BY <2>1, <2>3, <3>2, LatestBranch, Zenon DEF Settled
    <3> QED BY <2>1, <2>3, <3>3, CancelEnding
  <2>4. CASE call.state = "Calling" /\ call' = NoCall /\ CancelAtOnce /\ SendCancel
    <3>1. Branch \in heard' /\ heard \subseteq heard'
      BY <2>1, <2>4 DEF CancelAtOnce, CancelInv
    <3>2. /\ cancelled' = cancelled \cup {Branch} /\ cancelled' \subseteq heard'
          /\ \A b \in Branches : Invite(b) \in transactions' => Invite(b) \in transactions
      BY <2>4, <3>1, CancelSent
    <3>3. \A b \in heard' : b \in Branches /\ b[1] < nextId' /\ b[1] # call'.id
      BY <2>1, <2>4, NoCallFacts DEF CancelInv, Branches, Ids
    <3>4. ASSUME NEW b \in Branches, Invite(b) \in transactions' PROVE Settled(b)'
      <4>1. CASE b[1] = call.id
        BY <3>2, <3>4, <4>1, LatestBranch DEF Settled
      <4>2. CASE b[1] # call.id
        BY <2>1, <3>2, <3>4, <4>2, SettledKept, Zenon DEF CancelInv
      <4> QED BY <4>1, <4>2
    <3> QED BY <1>1, <2>1, <2>4, <3>2, <3>3, <3>4, NoCallFacts DEF CancelInv, Invite
  <2>5. CASE HangUpCall("Shutdown") /\ UNCHANGED cancelled
    BY <1>5, <2>1, <2>5
  <2> QED BY <1>7, <2>2, <2>3, <2>4, <2>5 DEF Shutdown, EndCall
<1> QED BY <1>2, <1>3, <1>4, <1>6, <1>7

LEMMA ResponsesCancel ==
  ASSUME Inv, CancelInv, OthersKept, NEW b \in Branches,
         \/ \E decision \in {"accepted", "refused", "challenged"} : Decide(b, decision)
         \/ \E rings \in BOOLEAN : OnProvisional(b, rings)
         \/ \E usable \in BOOLEAN, outcome \in StartOutcomes : OnAccepted(b, usable, outcome)
         \/ OnLateAccepted(b)
         \/ \E usable \in BOOLEAN : OnFailed(b, usable)
  PROVE  CancelInv'
<1>1. nextId \in Nat \ {0} /\ nextId <= nextId
  BY DEF Inv, CallOK
<1>2. ASSUME NEW decision \in {"accepted", "refused", "challenged"}, Decide(b, decision)
      PROVE  CancelInv'
  <2>1. UNCHANGED <<call, transactions, nextId, heard, cancelled>>
    BY <1>2 DEF Decide, hostVars, observers
  <2> QED BY <2>1, CancelStanding
<1>3. ASSUME NEW rings \in BOOLEAN, OnProvisional(b, rings)
      PROVE  CancelInv'
  <2>1. /\ Invite(b) \in transactions /\ heard' = heard \cup {b} /\ nextId' = nextId
        /\ call.id = b[1] /\ call.state = "Calling"
    BY <1>3 DEF OnProvisional, hostVars
  <2>2. b[1] < nextId /\ b[2] = call.attempt /\ b = Branch /\ call \in Calls
    BY <2>1, LatestBranch, CallFacts DEF Inv, TransactionsOK
  <2>3. \A x \in heard' : x \in Branches /\ x[1] < nextId /\ (x[1] = call.id => x[2] <= call.attempt)
    BY <2>1, <2>2 DEF CancelInv, Branches
  <2>4. ASSUME NEW x \in Branches, Invite(x) \in transactions, x[1] # call.id, cancelled \subseteq cancelled'
        PROVE  Settled(x)'
    <3>1. x # b /\ (x \in heard' => x \in heard)
      BY <2>1, <2>4
    <3> QED BY <2>4, <3>1, SettledKept, Zenon DEF CancelInv
  <2>5. CASE call.cancel = "requested"
    <3>1. SendCancel /\ call' = [call EXCEPT !.provisional = "yes", !.cancel = "sent"]
      BY <1>3, <2>5 DEF OnProvisional
    <3>2. /\ call'.id = call.id /\ call'.attempt = call.attempt /\ call'.provisional = "yes"
          /\ call'.cancel = "sent" /\ Branch' = Branch
      BY <2>2, <3>1 DEF Calls, Branch
    <3>3. /\ cancelled' = cancelled \cup {Branch} /\ cancelled' \subseteq heard'
          /\ \A x \in Branches : Invite(x) \in transactions' => Invite(x) \in transactions
      BY <2>1, <2>2, <3>1, CancelSent
    <3>4. \A x \in Branches : Invite(x) \in transactions' /\ x[1] # call'.id => Settled(x)'
      BY <2>4, <3>2, <3>3, Zenon
    <3> QED BY <2>1, <2>2, <2>3, <3>2, <3>3, <3>4 DEF CancelInv, Invite
  <2>6. CASE call.cancel # "requested"
    <3>1. UNCHANGED <<transactions, cancelled>> /\ call' = [call EXCEPT !.provisional = "yes"]
      BY <1>3, <2>6 DEF OnProvisional
    <3>2. /\ call'.id = call.id /\ call'.attempt = call.attempt /\ call'.provisional = "yes"
          /\ call'.cancel = call.cancel /\ Branch' = Branch
      BY <2>2, <3>1 DEF Calls, Branch
    <3>3. \A x \in Branches : Invite(x) \in transactions' /\ x[1] # call'.id => Settled(x)'
      BY <2>4, <3>1, <3>2
    <3> QED BY <2>1, <2>2, <2>3, <2>6, <3>1, <3>2, <3>3 DEF CancelInv, Invite
  <2> QED BY <2>5, <2>6
<1>4. ASSUME NEW usable \in BOOLEAN, NEW outcome \in StartOutcomes, OnAccepted(b, usable, outcome)
      PROVE  CancelInv'
  <2>1. /\ Invite(b) \in transactions /\ UNCHANGED <<nextId, shuttingDown, peer, heard, cancelled>>
        /\ transactions' \subseteq (transactions \ {Invite(b)}) \cup {Bye(b[1])}
        /\ \/ UNCHANGED call
           \/ Ours(b) /\ call' = NoCall
           \/ Ours(b) /\ call' = [call EXCEPT !.state = "Confirmed"]
    BY <1>4 DEF OnAccepted, AcceptUnknown, EndCall
  <2>2. \A x \in Branches : Invite(x) \in transactions' => Invite(x) \in transactions /\ x # b
    BY <2>1, RequestFacts
  <2>3. CASE UNCHANGED call
    BY <1>1, <2>1, <2>2, <2>3, CancelStanding
  <2>4. CASE Ours(b) /\ call' = NoCall
    <3>1. \A x \in Branches : Invite(x) \in transactions' => x[1] # call.id
      BY <2>2, <2>4, LatestBranch DEF Ours, Branch
    <3> QED BY <2>1, <2>2, <2>4, <3>1, CancelEnding
  <2>5. CASE Ours(b) /\ call' = [call EXCEPT !.state = "Confirmed"]
    <3>1. call \in Calls
      BY <2>5, CallFacts DEF Ours, Inv
    <3>2. call'.id = call.id /\ call'.attempt = call.attempt /\ call'.state = "Confirmed"
      BY <2>5, <3>1 DEF Calls
    <3> QED BY <1>1, <2>1, <2>2, <3>2, CancelStanding
  <2> QED BY <2>1, <2>3, <2>4, <2>5
<1>5. CASE OnLateAccepted(b)
  <2>1. UNCHANGED <<call, transactions, nextId, shuttingDown, peer, heard, cancelled>>
    BY <1>5, Zenon DEF OnLateAccepted, hostVars
  <2> QED BY <1>1, <2>1, CancelStanding
<1>6. ASSUME NEW usable \in BOOLEAN, OnFailed(b, usable)
      PROVE  CancelInv'
  <2> DEFINE others == transactions \ {Invite(b)}
  <2>1. Invite(b) \in transactions /\ UNCHANGED <<nextId, shuttingDown, heard, cancelled>>
    BY <1>6 DEF OnFailed
  <2>2. \A x \in Branches : Invite(x) \in others => Invite(x) \in transactions /\ x # b
    OBVIOUS
  <2>3. CASE transactions' = others /\ UNCHANGED <<call, peer>>
    BY <1>1, <2>1, <2>3, CancelStanding
  <2>4. CASE Ours(b) /\ transactions' = others /\ call' = NoCall /\ UNCHANGED peer
    <3>1. \A x \in Branches : Invite(x) \in transactions' => x[1] # call.id
      BY <2>2, <2>4, LatestBranch DEF Ours, Branch
    <3> QED BY <2>1, <2>2, <2>4, <3>1, CancelEnding, Zenon
  <2>5. CASE Ours(b) /\ MeetsChallenge(b, usable) /\ SendInvite(call, others)
    <3>1. call \in Calls /\ call.attempt \in 0..1 /\ call.cancel = "no"
      <4>1. CallOK
        BY Zenon DEF Inv
      <4>2. call.state # "None" /\ call.attempt = 1 /\ call.cancel = "no"
        BY <2>5 DEF Ours, MeetsChallenge
      <4>3. call \in Calls
        BY <4>1, <4>2, CallFacts, Zenon
      <4> QED BY <4>2, <4>3
    <3>2. nextId \in Nat /\ nextId' \in Nat /\ nextId <= nextId' /\ others \subseteq transactions
      BY <1>1, <2>1
    <3> QED BY <2>1, <2>5, <3>1, <3>2, InviteCancelInv
  <2> QED BY <1>6, <2>3, <2>4, <2>5 DEF OnFailed, EndCall
<1> QED BY <1>2, <1>3, <1>4, <1>5, <1>6

LEMMA OthersCancel ==
  ASSUME Inv, CancelInv, StoryInv, OthersKept,
         \/ \E t \in transactions : OnOtherFinal(t)
         \/ \E d \in Callers, usable \in BOOLEAN : OnInvite(d, usable)
         \/ \E outcome \in StartOutcomes : OnReInvite(outcome)
         \/ OnAck \/ OnBye
         \/ \E expired \in SUBSET transactions, unacked \in BOOLEAN : OnTimer(expired, unacked)
         \/ OnTransportDown
         \/ UNCHANGED vars
  PROVE  CancelInv'
<1>1. nextId \in Nat \ {0} /\ nextId + 1 \in Nat /\ nextId <= nextId + 1
  BY DEF Inv, CallOK
<1>2. CASE (\E t \in transactions : OnOtherFinal(t)) \/ (\E outcome \in StartOutcomes : OnReInvite(outcome))
           \/ UNCHANGED vars
  <2>1. UNCHANGED <<call, nextId, shuttingDown, peer, heard, cancelled>> /\ transactions' \subseteq transactions
    BY <1>2 DEF OnOtherFinal, OnReInvite, vars, hostVars, observers
  <2> QED BY <1>1, <2>1, CancelStanding
<1>3. ASSUME NEW d \in Callers, NEW usable \in BOOLEAN, OnInvite(d, usable)
      PROVE  CancelInv'
  <2>1. UNCHANGED <<transactions, shuttingDown, peer, heard, cancelled>>
    BY <1>3 DEF OnInvite
  <2>2. CASE Busy \/ ~usable
    <3>1. UNCHANGED <<call, nextId>>
      BY <1>3, <2>2 DEF OnInvite
    <3> QED BY <1>1, <2>1, <3>1, CancelStanding
  <2>3. CASE ~(Busy \/ ~usable)
    <3>1. call = NoCall /\ nextId' = nextId + 1 /\ call' = NewCall(nextId, "in", "Ringing", d, 0)
      BY <1>3, <2>3 DEF OnInvite, Busy
    <3>2. call'.id = nextId /\ call'.state = "Ringing" /\ nextId' \in Nat /\ nextId <= nextId'
      BY <1>1, <3>1 DEF NewCall
    <3>3. \A b \in Branches : b[1] # call.id
      BY <3>1, NoCallFacts DEF Branches, Ids
    <3> QED BY <1>1, <2>1, <3>2, <3>3, CancelKept
  <2> QED BY <2>2, <2>3
<1>4. CASE OnAck
  <2>1. /\ call.state = "Answering" /\ call \in Calls /\ call' = [call EXCEPT !.state = "Confirmed"]
        /\ UNCHANGED <<transactions, nextId, shuttingDown, peer, heard, cancelled>>
    BY <1>4, CallFacts DEF OnAck, hostVars, Inv
  <2>2. call'.id = call.id /\ call'.attempt = call.attempt /\ call'.state = "Confirmed"
    BY <2>1 DEF Calls
  <2> QED BY <1>1, <2>1, <2>2, CancelStanding
<1>5. CASE OnBye
  <2>1. call' = NoCall /\ UNCHANGED <<transactions, nextId, shuttingDown, peer, heard, cancelled>>
    BY <1>5 DEF OnBye, EndCall
  <2>2. PICK id : id = call.id
    OBVIOUS
  <2>3. id \in Ids /\ Tell(id, "RemoteHangup")
    BY <1>5, <2>2, CallFacts DEF OnBye, EndCall, Inv
  <2>4. EndedBy(id, "RemoteHangup")'
    BY <2>3, TellsLast
  <2>5. \A b \in Branches : Invite(b) \in transactions' /\ b[1] = call.id => Settled(b)'
    BY <2>2, <2>4 DEF Settled, EndedBy
  <2> QED BY <2>1, <2>5, CancelEnding
<1>6. ASSUME NEW expired \in SUBSET transactions, NEW unacked \in BOOLEAN, OnTimer(expired, unacked)
      PROVE  CancelInv'
  <2>1. /\ UNCHANGED <<nextId, shuttingDown, peer, heard, cancelled>>
        /\ \/ InviteLost(expired) /\ transactions' = transactions \ expired /\ call' = NoCall
           \/ call.state = "Answering" /\ SendBye(call.dialog, transactions \ expired) /\ call' = NoCall
           \/ transactions' = transactions \ expired /\ UNCHANGED call
    BY <1>6 DEF OnTimer, EndCall
  <2>2. \A b \in Branches : Invite(b) \in transactions' => Invite(b) \in transactions
    BY <2>1, RequestFacts DEF SendBye
  <2>3. CASE InviteLost(expired) /\ transactions' = transactions \ expired /\ call' = NoCall
    <3>1. PICK t \in expired : t.method = "INVITE" /\ t.of = Branch /\ t \in Requests
      BY <2>3, Zenon DEF InviteLost, Ours, Branch, Inv, TransactionsOK
    <3>2. t = Invite(Branch)
      BY <3>1, Zenon DEF Requests, Invite
    <3>3. \A b \in Branches : Invite(b) \in transactions' => b[1] # call.id
      BY <2>2, <2>3, <3>2, LatestBranch, Zenon
    <3> QED BY <2>1, <2>2, <2>3, <3>3, CancelEnding, Zenon
  <2>4. CASE call.state = "Answering" /\ call' = NoCall
    BY <2>1, <2>2, <2>4, CancelEnding, Zenon
  <2>5. CASE UNCHANGED call
    BY <1>1, <2>1, <2>2, <2>5, CancelStanding
  <2> QED BY <2>1, <2>3, <2>4, <2>5
<1>7. CASE OnTransportDown
  <2>1. /\ UNCHANGED <<nextId, shuttingDown, peer, heard, cancelled>> /\ transactions' = {}
        /\ call' = NoCall \/ UNCHANGED call
    BY <1>7 DEF OnTransportDown, EndCall
  <2> QED BY <1>1, <2>1, CancelEnding, CancelStanding
<1> QED BY <1>2, <1>3, <1>4, <1>5, <1>6, <1>7

\* For any number of calls, any callers and either transport: on_invite_provisional, hangup() and
\* shutdown() send a CANCEL only after a provisional response to the very INVITE it cancels, and an
\* outstanding INVITE that was given up and whose call noted one is cancelled, unless the far end
\* ended the call with a BYE.
THEOREM CancelSafe == Spec => []CancelWhenAllowed
<1>1. Init => CancelInv
  BY NoCallFacts DEF Init, CancelInv
<1>2. Init => StoryInv
  BY NoCallFacts DEF Init, StoryInv, Legal, Ids
<1>3. Inv /\ StoryInv /\ CancelInv /\ [Next]_vars => Inv' /\ StoryInv' /\ CancelInv'
  <2> SUFFICES ASSUME Inv, StoryInv, CancelInv, [Next]_vars PROVE StoryInv' /\ CancelInv'
    BY InvStep
  <2>1. StoryInv'
    BY CommandsTell, MessagesTell, OthersTell DEF Next
  <2>2. CancelInv'
    BY OthersTold, CommandsCancel, ResponsesCancel, OthersCancel DEF Next
  <2> QED BY <2>1, <2>2
<1>4. Inv /\ CancelInv => CancelWhenAllowed
  <2> SUFFICES ASSUME Inv, CancelInv, NEW b \in heard, Invite(b) \in transactions,
                      call.id # b[1] \/ call.cancel # "no"
               PROVE  Settled(b)
    BY DEF CancelWhenAllowed, CancelInv, Settled
  <2>1. b \in Branches
    BY DEF CancelInv
  <2>2. CASE call.id # b[1]
    BY <2>1, <2>2 DEF CancelInv
  <2>3. CASE call.id = b[1]
    <3>1. call.state = "Calling" /\ b = Branch
      BY <2>1, <2>3, LatestBranch
    <3>2. call.cancel \in {"requested", "sent"}
      BY <2>3, <3>1, CallFacts DEF Inv, Calls
    <3> QED BY <3>1, <3>2 DEF CancelInv, Settled
  <2> QED BY <2>2, <2>3
<1> QED BY InitInv, <1>1, <1>2, <1>3, <1>4, PTL DEF Spec

-----------------------------------------------------------------------------
\* The types that the invariants above leave out.
Rest ==
  /\ nextId \in 1..(MaxCalls + 1) /\ shuttingDown \in BOOLEAN
  /\ peer \in [Branches -> {"none", "invited", "accepted", "refused", "challenged"}]
  /\ answered \subseteq Branches /\ acked \subseteq Branches /\ up \subseteq Dialogs

LEMMA RestStep == ASSUME Inv, Rest, [Next]_vars PROVE Rest'
<1> USE DEF Next, vars, hostVars, observers
<1>1. nextId' \in 1..(MaxCalls + 1)
  <2>1. nextId' = nextId \/ (nextId <= MaxCalls /\ nextId' = nextId + 1)
    BY Zenon DEF Dial, Answer, Reject, Hangup, Shutdown, Decide, OnProvisional, OnAccepted, OnLateAccepted,
       OnFailed, OnOtherFinal, OnInvite, OnReInvite, OnAck, OnBye, OnCancel, OnTimer, OnTransportDown
  <2> QED BY ONLY <2>1, CallAgentAssumption, Rest DEF Rest
<1>2. shuttingDown' \in BOOLEAN
  <2>1. shuttingDown' = shuttingDown \/ shuttingDown' = TRUE
    BY Zenon DEF Dial, Answer, Reject, Hangup, Shutdown, Decide, OnProvisional, OnAccepted, OnLateAccepted,
       OnFailed, OnOtherFinal, OnInvite, OnReInvite, OnAck, OnBye, OnCancel, OnTimer, OnTransportDown
  <2> QED BY <2>1, Zenon DEF Rest
<1>3. answered' \subseteq Branches
  <2>1. answered' = answered \/ \E b \in Branches : answered' = answered \cup {b}
    BY Zenon DEF Dial, Answer, Reject, Hangup, Shutdown, Decide, OnProvisional, OnAccepted, OnLateAccepted,
       OnFailed, OnOtherFinal, OnInvite, OnReInvite, OnAck, OnBye, OnCancel, OnTimer, OnTransportDown
  <2> QED BY <2>1, Zenon DEF Rest
<1>4. acked' \subseteq Branches
  <2>1. acked' = acked \/ \E b \in Branches : acked' = acked \cup {b}
    BY Zenon DEF Dial, Answer, Reject, Hangup, Shutdown, Decide, OnProvisional, OnAccepted, OnLateAccepted,
       OnFailed, OnOtherFinal, OnInvite, OnReInvite, OnAck, OnBye, OnCancel, OnTimer, OnTransportDown
  <2> QED BY <2>1, Zenon DEF Rest
<1>5. up' \subseteq Dialogs
  <2>1. \/ up' = up
        \/ \E d : up' = up \ {d}
        \/ call.state = "Ringing" /\ up' = up \cup {call.dialog}
        \/ \E b \in Branches : up' = up \cup {b[1]}
    BY Zenon DEF Dial, Answer, Reject, Hangup, HangUpCall, Shutdown, Decide, OnProvisional, OnAccepted,
       OnLateAccepted, OnFailed, OnOtherFinal, OnInvite, OnReInvite, OnAck, OnBye, OnCancel, OnTimer,
       OnTransportDown, SendBye
  <2>2. call.state = "Ringing" => call.dialog \in Dialogs
    BY ONLY Inv, CallFacts DEF Inv, Calls
  <2>3. \A b \in Branches : b[1] \in Dialogs
    BY ONLY TRUE DEF Branches, Dialogs
  <2>4. up \subseteq Dialogs
    BY DEF Rest
  <2> QED BY ONLY <2>1, <2>2, <2>3, <2>4, SMT
<1>6. peer' \in [Branches -> {"none", "invited", "accepted", "refused", "challenged"}]
  <2>1. \/ peer' = peer
        \/ \E b, value : value \in {"invited", "accepted", "refused", "challenged"} /\ peer' = [peer EXCEPT ![b] = value]
    BY Zenon DEF Dial, Answer, Reject, Hangup, Shutdown, Decide, OnProvisional, OnAccepted, OnLateAccepted,
       OnFailed, OnOtherFinal, OnInvite, OnReInvite, OnAck, OnBye, OnCancel, OnTimer, OnTransportDown, SendInvite
  <2> QED BY ONLY <2>1, Rest, SMT DEF Rest
<1> QED BY <1>1, <1>2, <1>3, <1>4, <1>5, <1>6, Zenon DEF Rest

\* For any number of calls, any callers and either transport: every variable keeps its type.  The
\* call, its transactions, the media state and the events are what the code's types allow, and no
\* call is numbered beyond the counter.
THEOREM TypeCorrect == Spec => []TypeOK
<1>1. Init => CancelInv
  BY NoCallFacts DEF Init, CancelInv
<1>2. Init => StoryInv
  BY NoCallFacts DEF Init, StoryInv, Legal, Ids
<1>3. Init => Rest
  <2>1. 1 \in 1..(MaxCalls + 1)
    BY CallAgentAssumption
  <2> QED BY <2>1, Zenon DEF Init, Rest
<1>4. Inv /\ CancelInv /\ StoryInv /\ Rest /\ [Next]_vars => Inv' /\ CancelInv' /\ StoryInv' /\ Rest'
  <2> SUFFICES ASSUME Inv, CancelInv, StoryInv, Rest, [Next]_vars PROVE CancelInv' /\ StoryInv'
    BY InvStep, RestStep
  <2>1. CancelInv'
    BY OthersTold, CommandsCancel, ResponsesCancel, OthersCancel DEF Next
  <2>2. StoryInv'
    BY CommandsTell, MessagesTell, OthersTell DEF Next
  <2> QED BY <2>1, <2>2
<1>5. Inv /\ CancelInv /\ StoryInv /\ Rest => TypeOK
  BY Zenon DEF Inv, CallOK, SocketOK, TransactionsOK, ResponseOK, CancelInv, StoryInv, Rest, TypeOK
<1> QED BY InitInv, <1>1, <1>2, <1>3, <1>4, <1>5, PTL DEF Spec
=============================================================================
