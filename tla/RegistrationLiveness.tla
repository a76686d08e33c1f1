------------------------ MODULE RegistrationLiveness ------------------------
(***************************************************************************)
(* Registration in an environment that at some point becomes calm: from    *)
(* then on the application asks for nothing, the connection comes up and   *)
(* stays up, and the server answers every REGISTER with a challenge it     *)
(* accepts the answer to, or with 200.                                     *)
(***************************************************************************)
EXTENDS Registration

VARIABLE calm

liveVars == <<vars, calm>>

LiveInit == Init /\ calm = FALSE

CalmRespond == \E t \in transactions, status \in Statuses \cap {200, 401} : Respond(t, status, TRUE)
                                                                   /\ (status = 401 => t.credentials = "none")
CalmTimer == OnTimer({}, TRUE)

LiveNext ==
  \/ ~calm /\ Next /\ UNCHANGED calm
  \/ ~calm /\ calm' = TRUE /\ UNCHANGED vars
  \/ calm /\ (CalmRespond \/ CalmTimer \/ OnTransportUp) /\ UNCHANGED calm

\* The server answers, the engine's poll timeout is never later than next_deadline(), and it
\* reconnects on its own; so each of these happens when it stays possible.
LiveSpec ==
  /\ LiveInit /\ [][LiveNext]_liveVars
  /\ WF_liveVars(calm /\ CalmRespond /\ UNCHANGED calm)
  /\ WF_liveVars(calm /\ CalmTimer /\ UNCHANGED calm)
  /\ WF_liveVars(calm /\ OnTransportUp /\ UNCHANGED calm)

\* ketphone_register "keeps the registration refreshed": once the environment is calm, a wanted
\* registration that was not refused is established and, through every refresh, stays so.
EventuallyStaysRegistered == calm /\ wanted /\ ~Refused(reported) ~> [](registered /\ Success(reported))

\* An unregister finishes: once the environment is calm and registration is unwanted, nothing
\* stays outstanding, so the shutdown that waits for idle() can end.
UnwantedComesToRest == calm /\ ~wanted ~> [](transactions = {})
=============================================================================
