---------------------------- MODULE Registration ----------------------------
(***************************************************************************)
(* The registration half of UserAgent (core/user_agent.cpp): when a        *)
(* REGISTER is sent, what its final response or its loss does, and what    *)
(* the application is told.  Time is abstracted to "this deadline has      *)
(* passed": an armed timer may fire at any later step.  The server is      *)
(* whatever answers each outstanding REGISTER with one of Statuses, in any *)
(* order, or never.                                                        *)
(***************************************************************************)
EXTENDS Integers, FiniteSets

CONSTANTS Branches,   \* Via branches of the REGISTER transactions; bounds how many are outstanding
          Statuses,   \* final statuses the server may answer with
          Transport,  \* "UDP" or "TLS" (UserAgentConfig::transport)
          AppWaits    \* TRUE: the application registers again only once no unregister is outstanding

ASSUME RegistrationAssumption ==
  /\ Statuses \subseteq 200..699
  /\ Transport \in {"UDP", "TLS"}
  /\ AppWaits \in BOOLEAN

VARIABLES
  wanted, registered, inFlight,   \* struct Registration
  nextAttempt,    \* next_attempt holds a time: a refresh or a retry is scheduled
  transactions,   \* the REGISTER transactions of transactions_
  shuttingDown,   \* shutting_down_
  linkUp,         \* the signalling transport can carry messages
  reported,       \* status of the last Registration event since registering was asked for, 0 if none
  binding,        \* external: the server holds a binding, as far as its 2xx answers tell
  doubtful        \* a REGISTER failed, or went unanswered, since the last 2xx

registrationVars == <<wanted, registered, inFlight, nextAttempt, transactions>>
observers == <<reported, binding, doubtful>>
vars == <<registrationVars, shuttingDown, linkUp, observers>>

\* A REGISTER transaction: what it asks for (the configured expiry, or 0) and with which credentials.
Transaction == [branch: Branches, asks: {"bind", "remove"}, credentials: {"none", "digest"}]
Removes(t) == t.asks = "remove"

TypeOK ==
  /\ wanted \in BOOLEAN /\ registered \in BOOLEAN /\ inFlight \in BOOLEAN /\ nextAttempt \in BOOLEAN
  /\ shuttingDown \in BOOLEAN /\ linkUp \in BOOLEAN /\ binding \in BOOLEAN /\ doubtful \in BOOLEAN
  /\ transactions \subseteq Transaction
  /\ \A t, u \in transactions : t.branch = u.branch => t = u
  /\ reported \in {0, 408, 503} \cup Statuses

Init ==
  /\ wanted = FALSE /\ registered = FALSE /\ inFlight = FALSE /\ nextAttempt = FALSE
  /\ transactions = {}
  /\ shuttingDown = FALSE
  /\ linkUp = (Transport = "UDP")
  /\ reported = 0 /\ binding = FALSE /\ doubtful = FALSE

-----------------------------------------------------------------------------
Success(status) == status \in 200..299
Transient(status) == status = 408 \/ status >= 500

\* A REGISTER on a fresh branch beside the transactions `others`.
SendRegister(asks, credentials, others) ==
  /\ inFlight' = TRUE
  /\ \E b \in Branches \ {t.branch : t \in others} :
       transactions' = others \cup {[branch |-> b, asks |-> asks, credentials |-> credentials]}

Send(asks) == SendRegister(asks, "none", transactions)

StartRegistration ==
  /\ ~shuttingDown
  /\ AppWaits => \A t \in transactions : ~Removes(t)
  /\ wanted' = TRUE
  /\ nextAttempt' = FALSE
  /\ IF inFlight THEN UNCHANGED <<inFlight, transactions>> ELSE Send("bind")
  /\ UNCHANGED <<registered, shuttingDown, linkUp, observers>>

\* An unregister is not reported, so an application that asks for one forgets what it was told.
Unregister ==
  /\ wanted' = FALSE
  /\ nextAttempt' = FALSE
  /\ registered' = FALSE
  /\ IF registered \/ inFlight THEN Send("remove") ELSE UNCHANGED <<inFlight, transactions>>
  /\ reported' = 0
  /\ UNCHANGED <<linkUp, binding, doubtful>>

StopRegistration == Unregister /\ UNCHANGED shuttingDown

Shutdown == ~shuttingDown /\ shuttingDown' = TRUE /\ Unregister

-----------------------------------------------------------------------------
\* `usable` says authorization_for can answer the challenge; a second one is final.
Challenged(t, status, usable) == status \in {401, 407} /\ t.credentials = "none" /\ usable

Erase(others) == inFlight' = FALSE /\ transactions' = others

\* Mutants: a late registration is left in place; it is renewed instead of removed.
FinishUnwanted_Keeps(status, others) == Erase(others)
FinishUnwanted_Renews(status, others) ==
  IF Success(status) THEN SendRegister("bind", "none", others) ELSE Erase(others)

\* A REGISTER that finishes after registration was stopped: a success is taken back.
FinishUnwanted(status, others) ==
  IF Success(status) THEN SendRegister("remove", "none", others) ELSE Erase(others)

\* on_register_final for a response.
OnRegisterFinal(t, status, usable) ==
  LET others == transactions \ {t}
      challenged == Challenged(t, status, usable)
  IN \/ /\ challenged
        /\ SendRegister(t.asks, "digest", others)
        /\ UNCHANGED <<wanted, registered, nextAttempt, reported>>
     \/ /\ ~challenged /\ Removes(t)
        /\ Erase(others)
        /\ UNCHANGED <<wanted, registered, nextAttempt, reported>>
     \/ /\ ~challenged /\ ~Removes(t) /\ ~wanted
        /\ FinishUnwanted(status, others)
        /\ UNCHANGED <<wanted, registered, nextAttempt, reported>>
     \/ /\ ~challenged /\ ~Removes(t) /\ wanted
        /\ Erase(others)
        /\ registered' = Success(status)
        /\ nextAttempt' = (nextAttempt \/ Success(status) \/ Transient(status))
        /\ reported' = status
        /\ UNCHANGED wanted

\* The server's final response to an outstanding REGISTER reaches on_response, which erases the
\* transaction and runs its handler.  Late and repeated responses find no transaction: no step.
Respond(t, status, usable) ==
  /\ linkUp
  /\ OnRegisterFinal(t, status, usable)
  /\ binding' = IF Success(status) THEN ~Removes(t) ELSE binding
  /\ doubtful' = IF Success(status) THEN FALSE
                 ELSE doubtful \/ ~Challenged(t, status, usable)
  /\ UNCHANGED <<shuttingDown, linkUp>>

\* Running on_register_final(nullptr) for every transaction in `failed` reports a wanted one (408).
Unanswered(failed) == wanted /\ \E t \in failed : ~Removes(t)

\* Mutant: no retry is scheduled when a REGISTER times out.
OnTimer_NoRetry(expired, due) ==
  /\ expired # {} \/ due
  /\ due => wanted /\ nextAttempt /\ ~Unanswered(expired) /\ (inFlight => expired # {})
  /\ IF due
     THEN nextAttempt' = FALSE /\ SendRegister("bind", "none", transactions \ expired)
     ELSE Erase(transactions \ expired) /\ UNCHANGED nextAttempt
  /\ registered' = (registered /\ ~Unanswered(expired))
  /\ reported' = IF Unanswered(expired) THEN 408 ELSE reported
  /\ doubtful' = (doubtful \/ expired # {})
  /\ UNCHANGED <<wanted, shuttingDown, linkUp, binding>>

\* One on_timer call: the transactions `expired` have passed their deadline, and `due` says the
\* scheduled attempt has too.  A retry scheduled by an expiry lies in the future, so it is not due.
OnTimer(expired, due) ==
  /\ expired # {} \/ due
  /\ due => wanted /\ nextAttempt /\ ~Unanswered(expired) /\ (inFlight => expired # {})
  /\ IF due
     THEN nextAttempt' = FALSE /\ SendRegister("bind", "none", transactions \ expired)
     ELSE nextAttempt' = (nextAttempt \/ Unanswered(expired)) /\ Erase(transactions \ expired)
  /\ registered' = (registered /\ ~Unanswered(expired))
  /\ reported' = IF Unanswered(expired) THEN 408 ELSE reported
  /\ doubtful' = (doubtful \/ expired # {})
  /\ UNCHANGED <<wanted, shuttingDown, linkUp, binding>>

\* Mutant: the loss of a registration is not reported.
OnTransportDown_Silent ==
  /\ Transport = "TLS"
  /\ linkUp' = FALSE
  /\ transactions' = {}
  /\ inFlight' = (inFlight /\ transactions = {})
  /\ nextAttempt' = (nextAttempt \/ Unanswered(transactions))
  /\ registered' = FALSE
  /\ reported' = IF Unanswered(transactions) THEN 408 ELSE reported
  /\ doubtful' = (doubtful \/ transactions # {} \/ registered)
  /\ UNCHANGED <<wanted, shuttingDown, binding>>

\* The connection closed, or an attempt to make one failed.
OnTransportDown ==
  /\ Transport = "TLS"
  /\ linkUp' = FALSE
  /\ transactions' = {}
  /\ inFlight' = (inFlight /\ transactions = {})
  /\ nextAttempt' = (nextAttempt \/ Unanswered(transactions))
  /\ registered' = FALSE
  /\ reported' = CASE Unanswered(transactions) -> 408
                   [] ~Unanswered(transactions) /\ registered -> 503
                   [] OTHER -> reported
  /\ doubtful' = (doubtful \/ transactions # {} \/ registered)
  /\ UNCHANGED <<wanted, shuttingDown, binding>>

OnTransportUp ==
  /\ Transport = "TLS" /\ ~linkUp
  /\ linkUp' = TRUE
  /\ IF shuttingDown \/ ~wanted \/ inFlight
     THEN UNCHANGED <<inFlight, transactions, nextAttempt>>
     ELSE nextAttempt' = FALSE /\ Send("bind")
  /\ UNCHANGED <<wanted, registered, shuttingDown, observers>>

-----------------------------------------------------------------------------
Next ==
  \/ StartRegistration
  \/ StopRegistration
  \/ Shutdown
  \/ \E t \in transactions, status \in Statuses, usable \in BOOLEAN : Respond(t, status, usable)
  \/ \E expired \in SUBSET transactions, due \in BOOLEAN : OnTimer(expired, due)
  \/ OnTransportDown
  \/ OnTransportUp

Spec == Init /\ [][Next]_vars

-----------------------------------------------------------------------------
\* A final answer that on_register_final does not retry: not 2xx, not transient.
Refused(status) == status # 0 /\ ~Success(status) /\ ~Transient(status)

\* "Registers now and keeps the registration refreshed until ketphone_unregister": while
\* registration is wanted, a REGISTER is outstanding or the next one is scheduled, unless the
\* server refused the account for good.
KeptRefreshed ==
  wanted => transactions # {} \/ nextAttempt \/ Refused(reported)

\* What the application was last told is what the user agent believes: the Registration events of
\* on_register_final and on_transport_down leave no change of `registered` unreported.
ApplicationKnows == wanted => (registered <=> Success(reported))

\* Once registration is unwanted and nothing is outstanding, the server's last accepted REGISTER
\* was a removal, unless some REGISTER since the last 2xx failed: a registration that completes
\* after a stop is taken back.
UnregisterSticks == ~wanted /\ transactions = {} /\ binding => doubtful
=============================================================================
