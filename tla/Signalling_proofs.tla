------------------------- MODULE Signalling_proofs -------------------------
(***************************************************************************)
(* Registration: type correctness for every transport and application, and *)
(* its four safety properties for an application that waits for an         *)
(* unregister to finish before it registers again.  Link, which carries    *)
(* it: its safety properties for any set of requests and any bounds.       *)
(***************************************************************************)
EXTENDS Registration, Link, TLAPS

-----------------------------------------------------------------------------
(* Registration.                                                           *)

\* The Boolean state, typed apart from the rest of TypeOK.
FlagsOK ==
  /\ wanted \in BOOLEAN /\ registered \in BOOLEAN /\ inFlight \in BOOLEAN /\ nextAttempt \in BOOLEAN
  /\ shuttingDown \in BOOLEAN /\ linkUp \in BOOLEAN /\ binding \in BOOLEAN /\ doubtful \in BOOLEAN

\* Every step keeps the Boolean state Boolean.
LEMMA FlagsStep == TypeOK /\ [Next]_vars => FlagsOK'
<1> SUFFICES ASSUME TypeOK, [Next]_vars PROVE FlagsOK'
  OBVIOUS
<1> USE DEF TypeOK, FlagsOK, SendRegister, Send, observers
<1>1. CASE StartRegistration
  BY <1>1, Zenon DEF StartRegistration
<1>2. CASE StopRegistration
  BY <1>2, Zenon DEF StopRegistration, Unregister
<1>3. CASE Shutdown
  BY <1>3, Zenon DEF Shutdown, Unregister
<1>4. ASSUME NEW t \in transactions, NEW status \in Statuses, NEW usable \in BOOLEAN,
             Respond(t, status, usable)
      PROVE  FlagsOK'
  <2>1. /\ Success(status) \in BOOLEAN /\ Transient(status) \in BOOLEAN
        /\ Removes(t) \in BOOLEAN /\ Challenged(t, status, usable) \in BOOLEAN
    BY SMT DEF Success, Transient, Removes, Challenged
  <2>2. binding' \in BOOLEAN /\ doubtful' \in BOOLEAN /\ shuttingDown' \in BOOLEAN /\ linkUp' \in BOOLEAN
    BY <1>4, <2>1, Zenon DEF Respond
  <2>3. wanted' \in BOOLEAN /\ registered' \in BOOLEAN /\ inFlight' \in BOOLEAN /\ nextAttempt' \in BOOLEAN
    BY <1>4, <2>1, Zenon DEF Respond, OnRegisterFinal, FinishUnwanted, Erase
  <2> QED BY <2>2, <2>3
<1>5. ASSUME NEW expired \in SUBSET transactions, NEW due \in BOOLEAN, OnTimer(expired, due)
      PROVE  FlagsOK'
  BY <1>5, Zenon DEF OnTimer, Erase
<1>6. CASE OnTransportDown
  BY <1>6, Zenon DEF OnTransportDown
<1>7. CASE OnTransportUp
  BY <1>7, Zenon DEF OnTransportUp
<1>8. CASE UNCHANGED vars
  BY <1>8, Zenon DEF vars, registrationVars
<1> QED BY <1>1, <1>2, <1>3, <1>4, <1>5, <1>6, <1>7, <1>8 DEF Next

\* The REGISTER transactions are well formed and keyed by branch.
TransactionsOK ==
  /\ transactions \subseteq Transaction
  /\ \A t, u \in transactions : t.branch = u.branch => t = u

\* Every step leaves a well-formed map of REGISTER transactions: send_register adds one under a
\* branch of its own, finals erase them.
LEMMA TransactionsStep == TypeOK /\ [Next]_vars => TransactionsOK'
<1> SUFFICES ASSUME TypeOK, [Next]_vars PROVE TransactionsOK'
  OBVIOUS
<1>0. TransactionsOK
  BY Zenon DEF TypeOK, TransactionsOK
<1>1. ASSUME NEW asks \in {"bind", "remove"}, NEW credentials \in {"none", "digest"},
             NEW others \in SUBSET transactions, SendRegister(asks, credentials, others)
      PROVE  TransactionsOK'
  BY <1>0, <1>1 DEF SendRegister, Transaction, TransactionsOK
<1>2. Send("bind") \/ Send("remove") => TransactionsOK'
  BY <1>1 DEF Send
<1>a. ASSUME NEW others \in SUBSET transactions, transactions' = others PROVE TransactionsOK'
  BY <1>0, <1>a DEF TransactionsOK
<1>b. UNCHANGED transactions => TransactionsOK'
  BY <1>a
<1>3. CASE StartRegistration
  BY <1>2, <1>3, <1>b, Zenon DEF StartRegistration
<1>4. CASE StopRegistration \/ Shutdown
  BY <1>2, <1>4, <1>b, Zenon DEF StopRegistration, Shutdown, Unregister
<1>5. ASSUME NEW t \in transactions, NEW status \in Statuses, NEW usable \in BOOLEAN,
             Respond(t, status, usable)
      PROVE  TransactionsOK'
  <2>1. t.asks \in {"bind", "remove"} /\ transactions \ {t} \in SUBSET transactions
    BY <1>0 DEF TransactionsOK, Transaction
  <2>2. \/ SendRegister(t.asks, "digest", transactions \ {t})
        \/ SendRegister("remove", "none", transactions \ {t})
        \/ transactions' = transactions \ {t}
    BY <1>5, Zenon DEF Respond, OnRegisterFinal, FinishUnwanted, Erase
  <2> QED BY <1>1, <1>a, <2>1, <2>2
<1>6. ASSUME NEW expired \in SUBSET transactions, NEW due \in BOOLEAN, OnTimer(expired, due)
      PROVE  TransactionsOK'
  <2>1. \/ SendRegister("bind", "none", transactions \ expired)
        \/ transactions' = transactions \ expired
    BY <1>6, Zenon DEF OnTimer, Erase
  <2> QED BY <1>1, <1>a, <2>1
<1>7. CASE OnTransportDown
  BY <1>7 DEF OnTransportDown, TransactionsOK
<1>8. CASE OnTransportUp
  BY <1>2, <1>8, <1>b, Zenon DEF OnTransportUp
<1>9. CASE UNCHANGED vars
  BY <1>9, <1>b DEF vars, registrationVars
<1> QED BY <1>3, <1>4, <1>5, <1>6, <1>7, <1>8, <1>9 DEF Next

\* The status last reported is one the server sent, 408 or 503.
LEMMA ReportedStep == TypeOK /\ [Next]_vars => reported' \in {0, 408, 503} \cup Statuses
<1> SUFFICES ASSUME TypeOK, [Next]_vars PROVE reported' \in {0, 408, 503} \cup Statuses
  OBVIOUS
<1>1. \/ reported' = reported
      \/ reported' \in {0, 408, 503}
      \/ reported' \in Statuses
  BY ZenonT(60) DEF Next, StartRegistration, StopRegistration, Shutdown, Unregister, Respond, OnRegisterFinal, FinishUnwanted, Erase,
               OnTimer, Erase, OnTransportDown, OnTransportUp, vars, observers
<1> QED BY <1>1 DEF TypeOK

\* Every step keeps the fields of UserAgent::Registration, the REGISTER transactions and the
\* observers within their types.
THEOREM TypeCorrect == Spec => []TypeOK
<1>1. Init => TypeOK
  BY Zenon DEF Init, TypeOK
<1>2. TypeOK /\ [Next]_vars => TypeOK'
  BY FlagsStep, TransactionsStep, ReportedStep, Zenon DEF TypeOK, FlagsOK, TransactionsOK
<1> QED BY <1>1, <1>2, PTL DEF Spec

-----------------------------------------------------------------------------
\* What makes ApplicationKnows and UnregisterSticks inductive: an application that stopped has been
\* told nothing, and a binding the server granted without a later failure is the registration in
\* place or is about to be removed.
KnowledgeInv ==
  /\ ~wanted => reported = 0
  /\ registered => wanted
  /\ ApplicationKnows
  /\ binding /\ ~doubtful => registered \/ \E t \in transactions : Removes(t)

\* What makes KeptRefreshed inductive: an in-flight mark stands for some transaction, and no removal
\* is outstanding while registration is wanted.
RefreshInv ==
  /\ inFlight => transactions # {}
  /\ wanted => \A t \in transactions : ~Removes(t)
  /\ KeptRefreshed

\* send_register marks a REGISTER in flight and adds one transaction of the kind asked for.
LEMMA SendRegisterAdds ==
  ASSUME NEW asks, NEW credentials, NEW others, SendRegister(asks, credentials, others)
  PROVE  /\ inFlight' = TRUE
         /\ \E new : (Removes(new) <=> asks = "remove") /\ transactions' = others \cup {new}
<1>1. PICK b \in Branches :
        transactions' = others \cup {[branch |-> b, asks |-> asks, credentials |-> credentials]}
  BY DEF SendRegister
<1>2. [branch |-> b, asks |-> asks, credentials |-> credentials].asks = asks
  OBVIOUS
<1> QED BY <1>1, <1>2, Zenon DEF SendRegister, Removes

\* The two kinds of REGISTER differ.
LEMMA BindIsNotRemove == "bind" # "remove"
OBVIOUS

LEMMA BindAdds ==
  ASSUME NEW credentials, NEW others, SendRegister("bind", credentials, others)
  PROVE  \E new : ~Removes(new) /\ transactions' = others \cup {new}
BY SendRegisterAdds, BindIsNotRemove, Zenon

\* How on_register_final sorts statuses: no answer (0), a timeout and a lost connection are not
\* success, and a status that is neither success nor transient is a refusal.
LEMMA StatusFacts ==
  /\ ~Success(0) /\ ~Success(408) /\ ~Success(503)
  /\ ~Refused(0) /\ ~Refused(408) /\ ~Refused(503)
  /\ \A status : Success(status) => ~Refused(status)
  /\ \A status \in Statuses : Success(status) \/ Transient(status) \/ Refused(status)
BY RegistrationAssumption DEF Success, Transient, Refused

\* Every handler of the registration keeps KnowledgeInv, whatever the application does.
LEMMA KnowledgeStep == ASSUME TypeOK, KnowledgeInv, [Next]_vars PROVE KnowledgeInv'
<1> USE DEF KnowledgeInv, ApplicationKnows
<1> USE StatusFacts
<1>1. CASE StartRegistration
  <2>1. CASE inFlight
    BY <1>1, <2>1, ZenonT(60) DEF StartRegistration, observers
  <2>2. CASE ~inFlight
    <3>1. Send("bind")
      BY <1>1, <2>2, Zenon DEF StartRegistration
    <3>2. PICK new : ~Removes(new) /\ transactions' = transactions \cup {new}
      BY ONLY <3>1, BindAdds, Zenon DEF Send
    <3>3. wanted' /\ UNCHANGED <<registered, reported, binding, doubtful>>
      BY <1>1, Zenon DEF StartRegistration, observers
    <3> QED BY <3>2, <3>3, ZenonT(60)
  <2> QED BY <2>1, <2>2
<1>2. CASE StopRegistration \/ Shutdown
  <2>1. Unregister
    BY <1>2 DEF StopRegistration, Shutdown
  <2>2. CASE registered \/ inFlight
    <3>1. PICK new : Removes(new) /\ transactions' = transactions \cup {new}
      BY <2>1, <2>2, SendRegisterAdds, Zenon DEF Unregister, Send
    <3> QED BY <2>1, <3>1, Zenon DEF Unregister
  <2>3. CASE ~(registered \/ inFlight)
    BY <2>1, <2>3, Zenon DEF Unregister
  <2> QED BY <2>2, <2>3
<1>3. ASSUME NEW t \in transactions, NEW status \in Statuses, NEW usable \in BOOLEAN,
             Respond(t, status, usable)
      PROVE  KnowledgeInv'
  <2> DEFINE others == transactions \ {t}
  <2>1. /\ binding' = IF Success(status) THEN ~Removes(t) ELSE binding
        /\ doubtful' = IF Success(status) THEN FALSE ELSE doubtful \/ ~Challenged(t, status, usable)
    BY <1>3, Zenon DEF Respond
  <2>2. CASE Challenged(t, status, usable)
    <3>1. /\ SendRegister(t.asks, "digest", others)
          /\ UNCHANGED <<wanted, registered, nextAttempt, reported>>
      BY <1>3, <2>2, Zenon DEF Respond, OnRegisterFinal, FinishUnwanted, Erase
    <3>2. PICK new : (Removes(new) <=> Removes(t)) /\ transactions' = others \cup {new}
      BY ONLY <3>1, SendRegisterAdds, Zenon DEF Removes
    <3>3. ~Success(status)
      BY <2>2, SMT DEF Challenged, Success
    <3>4. binding' = binding /\ (doubtful' <=> doubtful)
      BY <2>1, <2>2, <3>3, Zenon
    <3>5. (\E u \in transactions : Removes(u)) => \E u \in transactions' : Removes(u)
      BY <3>2, ZenonT(60)
    <3> QED BY <3>1, <3>4, <3>5, Zenon
  <2>3. CASE ~Challenged(t, status, usable) /\ Removes(t)
    <3>1. /\ inFlight' = FALSE /\ transactions' = others
          /\ UNCHANGED <<wanted, registered, nextAttempt, reported>>
      BY <1>3, <2>3, Zenon DEF Respond, OnRegisterFinal, FinishUnwanted, Erase
    <3> QED BY <2>1, <2>3, <3>1, Zenon
  <2>4. CASE ~Challenged(t, status, usable) /\ ~Removes(t) /\ ~wanted
    <3>1. UNCHANGED <<wanted, registered, nextAttempt, reported>>
      BY <1>3, <2>4, Zenon DEF Respond, OnRegisterFinal, FinishUnwanted, Erase
    <3>2. CASE Success(status)
      <4>1. SendRegister("remove", "none", others)
        BY <1>3, <2>4, <3>2, Zenon DEF Respond, OnRegisterFinal, FinishUnwanted, Erase
      <4>2. PICK new : Removes(new) /\ transactions' = others \cup {new}
        BY <4>1, SendRegisterAdds, Zenon
      <4> QED BY <2>4, <3>1, <4>2, Zenon
    <3>3. CASE ~Success(status)
      <4>1. inFlight' = FALSE /\ transactions' = others
        BY <1>3, <2>4, <3>3, Zenon DEF Respond, OnRegisterFinal, FinishUnwanted, Erase
      <4> QED BY <2>1, <2>4, <3>1, <3>3, <4>1, Zenon
    <3> QED BY <3>2, <3>3
  <2>5. CASE ~Challenged(t, status, usable) /\ ~Removes(t) /\ wanted
    <3>1. /\ inFlight' = FALSE /\ transactions' = others /\ wanted'
          /\ registered' = Success(status) /\ reported' = status
          /\ nextAttempt' = (nextAttempt \/ Success(status) \/ Transient(status))
      BY <1>3, <2>5, Zenon DEF Respond, OnRegisterFinal, FinishUnwanted, Erase
    <3> QED BY <2>1, <2>5, <3>1, ZenonT(60)
  <2> QED BY <2>2, <2>3, <2>4, <2>5
<1>4. ASSUME NEW expired \in SUBSET transactions, NEW due \in BOOLEAN, OnTimer(expired, due)
      PROVE  KnowledgeInv'
  <2>1. CASE due
    <3>1. SendRegister("bind", "none", transactions \ expired)
      BY <1>4, <2>1, Zenon DEF OnTimer, Erase
    <3>2. PICK new : ~Removes(new) /\ transactions' = (transactions \ expired) \cup {new}
      BY ONLY <3>1, BindAdds, Zenon
    <3>3. /\ wanted /\ UNCHANGED <<wanted, registered, reported, binding>>
          /\ doubtful' = (doubtful \/ expired # {})
      BY <1>4, <2>1, ZenonT(60) DEF OnTimer, Erase, TypeOK
    <3> QED BY <3>2, <3>3, ZenonT(60)
  <2>2. CASE ~due /\ Unanswered(expired)
    <3>1. wanted' /\ ~registered' /\ reported' = 408 /\ doubtful'
      BY <1>4, <2>2, ZenonT(60) DEF OnTimer, Erase, Unanswered
    <3> QED BY <2>2, <3>1, Zenon
  <2>3. CASE ~due /\ ~Unanswered(expired)
    <3>1. /\ (wanted' <=> wanted) /\ (registered' <=> registered) /\ reported' = reported /\ doubtful'
      BY <1>4, <2>3, Zenon DEF OnTimer, Erase
    <3> QED BY <2>3, <3>1, Zenon
  <2> QED BY <2>1, <2>2, <2>3
<1>5. CASE OnTransportDown
  <2>1. /\ transactions' = {} /\ ~registered' /\ (wanted' <=> wanted) /\ (binding' <=> binding)
        /\ (inFlight' <=> inFlight /\ transactions = {})
        /\ (nextAttempt' <=> nextAttempt \/ Unanswered(transactions))
        /\ (doubtful' <=> doubtful \/ transactions # {} \/ registered)
    BY <1>5, Zenon DEF OnTransportDown
  <2>2. CASE Unanswered(transactions)
    BY <1>5, <2>1, <2>2, Zenon DEF OnTransportDown, Unanswered
  <2>3. CASE ~Unanswered(transactions) /\ registered
    BY <1>5, <2>1, <2>3, Zenon DEF OnTransportDown
  <2>4. CASE ~Unanswered(transactions) /\ ~registered
    BY <1>5, <2>1, <2>4, Zenon DEF OnTransportDown
  <2> QED BY <2>2, <2>3, <2>4
<1>6. CASE OnTransportUp
  <2>1. CASE shuttingDown \/ ~wanted \/ inFlight
    BY <1>6, <2>1, ZenonT(60) DEF OnTransportUp, observers
  <2>2. CASE ~(shuttingDown \/ ~wanted \/ inFlight)
    <3>1. Send("bind")
      BY <1>6, <2>2, Zenon DEF OnTransportUp
    <3>2. PICK new : ~Removes(new) /\ transactions' = transactions \cup {new}
      BY ONLY <3>1, BindAdds, Zenon DEF Send
    <3> QED BY <1>6, <2>2, <3>2, ZenonT(60) DEF OnTransportUp, observers
  <2> QED BY <2>1, <2>2
<1>7. CASE UNCHANGED vars
  BY <1>7, Zenon DEF vars, registrationVars, observers, Removes
<1> QED BY <1>1, <1>2, <1>3, <1>4, <1>5, <1>6, <1>7 DEF Next

\* Every handler of the registration keeps RefreshInv, for an application that waits.
LEMMA RefreshStep == ASSUME AppWaits, TypeOK, KnowledgeInv, RefreshInv, [Next]_vars PROVE RefreshInv'
<1> USE DEF RefreshInv, KeptRefreshed
<1> USE StatusFacts
<1>1. CASE StartRegistration
  <2>1. CASE inFlight
    BY <1>1, <2>1, ZenonT(60) DEF StartRegistration, observers
  <2>2. CASE ~inFlight
    <3>1. Send("bind")
      BY <1>1, <2>2, Zenon DEF StartRegistration
    <3>2. PICK new : ~Removes(new) /\ transactions' = transactions \cup {new}
      BY ONLY <3>1, BindAdds, Zenon DEF Send
    <3>3. wanted' /\ reported' = reported
      BY <1>1, Zenon DEF StartRegistration, observers
    <3>4. \A t \in transactions : ~Removes(t)
      BY <1>1, Zenon DEF StartRegistration
    <3> QED BY <3>2, <3>3, <3>4, ZenonT(60)
  <2> QED BY <2>1, <2>2
<1>2. CASE StopRegistration \/ Shutdown
  <2>1. Unregister
    BY <1>2 DEF StopRegistration, Shutdown
  <2>2. CASE registered \/ inFlight
    <3>1. PICK new : Removes(new) /\ transactions' = transactions \cup {new}
      BY <2>1, <2>2, SendRegisterAdds, Zenon DEF Unregister, Send
    <3> QED BY <2>1, <3>1, Zenon DEF Unregister
  <2>3. CASE ~(registered \/ inFlight)
    BY <2>1, <2>3, Zenon DEF Unregister
  <2> QED BY <2>2, <2>3
<1>3. ASSUME NEW t \in transactions, NEW status \in Statuses, NEW usable \in BOOLEAN,
             Respond(t, status, usable)
      PROVE  RefreshInv'
  <2> DEFINE others == transactions \ {t}
  <2>2. CASE Challenged(t, status, usable)
    <3>1. /\ SendRegister(t.asks, "digest", others)
          /\ UNCHANGED <<wanted, registered, nextAttempt, reported>>
      BY <1>3, <2>2, Zenon DEF Respond, OnRegisterFinal, FinishUnwanted, Erase
    <3>2. PICK new : (Removes(new) <=> Removes(t)) /\ transactions' = others \cup {new}
      BY ONLY <3>1, SendRegisterAdds, Zenon DEF Removes
    <3>3. transactions' # {} /\ (wanted' => \A u \in transactions' : ~Removes(u))
      BY <3>1, <3>2, ZenonT(60)
    <3> QED BY <3>1, <3>3, Zenon
  <2>3. CASE ~Challenged(t, status, usable) /\ Removes(t)
    <3>1. /\ inFlight' = FALSE /\ transactions' = others
          /\ UNCHANGED <<wanted, registered, nextAttempt, reported>>
      BY <1>3, <2>3, Zenon DEF Respond, OnRegisterFinal, FinishUnwanted, Erase
    <3>2. ~wanted
      BY <2>3
    <3> QED BY <2>3, <3>1, <3>2, Zenon
  <2>4. CASE ~Challenged(t, status, usable) /\ ~Removes(t) /\ ~wanted
    <3>1. UNCHANGED <<wanted, registered, nextAttempt, reported>>
      BY <1>3, <2>4, Zenon DEF Respond, OnRegisterFinal, FinishUnwanted, Erase
    <3>2. CASE Success(status)
      <4>1. SendRegister("remove", "none", others)
        BY <1>3, <2>4, <3>2, Zenon DEF Respond, OnRegisterFinal, FinishUnwanted, Erase
      <4>2. PICK new : Removes(new) /\ transactions' = others \cup {new}
        BY <4>1, SendRegisterAdds, Zenon
      <4> QED BY <2>4, <3>1, <4>2, Zenon
    <3>3. CASE ~Success(status)
      <4>1. inFlight' = FALSE /\ transactions' = others
        BY <1>3, <2>4, <3>3, Zenon DEF Respond, OnRegisterFinal, FinishUnwanted, Erase
      <4> QED BY <2>4, <3>1, <3>3, <4>1, Zenon
    <3> QED BY <3>2, <3>3
  <2>5. CASE ~Challenged(t, status, usable) /\ ~Removes(t) /\ wanted
    <3>1. /\ inFlight' = FALSE /\ transactions' = others /\ wanted'
          /\ registered' = Success(status) /\ reported' = status
          /\ nextAttempt' = (nextAttempt \/ Success(status) \/ Transient(status))
      BY <1>3, <2>5, Zenon DEF Respond, OnRegisterFinal, FinishUnwanted, Erase
    <3> QED BY <2>5, <3>1, ZenonT(60)
  <2> QED BY <2>2, <2>3, <2>4, <2>5
<1>4. ASSUME NEW expired \in SUBSET transactions, NEW due \in BOOLEAN, OnTimer(expired, due)
      PROVE  RefreshInv'
  <2>1. CASE due
    <3>1. SendRegister("bind", "none", transactions \ expired)
      BY <1>4, <2>1, Zenon DEF OnTimer, Erase
    <3>2. PICK new : ~Removes(new) /\ transactions' = (transactions \ expired) \cup {new}
      BY ONLY <3>1, BindAdds, Zenon
    <3>3. wanted /\ UNCHANGED <<wanted, reported>>
      BY <1>4, <2>1, ZenonT(60) DEF OnTimer, Erase, TypeOK
    <3> QED BY <3>2, <3>3, ZenonT(60)
  <2>2. CASE ~due /\ wanted
    <3>1. Unanswered(expired)
      BY <1>4, <2>2, Zenon DEF OnTimer, Erase, Unanswered
    <3>2. wanted' /\ nextAttempt' /\ ~inFlight' /\ transactions' = transactions \ expired
      BY <1>4, <2>2, <3>1, ZenonT(60) DEF OnTimer, Erase
    <3> QED BY <2>2, <3>2, Zenon
  <2>3. CASE ~due /\ ~wanted
    <3>1. ~wanted' /\ ~inFlight'
      BY <1>4, <2>3, Zenon DEF OnTimer, Erase, Unanswered
    <3> QED BY <2>3, <3>1, Zenon
  <2> QED BY <2>1, <2>2, <2>3
<1>5. CASE OnTransportDown
  <2>1. /\ transactions' = {} /\ (wanted' <=> wanted)
        /\ (inFlight' <=> inFlight /\ transactions = {})
        /\ (nextAttempt' <=> nextAttempt \/ Unanswered(transactions))
    BY <1>5, Zenon DEF OnTransportDown
  <2>2. CASE wanted /\ transactions # {}
    <3>1. Unanswered(transactions)
      BY <2>2, Zenon DEF Unanswered
    <3> QED BY <2>1, <2>2, <3>1, Zenon
  <2>3. CASE wanted /\ transactions = {}
    <3>1. nextAttempt \/ Refused(reported)
      BY <2>3, Zenon
    <3>2. ~Unanswered(transactions)
      BY <2>3, Zenon DEF Unanswered
    <3>3. Refused(reported) => ~Success(reported)
      BY Zenon DEF Refused
    <3>4. reported' = reported \/ registered
      BY <1>5, <3>2, Zenon DEF OnTransportDown
    <3>5. registered => Success(reported)
      BY <2>3, Zenon DEF KnowledgeInv, ApplicationKnows
    <3> QED BY <2>1, <2>3, <3>1, <3>3, <3>4, <3>5, Zenon
  <2>4. CASE ~wanted
    BY <2>1, <2>4, Zenon
  <2> QED BY <2>2, <2>3, <2>4
<1>6. CASE OnTransportUp
  <2>1. CASE shuttingDown \/ ~wanted \/ inFlight
    BY <1>6, <2>1, ZenonT(60) DEF OnTransportUp, observers
  <2>2. CASE ~(shuttingDown \/ ~wanted \/ inFlight)
    <3>1. Send("bind")
      BY <1>6, <2>2, Zenon DEF OnTransportUp
    <3>2. PICK new : ~Removes(new) /\ transactions' = transactions \cup {new}
      BY ONLY <3>1, BindAdds, Zenon DEF Send
    <3> QED BY <1>6, <2>2, <3>2, ZenonT(60) DEF OnTransportUp, observers
  <2> QED BY <2>1, <2>2
<1>7. CASE UNCHANGED vars
  BY <1>7, Zenon DEF vars, registrationVars, observers, Removes
<1> QED BY <1>1, <1>2, <1>3, <1>4, <1>5, <1>6, <1>7 DEF Next

LEMMA InitKnowledge == Init => KnowledgeInv
BY StatusFacts, Zenon DEF Init, KnowledgeInv, ApplicationKnows

\* Whatever the application does, one that registers again while its unregister is outstanding
\* included: the Registration events of on_register_final, on_timer and on_transport_down leave no
\* change of `registered` unreported, and a registration that completes after stop_registration or
\* shutdown is taken back.
THEOREM RegistrationSafe == Spec => [](ApplicationKnows /\ UnregisterSticks)
<1>1. TypeOK /\ KnowledgeInv /\ [Next]_vars => KnowledgeInv'
  BY KnowledgeStep
<1>2. KnowledgeInv => ApplicationKnows /\ UnregisterSticks
  BY Zenon DEF KnowledgeInv, UnregisterSticks
<1> QED BY InitKnowledge, <1>1, <1>2, TypeCorrect, PTL DEF Spec

\* For an application that waits for its unregister: while registration is wanted, start_registration,
\* on_register_final, on_timer and the transport handlers leave a REGISTER outstanding or scheduled,
\* unless the server refused for good.
THEOREM RegistrationKept == AppWaits => (Spec => []KeptRefreshed)
<1> SUFFICES ASSUME AppWaits PROVE Spec => []KeptRefreshed
  OBVIOUS
<1>1. Init => RefreshInv
  BY Zenon DEF Init, RefreshInv, KeptRefreshed
<1>2. TypeOK /\ KnowledgeInv /\ [Next]_vars => KnowledgeInv'
  BY KnowledgeStep
<1>3. TypeOK /\ KnowledgeInv /\ RefreshInv /\ [Next]_vars => RefreshInv'
  BY RefreshStep
<1>4. RefreshInv => KeptRefreshed
  BY DEF RefreshInv
<1> QED BY InitKnowledge, <1>1, <1>2, <1>3, <1>4, TypeCorrect, PTL DEF Spec

-----------------------------------------------------------------------------
(* Link.                                                                   *)

\* The types of the variables the proofs are about.
LinkTypes ==
  /\ link \in {"Down", "Connecting", "Up"}
  /\ generation \in 0..MaxGeneration
  /\ connection \in {"none", "opening", "open", "ended"}
  /\ framer \in 0..MaxGeneration
  /\ inbox \in Seq(LinkEvent) /\ batch \in Seq(LinkEvent)
  /\ where \in [Requests -> Generations \cup {Idle, Pending, Discarded}]
  /\ pending \subseteq Requests

\* With connection c of generation g, an event on its way is of a connection made so far.  One of
\* the current generation says that its connection is still there and, if it says Connected, that
\* the handshake is over.
Timely(events, g, c) ==
  \A i \in 1..Len(events) :
    /\ events[i].generation <= g
    /\ events[i].generation = g => c # "none" /\ (events[i].kind = "Connected" => c # "opening")

LinkInv ==
  /\ LinkTypes
  /\ Timely(inbox, generation, connection) /\ Timely(batch, generation, connection)
  /\ connection # "none" => generation > 0
  /\ link = "Up" => connection \in {"open", "ended"}
  /\ ConnectionMatchesLink /\ NoRequestStranded /\ FramerFresh

\* Whatever is on its way when the generation is counted up is stale from then on.
LEMMA TimelyNext ==
  ASSUME NEW events \in Seq(LinkEvent), NEW g \in Nat, NEW c, NEW d, Timely(events, g, c)
  PROVE  Timely(events, g + 1, d)
<1> SUFFICES ASSUME NEW i \in 1..Len(events)
             PROVE  events[i].generation <= g + 1 /\ events[i].generation # g + 1
  BY DEF Timely
<1>1. events[i] \in LinkEvent
  OBVIOUS
<1>2. events[i].generation \in Int
  BY <1>1, LinkAssumption DEF LinkEvent, Generations
<1> QED BY <1>2 DEF Timely

\* Taking the first event leaves the others.
LEMMA TimelyTail ==
  ASSUME NEW events \in Seq(LinkEvent), NEW g \in Nat, NEW c, Timely(events, g, c), events # <<>>
  PROVE  Tail(events) \in Seq(LinkEvent) /\ Timely(Tail(events), g, c)
<1>1. /\ Tail(events) \in Seq(LinkEvent)
      /\ \A i \in 1..Len(Tail(events)) : i + 1 \in 1..Len(events) /\ Tail(events)[i] = events[i + 1]
  OBVIOUS
<1> QED BY <1>1 DEF Timely

\* A connection's progress keeps its events timely.
LEMMA TimelyProgress ==
  ASSUME NEW events, NEW g, NEW c, NEW d \in {"open", "ended"}, Timely(events, g, c)
  PROVE  Timely(events, g, d)
BY DEF Timely

\* post() by the thread of the current connection.
LEMMA TimelyPost ==
  ASSUME NEW events \in Seq(LinkEvent), NEW g \in Generations, NEW d \in {"open", "ended"},
         NEW kind \in {"Connected", "Data", "Closed"}, Timely(events, g, d)
  PROVE  LET event == [generation |-> g, kind |-> kind]
         IN Append(events, event) \in Seq(LinkEvent) /\ Timely(Append(events, event), g, d)
<1> DEFINE event == [generation |-> g, kind |-> kind]
<1>1. event \in LinkEvent /\ event.generation = g
  BY DEF LinkEvent
<1>2. g \in Int
  BY LinkAssumption DEF Generations
<1> HIDE DEF event
<1>3. /\ Append(events, event) \in Seq(LinkEvent)
      /\ \A i \in 1..Len(Append(events, event)) :
           (i \in 1..Len(events) /\ Append(events, event)[i] = events[i]) \/ Append(events, event)[i] = event
  BY <1>1
<1>4. Timely(Append(events, event), g, d)
  BY <1>1, <1>2, <1>3 DEF Timely
<1> QED BY <1>3, <1>4 DEF event

\* drop_link(): no connection, no part of a message, no outstanding request, a new generation.
LEMMA DropLinkKeeps ==
  ASSUME LinkInv, DropLink, UNCHANGED <<inbox, pending>>,
         batch' = batch \/ (batch # <<>> /\ batch' = Tail(batch))
  PROVE  LinkInv'
<1>1. /\ link' = "Down" /\ connection' = "none" /\ framer' = 0
      /\ generation' = generation + 1 /\ generation < MaxGeneration
      /\ where' = [r \in Requests |-> Idle]
  BY DEF DropLink, ScheduleReconnect
<1>2. generation \in Nat /\ inbox \in Seq(LinkEvent) /\ batch \in Seq(LinkEvent)
  BY LinkAssumption DEF LinkInv, LinkTypes
<1>3. Timely(inbox', generation', connection')
  BY <1>1, <1>2, TimelyNext DEF LinkInv
<1>4. Timely(batch, generation', connection')
  BY <1>1, <1>2, TimelyNext DEF LinkInv
<1>5. batch' \in Seq(LinkEvent) /\ Timely(batch', generation', connection')
  <2>1. generation' \in Nat
    BY <1>1, <1>2
  <2>2. CASE batch' = batch
    BY <1>2, <1>4, <2>2, Zenon
  <2>3. CASE batch # <<>> /\ batch' = Tail(batch)
    BY <1>2, <1>4, <2>1, <2>3, TimelyTail, Zenon
  <2> QED BY <2>2, <2>3
<1>6. LinkTypes'
  BY <1>1, <1>2, <1>5, LinkAssumption DEF LinkInv, LinkTypes, Idle
<1>7. (ConnectionMatchesLink /\ NoRequestStranded /\ FramerFresh)'
  BY <1>1, LinkAssumption DEF ConnectionMatchesLink, NoRequestStranded, FramerFresh, Idle, Pending, Generations
<1> QED BY <1>1, <1>3, <1>5, <1>6, <1>7 DEF LinkInv

\* connect_link(): whether or not a connection was made, what waited goes with it or still waits.
LEMMA ConnectLinkKeeps ==
  ASSUME LinkInv, link = "Down", NEW made \in BOOLEAN, ConnectLink(made), UNCHANGED <<inbox, batch>>
  PROVE  LinkInv'
<1>1. generation \in Nat /\ generation' = generation + 1 /\ generation < MaxGeneration /\ framer' = 0
  BY LinkAssumption DEF LinkInv, LinkTypes, ConnectLink
<1>2. Timely(inbox', generation', connection') /\ Timely(batch', generation', connection')
  BY <1>1, TimelyNext DEF LinkInv, LinkTypes
<1>3. connection = "none"
  BY DEF LinkInv, ConnectionMatchesLink
<1>4. CASE made
  <2>1. /\ connection' = "opening" /\ link' = "Connecting" /\ pending' = {}
        /\ where' = [r \in Requests |-> IF where[r] = Pending THEN generation + 1 ELSE where[r]]
    BY <1>4 DEF ConnectLink
  <2>2. LinkTypes'
    BY <1>1, <2>1, LinkAssumption DEF LinkInv, LinkTypes, Generations
  <2>3. NoRequestStranded'
    BY <1>1, <1>3, <2>1, LinkAssumption DEF LinkInv, LinkTypes, NoRequestStranded, Generations, Idle, Pending, Discarded
  <2> QED BY <1>1, <1>2, <2>1, <2>2, <2>3 DEF LinkInv, ConnectionMatchesLink, FramerFresh
<1>5. CASE ~made
  <2>1. connection' = "none" /\ link' = "Down" /\ pending' = pending /\ where' = where
    BY <1>5 DEF ConnectLink, ScheduleReconnect, requestVars
  <2>2. LinkTypes'
    BY <1>1, <2>1, LinkAssumption DEF LinkInv, LinkTypes
  <2>3. NoRequestStranded'
    BY <1>1, <1>3, <2>1, LinkAssumption DEF LinkInv, LinkTypes, NoRequestStranded
  <2> QED BY <1>1, <1>2, <2>1, <2>2, <2>3 DEF LinkInv, ConnectionMatchesLink, FramerFresh
<1> QED BY <1>4, <1>5

\* Every step of the network thread and of the connection's thread keeps the invariant.
LEMMA LinkStep == ASSUME LinkInv, [LinkNext]_linkVars PROVE LinkInv'
<1>1. ASSUME NEW kind \in {"Connected", "Data", "Closed"}, Post(kind),
             connection \in {"opening", "open"}, connection' \in {"open", "ended"}
      PROVE  LinkInv'
  <2>1. generation \in Generations
    BY <1>1, LinkAssumption DEF LinkInv, LinkTypes, Generations
  <2>2. /\ UNCHANGED <<link, generation, framer, batch, pending, where>>
        /\ inbox' = Append(inbox, [generation |-> generation, kind |-> kind])
    BY <1>1 DEF Post, requestVars
  <2>3. Timely(inbox, generation, connection') /\ Timely(batch, generation, connection')
    BY <1>1, TimelyProgress DEF LinkInv
  <2>4. inbox' \in Seq(LinkEvent) /\ Timely(inbox', generation, connection')
    BY <1>1, <2>1, <2>2, <2>3, TimelyPost, Zenon DEF LinkInv, LinkTypes
  <2>5. LinkTypes'
    BY <1>1, <2>2, <2>4 DEF LinkInv, LinkTypes
  <2>6. (ConnectionMatchesLink /\ NoRequestStranded /\ FramerFresh)'
    BY <1>1, <2>2 DEF LinkInv, ConnectionMatchesLink, NoRequestStranded, FramerFresh
  <2> QED BY <1>1, <2>2, <2>3, <2>4, <2>5, <2>6 DEF LinkInv
<1>2. CASE OnConnected \/ OnData \/ OnClosed
  BY <1>1, <1>2 DEF OnConnected, OnData, OnClosed
<1>3. ASSUME NEW r \in Requests, SendSip(r)
      PROVE  LinkInv'
  <2>1. UNCHANGED <<link, generation, connection, framer, inbox, batch>>
    BY <1>3 DEF SendSip, connectionVars
  <2>2. /\ where' \in [Requests -> Generations \cup {Idle, Pending, Discarded}]
        /\ pending' \subseteq Requests
    BY <1>3, LinkAssumption DEF SendSip, LinkInv, LinkTypes, Generations
  <2>3. NoRequestStranded'
    <3>1. CASE connection # "none" /\ where' = [where EXCEPT ![r] = generation] /\ pending' = pending
      BY <2>1, <3>1, LinkAssumption DEF LinkInv, LinkTypes, NoRequestStranded, Generations, Pending
    <3>2. CASE connection = "none" /\ where' = [where EXCEPT ![r] = Pending] /\ pending' = pending \cup {r}
      BY <2>1, <3>2, LinkAssumption DEF LinkInv, LinkTypes, NoRequestStranded, Generations, Pending
    <3>3. CASE where' = [where EXCEPT ![r] = Discarded] /\ pending' = pending
      BY <2>1, <3>3, LinkAssumption DEF LinkInv, LinkTypes, NoRequestStranded, Generations, Pending, Discarded
    <3> QED BY <1>3, <3>1, <3>2, <3>3 DEF SendSip
  <2> QED BY <2>1, <2>2, <2>3 DEF LinkInv, LinkTypes, ConnectionMatchesLink, FramerFresh
\* A request that is answered, or given up.
<1>4. ASSUME NEW r \in Requests, where' = [where EXCEPT ![r] = Idle],
             UNCHANGED <<generation, connection, pending>>
      PROVE  NoRequestStranded' /\ where' \in [Requests -> Generations \cup {Idle, Pending, Discarded}]
  BY <1>4, LinkAssumption DEF LinkInv, LinkTypes, NoRequestStranded, Generations, Idle, Pending
<1>5. ASSUME NEW r \in Requests, NEW registers \in BOOLEAN, NoAnswer(r, registers)
      PROVE  LinkInv'
  <2>1. /\ UNCHANGED <<link, generation, connection, framer, inbox, batch, pending>>
        /\ where' = [where EXCEPT ![r] = Idle]
    BY <1>5 DEF NoAnswer, connectionVars
  <2>2. NoRequestStranded' /\ where' \in [Requests -> Generations \cup {Idle, Pending, Discarded}]
    BY <1>4, <2>1, Zenon
  <2> QED BY <2>1, <2>2 DEF LinkInv, LinkTypes, ConnectionMatchesLink, FramerFresh
<1>6. CASE RunCommands
  <2>1. /\ UNCHANGED <<link, generation, connection, framer, where, pending>>
        /\ batch' = inbox /\ inbox' = <<>>
    BY <1>6 DEF RunCommands, connectionVars, requestVars
  <2>2. <<>> \in Seq(LinkEvent) /\ Timely(<<>>, generation, connection)
    BY DEF Timely
  <2> QED BY <2>1, <2>2 DEF LinkInv, LinkTypes, ConnectionMatchesLink, NoRequestStranded, FramerFresh
<1>7. CASE DrainLink
  <2> DEFINE event == Head(batch)
  <2>1. /\ batch # <<>> /\ batch' = Tail(batch) /\ UNCHANGED <<inbox, pending>>
        /\ event \in LinkEvent /\ event = batch[1] /\ 1 \in 1..Len(batch)
    BY <1>7 DEF DrainLink, LinkInv, LinkTypes
  <2>2. batch' \in Seq(LinkEvent) /\ Timely(batch', generation, connection)
    <3>1. generation \in Nat
      BY LinkAssumption DEF LinkInv, LinkTypes
    <3> QED BY <2>1, <3>1, TimelyTail, Zenon DEF LinkInv, LinkTypes
  <2>3. CASE UNCHANGED <<connectionVars, where>>
    BY <2>1, <2>2, <2>3 DEF LinkInv, LinkTypes, ConnectionMatchesLink, NoRequestStranded, FramerFresh, connectionVars
  <2>4. CASE DropLink
    BY <2>1, <2>4, DropLinkKeeps
  <2>5. CASE /\ ~Stale(event) /\ event.kind = "Connected" /\ link' = "Up"
             /\ UNCHANGED <<generation, connection, framer, where>>
    <3>1. connection \in {"open", "ended"}
      BY <2>1, <2>5 DEF LinkInv, LinkTypes, Timely, Stale
    <3> QED BY <2>1, <2>2, <2>5, <3>1
        DEF LinkInv, LinkTypes, ConnectionMatchesLink, NoRequestStranded, FramerFresh
  <2>6. CASE /\ ~Stale(event) /\ framer' \in {0, event.generation}
             /\ where' = where \/ \E r \in Requests : where' = [where EXCEPT ![r] = Idle]
             /\ UNCHANGED <<link, generation, connection>>
    <3>1. NoRequestStranded' /\ where' \in [Requests -> Generations \cup {Idle, Pending, Discarded}]
      <4>1. CASE where' = where
        BY <2>1, <2>6, <4>1 DEF LinkInv, LinkTypes, NoRequestStranded
      <4>2. CASE \E r \in Requests : where' = [where EXCEPT ![r] = Idle]
        BY <1>4, <2>1, <2>6, <4>2, Zenon
      <4> QED BY <2>6, <4>1, <4>2
    <3>2. framer' \in {0, generation} /\ framer' \in 0..MaxGeneration
      BY <2>6, LinkAssumption DEF Stale, LinkInv, LinkTypes
    <3> QED BY <2>1, <2>2, <2>6, <3>1, <3>2 DEF LinkInv, LinkTypes, ConnectionMatchesLink, FramerFresh
  <2> QED
    <3>1. CASE Stale(event) /\ UNCHANGED <<connectionVars, where, relink, suspect>>
      BY <2>3, <3>1
    <3>2. CASE ~Stale(event) /\ event.kind = "Data" /\ Receive(event.generation)
      BY <2>4, <2>6, <3>2 DEF Receive
    <3> QED BY <1>7, <2>4, <2>5, <3>1, <3>2 DEF DrainLink
<1>8. CASE Relink
  <2>1. UNCHANGED <<inbox, batch, pending>>
    BY <1>8 DEF Relink
  <2>2. CASE DropLink
    BY <2>1, <2>2, DropLinkKeeps
  <2>3. CASE UNCHANGED <<connectionVars, where>>
    BY <2>1, <2>3 DEF LinkInv, LinkTypes, ConnectionMatchesLink, NoRequestStranded, FramerFresh, connectionVars
  <2> QED BY <1>8, <2>2, <2>3 DEF Relink
<1>9. CASE UNCHANGED <<connectionVars, inbox, batch, requestVars>>
  BY <1>9 DEF LinkInv, LinkTypes, ConnectionMatchesLink, NoRequestStranded, FramerFresh, connectionVars, requestVars
<1>10. CASE Connect
  <2>1. UNCHANGED <<inbox, batch>>
    BY <1>10 DEF Connect
  <2>2. CASE link = "Down" /\ \E made \in BOOLEAN : ConnectLink(made)
    BY <2>1, <2>2, ConnectLinkKeeps
  <2>3. CASE UNCHANGED <<connectionVars, requestVars>>
    BY <1>9, <2>1, <2>3
  <2> QED BY <1>10, <2>2, <2>3 DEF Connect
<1>11. CASE DrainDone \/ LoopAgain \/ UNCHANGED linkVars
  BY <1>9, <1>11 DEF DrainDone, LoopAgain, linkVars
<1> QED BY <1>2, <1>3, <1>5, <1>6, <1>7, <1>8, <1>10, <1>11 DEF LinkNext

\* The engine starts with no connection, nothing pending and nothing on its way.
LEMMA InitLink == LinkInit => LinkInv
BY LinkAssumption DEF LinkInit, LinkInv, LinkTypes, Timely, ConnectionMatchesLink, NoRequestStranded,
   FramerFresh, Idle, Pending, Generations

\* on_transport_up and on_transport_down are called just where link_ becomes, or stops being, up.
UpFollows == up <=> link = "Up"

\* Every step keeps the user agent's view of the transport and link_ together.
LEMMA UpStep == ASSUME UpFollows, [LinkNext]_linkVars PROVE UpFollows'
<1>1. CASE UNCHANGED <<link, up>>
  BY <1>1, Zenon DEF UpFollows
<1>2. CASE DropLink
  BY <1>2, Zenon DEF DropLink, ScheduleReconnect, UpFollows
<1>3. CASE OnConnected \/ OnData \/ OnClosed
  BY <1>1, <1>3, Zenon DEF OnConnected, OnData, OnClosed, Post
<1>4. ASSUME NEW r \in Requests, NEW registers \in BOOLEAN, SendSip(r) \/ NoAnswer(r, registers)
      PROVE  UpFollows'
  BY <1>1, <1>4, Zenon DEF SendSip, NoAnswer, connectionVars
<1>5. CASE RunCommands \/ DrainDone \/ LoopAgain \/ UNCHANGED linkVars
  BY <1>1, <1>5, Zenon DEF RunCommands, DrainDone, LoopAgain, linkVars, connectionVars
<1>6. CASE DrainLink
  <2>1. \/ UNCHANGED <<link, up>>
        \/ DropLink
        \/ link' = "Up" /\ up' = TRUE
    BY <1>6, Zenon DEF DrainLink, Receive, connectionVars
  <2> QED BY <1>1, <1>2, <2>1, Zenon DEF UpFollows
<1>7. CASE Relink
  BY <1>1, <1>2, <1>7, Zenon DEF Relink, connectionVars
<1>8. CASE Connect
  <2>1. \/ UNCHANGED <<link, up>>
        \/ link = "Down" /\ link' \in {"Connecting", "Down"} /\ UNCHANGED up
    BY <1>8, Zenon DEF Connect, ConnectLink, ScheduleReconnect, connectionVars
  <2>2. CASE link = "Down" /\ link' \in {"Connecting", "Down"} /\ UNCHANGED up
    <3>1. link # "Up" /\ link' # "Up"
      BY <2>2
    <3> QED BY <2>2, <3>1, Zenon DEF UpFollows
  <2> QED BY <1>1, <2>1, <2>2
<1> QED BY <1>3, <1>4, <1>5, <1>6, <1>7, <1>8, Zenon DEF LinkNext

\* For any requests and bounds: the link is down exactly when there is no connection, every
\* outstanding request waits in pending_ or went to the connection there is now, framer_ holds
\* bytes of one connection only, and the user agent is told of just the links that are up, each
\* with its handshake finished.
THEOREM LinkSafe ==
  LinkSpec => [](NoRequestStranded /\ FramerFresh /\ UpIsReal)
<1>1. LinkInit => LinkInv
  BY InitLink
<1>2. LinkInit => UpFollows
  <2> SUFFICES ASSUME LinkInit PROVE UpFollows
    OBVIOUS
  <2>1. link # "Up"
    BY DEF LinkInit
  <2> QED BY <2>1, Zenon DEF LinkInit, UpFollows
<1>3. LinkInv /\ UpFollows /\ [LinkNext]_linkVars => LinkInv' /\ UpFollows'
  BY LinkStep, UpStep
<1>4. LinkInv /\ UpFollows => NoRequestStranded /\ FramerFresh /\ UpIsReal
  BY Zenon DEF LinkInv, UpFollows, UpIsReal
<1> QED BY <1>1, <1>2, <1>3, <1>4, PTL DEF LinkSpec

-----------------------------------------------------------------------------
\* relink_ blames the connection there is, or one already dropped, and never outlives the check
\* that comes before reconnecting.
RelinkInv ==
  /\ relink => suspect = generation \/ link = "Down"
  /\ pc = "connect" => ~relink

\* deliver_events sets relink_ only for the connection there is.
LEMMA SuspectKeeps ==
  ASSUME NEW registers, Suspect(registers), RelinkInv, UNCHANGED <<generation, link, pc>>, pc # "connect"
  PROVE  RelinkInv'
BY Zenon DEF Suspect, RelinkInv

\* Every step keeps it: only Connect makes a connection, and there relink_ is clear.
LEMMA RelinkStep == ASSUME LinkInv, RelinkInv, [LinkNext]_linkVars PROVE RelinkInv'
<1>1. CASE UNCHANGED <<relink, suspect, generation, link>> /\ (pc' = pc \/ pc' # "connect")
  BY <1>1, Zenon DEF RelinkInv
<1>2. CASE OnConnected \/ OnData \/ OnClosed
  BY <1>1, <1>2, Zenon DEF OnConnected, OnData, OnClosed, Post
<1>3. ASSUME NEW r \in Requests, SendSip(r) PROVE RelinkInv'
  BY <1>1, <1>3, Zenon DEF SendSip, connectionVars
<1>4. ASSUME NEW r \in Requests, NEW registers \in BOOLEAN, NoAnswer(r, registers) PROVE RelinkInv'
  <2>1. pc # "connect"
    BY <1>4 DEF NoAnswer
  <2> QED BY <1>4, <2>1, SuspectKeeps, Zenon DEF NoAnswer, connectionVars
<1>5. CASE RunCommands \/ DrainDone \/ LoopAgain \/ UNCHANGED linkVars
  <2>1. UNCHANGED <<relink, suspect, generation, link>>
    BY <1>5, Zenon DEF RunCommands, DrainDone, LoopAgain, linkVars, connectionVars
  <2>2. pc' \in {"drain", "relink", "commands"} \/ pc' = pc
    BY <1>5, Zenon DEF RunCommands, DrainDone, LoopAgain, linkVars
  <2>3. pc' # "connect" \/ pc' = pc
    BY <2>2
  <2> QED BY <1>1, <2>1, <2>3, Zenon
<1>6. CASE DrainLink
  <2> DEFINE event == Head(batch)
  <2>1. pc # "connect" /\ pc' = pc
    BY <1>6 DEF DrainLink
  <2>2. CASE UNCHANGED <<connectionVars, relink, suspect>>
    BY <1>1, <2>1, <2>2, Zenon DEF connectionVars
  <2>3. CASE DropLink /\ UNCHANGED <<relink, suspect>>
    BY <2>1, <2>3, Zenon DEF DropLink, ScheduleReconnect, RelinkInv
  <2>4. CASE /\ ~Stale(event) /\ UNCHANGED <<generation, relink, suspect>>
    <3>1. event = batch[1] /\ 1 \in 1..Len(batch)
      BY <1>6 DEF DrainLink, LinkInv, LinkTypes
    <3>2. link # "Down"
      BY <2>4, <3>1, Zenon DEF LinkInv, Timely, Stale, ConnectionMatchesLink
    <3> QED BY <2>1, <2>4, <3>2, Zenon DEF RelinkInv
  <2>5. CASE /\ UNCHANGED <<generation, link>>
             /\ \E refused \in BOOLEAN : Suspect(refused)
    BY <2>1, <2>5, SuspectKeeps, Zenon
  <2>6. CASE Receive(event.generation)
    BY <1>1, <2>1, <2>3, <2>5, <2>6, Zenon DEF Receive
  <2> QED BY <1>6, <2>2, <2>3, <2>4, <2>6, Zenon DEF DrainLink
<1>7. CASE Relink
  BY <1>7, Zenon DEF Relink, RelinkInv
<1>8. CASE Connect
  <2>1. pc = "connect" /\ pc' # "connect" /\ UNCHANGED relink
    BY <1>8 DEF Connect
  <2> QED BY <2>1, Zenon DEF RelinkInv
<1> QED BY <1>2, <1>3, <1>4, <1>5, <1>6, <1>7, <1>8, Zenon DEF LinkNext

\* For any requests and bounds: when loop() drops the link because a REGISTER went unanswered, it
\* drops the connection that REGISTER went out on, not one made since.
THEOREM RelinkSafe == LinkSpec => RelinkDropsSuspect
<1>1. LinkInit => LinkInv
  BY InitLink
<1>2. LinkInit => RelinkInv
  BY Zenon DEF LinkInit, RelinkInv
<1>3. LinkInv /\ RelinkInv /\ [LinkNext]_linkVars => LinkInv' /\ RelinkInv'
  BY LinkStep, RelinkStep
<1>4. ASSUME RelinkInv, [LinkNext]_linkVars
      PROVE  [relink /\ ~relink' /\ generation' # generation => suspect = generation]_linkVars
  <2> SUFFICES ASSUME LinkNext, relink, ~relink', generation' # generation
               PROVE  suspect = generation
    BY <1>4, Zenon
  <2>1. CASE Relink
    <3>1. link = "Up"
      BY <2>1, Zenon DEF Relink, connectionVars
    <3>2. link # "Down"
      BY <3>1
    <3> QED BY <1>4, <3>2, Zenon DEF RelinkInv
  <2>2. CASE generation' = generation
    BY <2>2
  <2>3. CASE relink' = relink
    BY <2>3
  <2>4. CASE OnConnected \/ OnData \/ OnClosed
    BY <2>2, <2>4, Zenon DEF OnConnected, OnData, OnClosed, Post
  <2>5. CASE \E r \in Requests : SendSip(r) \/ \E registers \in BOOLEAN : NoAnswer(r, registers)
    BY <2>2, <2>5, Zenon DEF SendSip, NoAnswer, connectionVars
  <2>6. CASE DrainLink
    BY <2>2, <2>3, <2>6, Zenon DEF DrainLink, Receive
  <2>7. CASE RunCommands \/ DrainDone \/ Connect \/ LoopAgain
    BY <2>3, <2>7, Zenon DEF RunCommands, DrainDone, Connect, LoopAgain
  <2> QED BY <2>1, <2>4, <2>5, <2>6, <2>7, Zenon DEF LinkNext
<1> QED BY <1>1, <1>2, <1>3, <1>4, PTL DEF LinkSpec, RelinkDropsSuspect

-----------------------------------------------------------------------------
\* The types of the variables that LinkTypes leaves out: the loop's own.
LoopTypes ==
  /\ pc \in {"commands", "drain", "relink", "connect", "timer"}
  /\ backoff \in 1..30
  /\ relink \in BOOLEAN /\ up \in BOOLEAN
  /\ suspect \in 0..MaxGeneration

\* schedule_reconnect doubles the wait and never takes it over 30 s.
LEMMA BackoffBounded ==
  ASSUME backoff \in 1..30, ScheduleReconnect
  PROVE  backoff' \in 1..30
BY DEF ScheduleReconnect, Min

\* Each step leaves backoff_ as it is, resets it or doubles it within its bound.
LEMMA BackoffStep == ASSUME backoff \in 1..30, [LinkNext]_linkVars PROVE backoff' \in 1..30
<1>1. CASE UNCHANGED backoff
  BY <1>1
<1>2. CASE ScheduleReconnect
  BY <1>2, BackoffBounded
<1>3. CASE backoff' = 1
  BY <1>3
<1>4. CASE OnConnected \/ OnData \/ OnClosed
  BY <1>1, <1>4, Zenon DEF OnConnected, OnData, OnClosed, Post
<1>5. CASE \E r \in Requests : SendSip(r) \/ \E registers \in BOOLEAN : NoAnswer(r, registers)
  BY <1>1, <1>5, Zenon DEF SendSip, NoAnswer, connectionVars
<1>6. CASE RunCommands \/ DrainDone \/ LoopAgain \/ UNCHANGED linkVars
  BY <1>1, <1>6, Zenon DEF RunCommands, DrainDone, LoopAgain, linkVars, connectionVars
<1>7. CASE DrainLink
  BY <1>1, <1>2, <1>3, <1>7, Zenon DEF DrainLink, Receive, DropLink, connectionVars
<1>8. CASE Relink
  BY <1>1, <1>2, <1>8, Zenon DEF Relink, DropLink, connectionVars
<1>9. CASE Connect
  BY <1>1, <1>2, <1>9, Zenon DEF Connect, ConnectLink, connectionVars
<1> QED BY <1>4, <1>5, <1>6, <1>7, <1>8, <1>9, Zenon DEF LinkNext

\* Each step leaves relink_ as it is, clears it, or sets it against the connection there is.
LEMMA SuspectStep ==
  ASSUME LinkInv, LoopTypes, [LinkNext]_linkVars
  PROVE  relink' \in BOOLEAN /\ suspect' \in 0..MaxGeneration
<1> DEFINE Goal == relink' \in BOOLEAN /\ suspect' \in 0..MaxGeneration
<1>1. CASE UNCHANGED <<relink, suspect>>
  BY <1>1, Zenon DEF LoopTypes
<1>2. ASSUME NEW registers \in BOOLEAN, Suspect(registers) PROVE Goal
  <2>1. CASE relink' = TRUE /\ suspect' = generation
    BY <2>1, Zenon DEF LinkInv, LinkTypes
  <2> QED BY <1>1, <1>2, <2>1, Zenon DEF Suspect
<1>3. CASE OnConnected \/ OnData \/ OnClosed
  BY <1>1, <1>3, Zenon DEF OnConnected, OnData, OnClosed, Post
<1>4. CASE \E r \in Requests : SendSip(r) \/ \E registers \in BOOLEAN : NoAnswer(r, registers)
  BY <1>1, <1>2, <1>4, Zenon DEF SendSip, NoAnswer
<1>5. CASE RunCommands \/ DrainDone \/ LoopAgain \/ Connect \/ UNCHANGED linkVars
  BY <1>1, <1>5, Zenon DEF RunCommands, DrainDone, LoopAgain, Connect, linkVars
<1>6. CASE DrainLink
  BY <1>1, <1>2, <1>6, Zenon DEF DrainLink, Receive
<1>7. CASE Relink
  <2>1. 0 \in 0..MaxGeneration
    BY LinkAssumption
  <2> QED BY <1>7, <2>1, Zenon DEF Relink
<1> QED BY <1>3, <1>4, <1>5, <1>6, <1>7, Zenon DEF LinkNext

LEMMA LoopStep == ASSUME LinkInv, LoopTypes, [LinkNext]_linkVars PROVE LoopTypes'
<1>1. backoff' \in 1..30
  BY BackoffStep, Zenon DEF LoopTypes
<1>2. relink' \in BOOLEAN /\ suspect' \in 0..MaxGeneration
  BY SuspectStep
<1>3. pc' \in {"commands", "drain", "relink", "connect", "timer"}
  <2>1. pc' = pc \/ pc' \in {"commands", "drain", "relink", "connect", "timer"}
    BY Zenon DEF LinkNext, linkVars, OnConnected, OnData, OnClosed, Post, SendSip, NoAnswer, RunCommands,
       DrainLink, DrainDone, Relink, Connect, LoopAgain
  <2> QED BY <2>1, Zenon DEF LoopTypes
<1>4. up' \in BOOLEAN
  <2>1. up' = up \/ up' = FALSE \/ up' = TRUE
    BY Zenon DEF LinkNext, linkVars, connectionVars, OnConnected, OnData, OnClosed, Post, SendSip, NoAnswer,
       RunCommands, DrainLink, DrainDone, Relink, Connect, LoopAgain, Receive, DropLink, ConnectLink
  <2> QED BY <2>1, Zenon DEF LoopTypes
<1> QED BY <1>1, <1>2, <1>3, <1>4, Zenon DEF LoopTypes

\* For any requests and bounds: every variable of the link keeps its type.  In particular backoff_,
\* which on_connected resets and schedule_reconnect doubles, stays between one and thirty seconds.
THEOREM LinkTypeCorrect == LinkSpec => []LinkTypeOK
<1>1. LinkInit => LinkInv
  BY InitLink
<1>2. LinkInit => LoopTypes
  <2>1. 0 \in 0..MaxGeneration /\ 1 \in 1..30
    BY LinkAssumption
  <2> QED BY <2>1, Zenon DEF LinkInit, LoopTypes
<1>3. LinkInv /\ LoopTypes /\ [LinkNext]_linkVars => LinkInv' /\ LoopTypes'
  BY LinkStep, LoopStep
<1>4. LinkInv /\ LoopTypes => LinkTypeOK
  BY Zenon DEF LinkInv, LinkTypes, LoopTypes, LinkTypeOK
<1> QED BY <1>1, <1>2, <1>3, <1>4, PTL DEF LinkSpec
=============================================================================
