--------------------------- MODULE EngineCommands ---------------------------
(***************************************************************************)
(* How the C API reaches the network thread (core/engine.cpp): run() puts  *)
(* a command in the queue and waits for its promise; loop() takes the      *)
(* queue and runs it; ketphone_engine_destroy queues the shutdown and      *)
(* joins the thread, which on its way out refuses what came too late.  A   *)
(* command given from the event callback runs inline and needs no step     *)
(* here.  What commands do to the user agent is left to its own modules:   *)
(* here it only becomes idle, or not, before the grace period is over.     *)
(***************************************************************************)
EXTENDS Integers, Sequences

CONSTANTS Clients     \* application threads

Stop == "stop"        \* the command stop() queues

ASSUME EngineCommandsAssumption == Stop \notin Clients

VARIABLES
  queue, closed,      \* queue_ and closed_, under queue_mutex_
  stopping,           \* stopping_
  pc,                 \* the network thread: "loop", "commands", "check", "closing", "exited"
  batch,              \* commands taken from the queue and not yet run or refused
  graceOver,          \* the clock has passed stop_deadline_
  idle,               \* ua_.idle() as the user agent would answer it
  client,             \* each application thread: "free", "waiting" for its promise, or answered
  destroyer           \* ketphone_engine_destroy: "none", "joining" or "done"

vars == <<queue, closed, stopping, pc, batch, graceOver, idle, client, destroyer>>

Init ==
  /\ queue = <<>> /\ batch = <<>>
  /\ closed = FALSE /\ stopping = FALSE /\ graceOver = FALSE /\ idle = TRUE
  /\ pc = "loop"
  /\ client = [c \in Clients |-> "free"]
  /\ destroyer = "none"

-----------------------------------------------------------------------------
(* Application threads.                                                    *)

\* run(), for any command of the C API: under the lock it is refused or queued; the thread then
\* waits.  Nobody may call a destroyed engine, but a call may race its destruction.
Run(c) ==
  /\ client[c] # "waiting" /\ destroyer # "done"
  /\ IF closed
     THEN client' = [client EXCEPT ![c] = "refused"] /\ UNCHANGED queue
     ELSE client' = [client EXCEPT ![c] = "waiting"] /\ queue' = Append(queue, c)
  /\ UNCHANGED <<closed, stopping, pc, batch, graceOver, idle, destroyer>>

\* stop(), up to the join.
Destroy ==
  /\ destroyer = "none" /\ destroyer' = "joining"
  /\ queue' = IF closed THEN queue ELSE Append(queue, Stop)
  /\ UNCHANGED <<closed, stopping, pc, batch, graceOver, idle, client>>

Joined ==
  /\ destroyer = "joining" /\ pc = "exited" /\ destroyer' = "done"
  /\ UNCHANGED <<queue, closed, stopping, pc, batch, graceOver, idle, client>>

-----------------------------------------------------------------------------
(* The network thread.                                                     *)

\* run_commands() takes the queue.
TakeQueue ==
  /\ pc = "loop" /\ pc' = "commands"
  /\ batch' = queue /\ queue' = <<>>
  /\ UNCHANGED <<closed, stopping, graceOver, idle, client, destroyer>>

\* One command: a client's, which may leave requests outstanding, or the shutdown.
RunCommand ==
  /\ pc = "commands" /\ batch # <<>>
  /\ batch' = Tail(batch)
  /\ idle' \in BOOLEAN
  /\ IF Head(batch) = Stop
     THEN stopping' = TRUE /\ UNCHANGED client
     ELSE client' = [client EXCEPT ![Head(batch)] = "ran"] /\ UNCHANGED stopping
  /\ UNCHANGED <<queue, closed, pc, graceOver, destroyer>>

\* The rest of the loop's body; messages and timers may change what is outstanding.
Work ==
  /\ pc = "commands" /\ batch = <<>> /\ pc' = "check"
  /\ idle' \in BOOLEAN
  /\ UNCHANGED <<queue, closed, stopping, batch, graceOver, client, destroyer>>

\* Mutant: the loop only ends when the user agent is idle.
Leaves_WhenIdle == stopping /\ idle

Leaves == stopping /\ (idle \/ graceOver)

Check ==
  /\ pc = "check"
  /\ pc' = IF Leaves THEN "closing" ELSE "loop"
  /\ UNCHANGED <<queue, closed, stopping, batch, graceOver, idle, client, destroyer>>

\* Mutant: the commands left in the queue are forgotten.
Close_Forgets ==
  /\ pc = "closing" /\ ~closed /\ closed' = TRUE
  /\ queue' = <<>>
  /\ UNCHANGED <<stopping, pc, batch, graceOver, idle, client, destroyer>>

\* After the loop, under the lock.
Close ==
  /\ pc = "closing" /\ ~closed /\ closed' = TRUE
  /\ batch' = queue /\ queue' = <<>>
  /\ UNCHANGED <<stopping, pc, graceOver, idle, client, destroyer>>

\* An abandoned command: a client's is refused; the shutdown ignores its argument and runs.
Abandon ==
  /\ pc = "closing" /\ closed /\ batch # <<>>
  /\ batch' = Tail(batch)
  /\ IF Head(batch) = Stop
     THEN stopping' = TRUE /\ UNCHANGED client
     ELSE client' = [client EXCEPT ![Head(batch)] = "refused"] /\ UNCHANGED stopping
  /\ UNCHANGED <<queue, closed, pc, graceOver, idle, destroyer>>

\* Mutant: the thread does not stay to refuse the abandoned commands.
Exit_Early ==
  /\ pc = "closing" /\ closed /\ pc' = "exited"
  /\ UNCHANGED <<queue, closed, stopping, batch, graceOver, idle, client, destroyer>>

Exit ==
  /\ pc = "closing" /\ closed /\ batch = <<>> /\ pc' = "exited"
  /\ UNCHANGED <<queue, closed, stopping, batch, graceOver, idle, client, destroyer>>

\* Time passes.
GraceEnds ==
  /\ stopping /\ ~graceOver /\ graceOver' = TRUE
  /\ UNCHANGED <<queue, closed, stopping, pc, batch, idle, client, destroyer>>

Network == TakeQueue \/ RunCommand \/ Work \/ Check \/ Close \/ Abandon \/ Exit

Next ==
  \/ \E c \in Clients : Run(c)
  \/ Destroy
  \/ Joined
  \/ Network
  \/ GraceEnds

\* The thread runs on (its poll waits at most 200 ms) and time passes; applications promise nothing.
Spec == Init /\ [][Next]_vars /\ WF_vars(Network) /\ WF_vars(GraceEnds) /\ WF_vars(Joined)

-----------------------------------------------------------------------------
\* The commands under way, the oldest first.
Commands == batch \o queue

\* A thread that waits has exactly one command under way, a thread that does not wait has none, and
\* none is under way once the network thread is gone: every promise is set, and set once, also
\* when the call races ketphone_engine_destroy.
WaitingIsQueued ==
  /\ \A c \in Clients : client[c] = "waiting" <=> \E i \in 1..Len(Commands) : Commands[i] = c
  /\ \A i, j \in 1..Len(Commands) : Commands[i] = Commands[j] /\ Commands[i] # Stop => i = j
  /\ pc = "exited" => Commands = <<>>

\* "They run on the network thread and wait for it (briefly)": every command is answered, also
\* when it races the destruction of the engine.
EveryCommandAnswered == \A c \in Clients : client[c] = "waiting" ~> client[c] # "waiting"

\* "waiting up to about two seconds": destroying the engine ends, even if a transaction never does.
DestroyEnds == destroyer = "joining" ~> destroyer = "done"
=============================================================================
