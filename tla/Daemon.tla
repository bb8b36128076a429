------------------------------- MODULE Daemon -------------------------------
(***************************************************************************)
(* One daemon from its listening socket to its exit: the requests of its   *)
(* clients (IpcClient, IpcServer), session.start() in the background, and  *)
(* the three ways it ends: stop_session, a signal, a start that fails.     *)
(*                                                                         *)
(* A step is one callback of the daemon's event loop with the promise      *)
(* continuations it lets run; where one event wakes two of them (the exit  *)
(* of SST ends both a pending start and a stop) either may come first.     *)
(* What a call does to the session is SstSession and CommandControl.       *)
(***************************************************************************)
CONSTANT Clients   \* processes that call the daemon, one connection at a time

VARIABLES
  caller,        \* IpcClient: where it is, or how its last call ended
  asked,         \* the method it has sent
  handler,       \* _handleConnection of its connection
  server,        \* _server, and whether stop() awaits its close
  shuttingDown,  \* _shuttingDown
  started,       \* SSTSession._started
  start,         \* session.start()
  sst,           \* the SST process
  stopper,       \* _handleStopSession
  finisher,      \* finish(), or its twin after a failed start
  code,          \* the exit code it will use
  meta,          \* the status in meta.json
  daemon         \* the process

calls == <<caller, asked, handler>>
listener == <<server, shuttingDown>>
session == <<started, start, sst>>
ending == <<stopper, finisher, code, meta, daemon>>
vars == <<calls, listener, session, ending>>

\* "wait": wait_for_ready and wait_for_next_ready, raced against an abort.
\* "command": start_, stop_ and restart_command and read_command_logs, which are not.
\* "read": list_commands, get_command_status, and what the schemas refuse.
Methods == {"wait", "command", "read", "stop"}
Replies == {"ok", "failed", "SHUTTING_DOWN"}
Over == {"off", "left", "lost"} \cup Replies
Up == daemon = "up"

Init ==
  /\ caller = [c \in Clients |-> "off"]
  /\ asked = [c \in Clients |-> "none"]
  /\ handler = [c \in Clients |-> "none"]
  /\ server = "listening" /\ shuttingDown = FALSE
  /\ started = FALSE /\ start = "preflight" /\ sst = "none"
  /\ stopper = "idle" /\ finisher = "idle" /\ code = 0
  /\ meta = "running" /\ daemon = "up"

-----------------------------------------------------------------------------
(* IpcClient.                                                              *)

Connect(c) ==
  /\ caller[c] \in Over /\ handler[c] = "none"
  /\ Up /\ server = "listening"
  /\ caller' = [caller EXCEPT ![c] = "connected"]
  /\ asked' = [asked EXCEPT ![c] = "none"]
  /\ handler' = [handler EXCEPT ![c] = "reading"]
  /\ UNCHANGED <<listener, session, ending>>

\* ECONNREFUSED, ENOENT, or no answer within 2 s.
ConnectFails(c) ==
  /\ caller[c] \in Over
  /\ ~Up \/ (server # "listening" /\ handler[c] = "none")
  /\ caller' = [caller EXCEPT ![c] = "lost"]
  /\ UNCHANGED <<asked, handler, listener, session, ending>>

Call(c, method) ==
  /\ caller[c] = "connected"
  /\ caller' = [caller EXCEPT ![c] = "calling"]
  /\ asked' = [asked EXCEPT ![c] = method]
  /\ UNCHANGED <<handler, listener, session, ending>>

\* close(), or the calling process ends.
Leave(c) ==
  /\ caller[c] \in {"connected", "calling"}
  /\ caller' = [caller EXCEPT ![c] = "left"]
  /\ UNCHANGED <<asked, handler, listener, session, ending>>

\* Mutant: call() does not listen for `end'.
LostUnheard(c) ==
  /\ caller[c] = "connected" /\ ~Up
  /\ caller' = [caller EXCEPT ![c] = "lost"]
  /\ UNCHANGED <<asked, handler, listener, session, ending>>

\* "IPC socket closed before response", or the write fails.
Lost(c) ==
  /\ caller[c] \in {"connected", "calling"} /\ ~Up
  /\ caller' = [caller EXCEPT ![c] = "lost"]
  /\ UNCHANGED <<asked, handler, listener, session, ending>>

-----------------------------------------------------------------------------
(* IpcServer._handleConnection and _dispatch.                              *)

\* A response to a client that has left is dropped.
Hear(c, reply) == IF caller[c] = "calling" THEN reply ELSE caller[c]

Reply(c, reply) ==
  /\ caller' = [caller EXCEPT ![c] = Hear(c, reply)]
  /\ handler' = [handler EXCEPT ![c] = "none"]
  /\ UNCHANGED asked

\* Aborting every AbortController ends the waits, and only them.
AbortWaits ==
  /\ caller' = [c \in Clients |-> IF handler[c] = "wait" THEN Hear(c, "failed") ELSE caller[c]]
  /\ handler' = [c \in Clients |-> IF handler[c] = "wait" THEN "none" ELSE handler[c]]
  /\ UNCHANGED asked

Received(c, method) == Up /\ handler[c] = "reading" /\ asked[c] = method

Refuse(c, method) ==
  /\ Received(c, method) /\ shuttingDown
  /\ Reply(c, "SHUTTING_DOWN")
  /\ UNCHANGED <<listener, session, ending>>

Dispatch(c, method) ==
  /\ Received(c, method) /\ ~shuttingDown /\ method \in {"wait", "command"}
  /\ handler' = [handler EXCEPT ![c] = method]
  /\ UNCHANGED <<caller, asked, listener, session, ending>>

AnswerAtOnce(c) ==
  /\ Received(c, "read") /\ ~shuttingDown
  /\ \E reply \in {"ok", "failed"} : Reply(c, reply)
  /\ UNCHANGED <<listener, session, ending>>

\* The session settles a call; every wait and every command has a time limit.
CallEnds(c) ==
  /\ Up /\ handler[c] \in {"wait", "command"}
  /\ \E reply \in {"ok", "failed"} : Reply(c, reply)
  /\ UNCHANGED <<listener, session, ending>>

\* Mutant: the end of a connection without a request is not listened for.
HangUpInWait(c) ==
  /\ Up /\ caller[c] = "left" /\ handler[c] = "wait"
  /\ handler' = [handler EXCEPT ![c] = "none"]
  /\ UNCHANGED <<caller, asked, listener, session, ending>>

\* The socket ends before the request is complete, or closes during a wait.
HangUp(c) ==
  /\ Up /\ caller[c] = "left"
  /\ handler[c] = "wait" \/ (handler[c] = "reading" /\ asked[c] = "none")
  /\ handler' = [handler EXCEPT ![c] = "none"]
  /\ UNCHANGED <<caller, asked, listener, session, ending>>

-----------------------------------------------------------------------------
(* The end of the daemon: _handleStopSession, finish, IpcServer.stop.      *)

\* Mutant: SSTSession.stop clears _started first, against a second stop.
StopSessionForgetting(c) ==
  /\ Received(c, "stop") /\ ~shuttingDown
  /\ server' = "detached" /\ shuttingDown' = TRUE
  /\ caller' = [d \in Clients |-> IF handler[d] = "wait" THEN Hear(d, "failed") ELSE caller[d]]
  /\ handler' = [d \in Clients |->
       IF d = c THEN "stop" ELSE IF handler[d] = "wait" THEN "none" ELSE handler[d]]
  /\ started' = FALSE /\ stopper' = "session"
  /\ UNCHANGED <<asked, start, sst, finisher, code, meta, daemon>>

\* The listener is closed without waiting for its connections, the waits are
\* aborted, and session.stop() begins.
StopSession(c) ==
  /\ Received(c, "stop") /\ ~shuttingDown
  /\ server' = "detached" /\ shuttingDown' = TRUE
  /\ caller' = [d \in Clients |-> IF handler[d] = "wait" THEN Hear(d, "failed") ELSE caller[d]]
  /\ handler' = [d \in Clients |->
       IF d = c THEN "stop" ELSE IF handler[d] = "wait" THEN "none" ELSE handler[d]]
  /\ stopper' = "session"
  /\ UNCHANGED <<asked, session, finisher, code, meta, daemon>>

\* session.stop() returns: SST has exited, or it was never started.
\* The meta is written and the caller answered.
Stopped(c) ==
  /\ Up /\ stopper = "session" /\ handler[c] = "stop"
  /\ ~started \/ sst # "up"
  /\ started' = FALSE
  /\ meta' = "stopped" /\ stopper' = "stopped"
  /\ Reply(c, "ok")
  /\ UNCHANGED <<listener, start, sst, finisher, code, daemon>>

ServerStop ==
  /\ shuttingDown' = TRUE
  /\ server' = IF server = "listening" THEN "closing" ELSE server
  /\ AbortWaits

\* finish(0) for `shutdown', SIGTERM and SIGINT; only the first has an effect.
Finish ==
  IF finisher = "idle"
  THEN finisher' = "server" /\ code' = 0 /\ ServerStop
  ELSE UNCHANGED <<finisher, code, calls, listener>>

Shutdown ==
  /\ Up /\ stopper = "stopped"
  /\ stopper' = "emitted"
  /\ Finish
  /\ UNCHANGED <<session, meta, daemon>>

Signal ==
  /\ Up /\ Finish
  /\ UNCHANGED <<session, stopper, meta, daemon>>

\* finish writes `stopped'; after a failed start nothing is written.
Exit ==
  /\ daemon' = "exited"
  /\ meta' = IF code = 0 THEN "stopped" ELSE meta

\* server.close() waits for sockets, not for what runs on their account: a
\* command goes on when its client has hung up, and the socket is closed.
Closed(c) == handler[c] = "none" \/ (handler[c] = "command" /\ caller[c] = "left")

\* Mutant: close() is called and not awaited.
ServerStoppedAtOnce ==
  /\ Up /\ finisher = "server"
  /\ server' = IF server = "closing" THEN "closed" ELSE server
  /\ finisher' = "session"
  /\ IF started THEN UNCHANGED <<meta, daemon>> ELSE Exit
  /\ UNCHANGED <<calls, shuttingDown, session, stopper, code>>

\* server.stop() returns: at once if stop_session has taken the listener, else
\* when the last socket is closed.  session.stop() returns at once if the
\* session never started.
ServerStopped ==
  /\ Up /\ finisher = "server"
  /\ server = "closing" => \A c \in Clients : Closed(c)
  /\ server' = IF server = "closing" THEN "closed" ELSE server
  /\ finisher' = "session"
  /\ IF started THEN UNCHANGED <<meta, daemon>> ELSE Exit
  /\ UNCHANGED <<calls, shuttingDown, session, stopper, code>>

Finished ==
  /\ Up /\ finisher = "session" /\ (~started \/ sst # "up")
  /\ started' = FALSE
  /\ Exit
  /\ UNCHANGED <<calls, listener, start, sst, stopper, finisher, code>>

\* SIGKILL, or the machine.
Killed ==
  /\ Up /\ daemon' = "killed"
  /\ UNCHANGED <<calls, listener, session, stopper, finisher, code, meta>>

-----------------------------------------------------------------------------
(* session.start() and SST.                                                *)

\* Mutant: `exiting' is not set, so a later signal runs finish(0).
RejectStartOpen ==
  /\ start' = IF stopper = "idle" /\ finisher = "idle" THEN "failed" ELSE "aborted"
  /\ meta' = "failed"
  /\ IF finisher = "idle" THEN ServerStop ELSE UNCHANGED <<calls, listener>>
  /\ UNCHANGED <<finisher, code>>

\* The catch of session.start(): `failed' is written whoever is about to end
\* the daemon; if nobody is, it ends with code 1.
RejectStart ==
  /\ start' = IF stopper = "idle" /\ finisher = "idle" THEN "failed" ELSE "aborted"
  /\ meta' = "failed"
  /\ IF finisher = "idle"
     THEN finisher' = "server" /\ code' = 1 /\ ServerStop
     ELSE UNCHANGED <<finisher, code, calls, listener>>

\* The collision check is under way; a stop that finds nothing to end returns
\* before its answer can come.
Probing == Up /\ start = "preflight" /\ stopper # "session"

\* SST is spawned after it...
Spawn ==
  /\ Probing
  /\ started' = TRUE /\ sst' = "up" /\ start' = "pending"
  /\ UNCHANGED <<calls, listener, ending>>

\* ... unless that fails, or the pty cannot be opened, or sst.config.ts turns
\* out to be unusable once SST runs.
SpawnFails ==
  /\ Probing
  /\ \/ UNCHANGED <<started, sst>>
     \/ started' = TRUE /\ sst' \in {"none", "up"}
  /\ RejectStart
  /\ UNCHANGED <<stopper, daemon>>

Ready ==
  /\ Up /\ start = "pending" /\ sst = "up"
  /\ start' = "ready"
  /\ UNCHANGED <<calls, listener, started, sst, ending>>

\* By itself, by the SIGINT of session.stop() or by its SIGKILL; when the
\* daemon is gone, because its terminal is hung up.
SstExits ==
  /\ sst = "up" /\ sst' = "gone"
  /\ UNCHANGED <<calls, listener, started, start, ending>>

\* SST exits before it is ready, or its first deployment ends in an error, which
\* rejects the start with SST still running.
StartRejected ==
  /\ Up /\ start = "pending" /\ sst \in {"up", "gone"}
  /\ RejectStart
  /\ UNCHANGED <<started, sst, stopper, daemon>>

-----------------------------------------------------------------------------
ClientStep(c) ==
  \/ Connect(c) \/ ConnectFails(c) \/ Leave(c) \/ Lost(c)
  \/ \E method \in Methods : Call(c, method)

ConnectionStep(c) ==
  \/ AnswerAtOnce(c) \/ CallEnds(c) \/ HangUp(c) \/ StopSession(c) \/ Stopped(c)
  \/ \E method \in Methods : Refuse(c, method) \/ Dispatch(c, method)

Stopping == stopper = "session" \/ finisher = "session"

SessionStep ==
  \/ Spawn \/ SpawnFails \/ Ready \/ StartRejected \/ SstExits

Next ==
  \/ \E c \in Clients : ClientStep(c) \/ ConnectionStep(c)
  \/ Shutdown \/ Signal \/ ServerStopped \/ Finished \/ Killed \/ SessionStep

Spec == Init /\ [][Next]_vars

\* The event loop runs; waits and commands have time limits; SST ends when it
\* is told to (SIGKILL after 5 s); a client that has connected asks or leaves.
FairSpec ==
  /\ Spec
  /\ \A c \in Clients :
       /\ WF_vars(ConnectionStep(c))
       /\ WF_vars(caller[c] = "connected" /\ ((\E method \in Methods : Call(c, method)) \/ Leave(c)))
       /\ WF_vars(Lost(c))
  /\ WF_vars(Spawn \/ SpawnFails) /\ WF_vars(sst = "gone" /\ StartRejected)
  /\ WF_vars(Stopping /\ SstExits)
  /\ WF_vars(Shutdown) /\ WF_vars(ServerStopped) /\ WF_vars(Finished)

-----------------------------------------------------------------------------
\* The type of every variable.
TypeOK ==
  /\ caller \in [Clients -> Over \cup {"connected", "calling"}]
  /\ asked \in [Clients -> Methods \cup {"none"}]
  /\ handler \in [Clients -> {"none", "reading", "wait", "command", "stop"}]
  /\ server \in {"listening", "closing", "detached", "closed"} /\ shuttingDown \in BOOLEAN
  /\ started \in BOOLEAN
  /\ start \in {"preflight", "pending", "ready", "failed", "aborted"}
  /\ sst \in {"none", "up", "gone"}
  /\ stopper \in {"idle", "session", "stopped", "emitted"}
  /\ finisher \in {"idle", "server", "session"} /\ code \in {0, 1}
  /\ meta \in {"running", "stopped", "failed"} /\ daemon \in {"up", "exited", "killed"}

\* However stop_session, signals and a failing start overlap, the daemon does
\* not exit before its SST: the second session.stop() waits as the first does.
SstEndsFirst == daemon = "exited" => sst # "up"

\* The daemon does not exit while somebody is in a wait; and unless stop_session
\* ends it, everybody who is still there has been answered.  (A command whose
\* client has hung up is cut off with its SST: close() does not wait for it.)
NobodyIsCutOff ==
  [][Up /\ daemon' = "exited" =>
       \A c \in Clients :
         /\ handler[c] # "wait"
         /\ stopper = "idle" /\ handler[c] # "none" => caller[c] = "left"]_vars

\* "Skip the SIGTERM/finish(0) status:'stopped' overwrite -- keep failed"
\* (daemon-entry.ts): a start that failed before anybody asked for the end
\* stays recorded, whatever arrives while the connections drain.
FailureIsKept ==
  daemon = "exited" /\ start = "failed" => meta = "failed" /\ code = 1

\* Every call is answered or fails, the daemon being killed or not.
CallsSettle == \A c \in Clients : caller[c] = "calling" ~> caller[c] # "calling"

\* A daemon that was told to end ends, whichever of its connections, commands
\* and stops were under way (an idle client that keeps its connection open
\* would hold up a signal for ever).
DaemonEnds == stopper # "idle" \/ finisher # "idle" ~> daemon # "up"
=============================================================================
