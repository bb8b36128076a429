---------------------------- MODULE DaemonProofs ----------------------------
(***************************************************************************)
(* What holds of Daemon for any number of clients: its types, and that it  *)
(* neither leaves SST behind, nor cuts anybody off, nor loses a failure.   *)
(***************************************************************************)
EXTENDS Daemon, TLAPS

\* SST runs only while the session counts as started, so whoever ends the
\* daemon finds out that there is something to wait for.
SstIsStarted == sst = "up" => started

\* The listener is open until somebody ends the daemon, and closed without
\* waiting for connections only by stop_session.
ListenerInv ==
  /\ ~shuttingDown => server = "listening" /\ finisher = "idle" /\ stopper = "idle"
  /\ shuttingDown => server # "listening"
  /\ server = "detached" => stopper # "idle"
  /\ server = "closed" => finisher = "session"

\* No wait outlives the beginning of the end; and once the listener has been
\* waited for there is no open connection left.
DrainInv ==
  /\ shuttingDown => \A c \in Clients : handler[c] # "wait"
  /\ stopper = "idle" /\ finisher = "session" /\ Up => \A c \in Clients : Closed(c)
  /\ daemon = "exited" => shuttingDown

\* A failed start closes the door to a stop, and its exit code is final.
FailureInv ==
  start = "failed" =>
    meta = "failed" /\ code = 1 /\ shuttingDown /\ stopper = "idle" /\ finisher # "idle"

DInv ==
  /\ TypeOK
  /\ SstIsStarted /\ SstEndsFirst
  /\ ListenerInv
  /\ DrainInv
  /\ FailureInv

USE DEF Up, Over, Replies, Methods, Received, Probing, Closed

LEMMA InitDInv == Init => DInv
  BY DEF Init, DInv, TypeOK, SstIsStarted, SstEndsFirst, ListenerInv, DrainInv, FailureInv

\* What AbortWaits does to callers and handlers.
LEMMA AbortWaitsTypes ==
  ASSUME TypeOK, AbortWaits
  PROVE  /\ caller' \in [Clients -> Over \cup {"connected", "calling"}]
         /\ asked' \in [Clients -> Methods \cup {"none"}]
         /\ handler' \in [Clients -> {"none", "reading", "wait", "command", "stop"}]
         /\ \A c \in Clients : handler'[c] # "wait"
         /\ \A c \in Clients : handler[c] = "none" => handler'[c] = "none"
  BY DEF TypeOK, AbortWaits, Hear

\* A client's own steps change nobody's handler but through Connect.
LEMMA ClientStepDInv ==
  ASSUME DInv, NEW c \in Clients, ClientStep(c)
  PROVE  DInv'
<1> USE DEF DInv, TypeOK, calls, listener, session, ending
<1>1. CASE Connect(c)
  <2>1. /\ caller' = [caller EXCEPT ![c] = "connected"]
        /\ asked' = [asked EXCEPT ![c] = "none"]
        /\ handler' = [handler EXCEPT ![c] = "reading"]
        /\ UNCHANGED <<listener, session, ending>> /\ server = "listening" /\ daemon = "up"
    BY <1>1 DEF Connect
  <2>2. ~shuttingDown
    BY <2>1 DEF ListenerInv
  <2>3. finisher = "idle" /\ stopper = "idle"
    BY <2>2 DEF ListenerInv
  <2>4. TypeOK'
    BY <2>1
  <2>5. DrainInv'
    BY <2>1, <2>2, <2>3 DEF DrainInv
  <2> QED
    BY <2>1, <2>4, <2>5 DEF SstIsStarted, SstEndsFirst, ListenerInv, FailureInv
<1>2. CASE ConnectFails(c) \/ Leave(c) \/ Lost(c) \/ \E method \in Methods : Call(c, method)
  <2>1. /\ caller' \in [Clients -> Over \cup {"connected", "calling"}]
        /\ asked' \in [Clients -> Methods \cup {"none"}]
        /\ UNCHANGED <<handler, listener, session, ending>>
    BY <1>2 DEF ConnectFails, Leave, Lost, Call
  <2>2. ASSUME stopper = "idle", finisher = "session", daemon = "up", NEW d \in Clients
        PROVE  Closed(d)'
    <3>1. Closed(d) /\ shuttingDown
      BY <2>2 DEF DrainInv, ListenerInv
    <3>2. server # "listening"
      BY <3>1 DEF ListenerInv
    <3>3. CASE handler[d] = "none"
      BY <2>1, <3>3
    <3>4. CASE handler[d] = "command" /\ caller[d] = "left"
      <4>1. caller'[d] = "left"
        BY <1>2, <2>2, <3>2, <3>4 DEF ConnectFails, Leave, Lost, Call
      <4> QED
        BY <2>1, <3>4, <4>1
    <3> QED
      BY <3>1, <3>3, <3>4
  <2>3. DrainInv'
    BY <2>1, <2>2 DEF DrainInv
  <2> QED
    BY <2>1, <2>3 DEF SstIsStarted, SstEndsFirst, ListenerInv, FailureInv
<1> QED
  BY <1>1, <1>2 DEF ClientStep

LEMMA ConnectionStepDInv ==
  ASSUME DInv, NEW c \in Clients, ConnectionStep(c)
  PROVE  DInv'
<1> USE DEF DInv, TypeOK, calls, listener, session, ending, Hear
<1>1. CASE AnswerAtOnce(c) \/ CallEnds(c) \/ HangUp(c)
           \/ \E method \in Methods : Refuse(c, method)
  <2>1. /\ caller' \in [Clients -> Over \cup {"connected", "calling"}]
        /\ \A d \in Clients : d # c => caller'[d] = caller[d]
        /\ handler' = [handler EXCEPT ![c] = "none"]
        /\ UNCHANGED <<asked, listener, session, ending>>
    BY <1>1 DEF AnswerAtOnce, CallEnds, HangUp, Refuse, Reply
  <2>2. \A d \in Clients : Closed(d) => Closed(d)'
    BY <2>1
  <2>3. DrainInv'
    BY <2>1, <2>2 DEF DrainInv
  <2>4. TypeOK'
    BY <2>1
  <2> QED
    BY <2>1, <2>3, <2>4 DEF SstIsStarted, SstEndsFirst, ListenerInv, FailureInv
<1>2. CASE \E method \in Methods : Dispatch(c, method)
  <2>1. PICK method \in Methods : Dispatch(c, method)
    BY <1>2
  <2>2. /\ method \in {"wait", "command"} /\ ~shuttingDown /\ daemon = "up"
        /\ handler' = [handler EXCEPT ![c] = method]
        /\ UNCHANGED <<caller, asked, listener, session, ending>>
    BY <2>1 DEF Dispatch
  <2>3. finisher = "idle" /\ stopper = "idle"
    BY <2>2 DEF ListenerInv
  <2>4. TypeOK'
    BY <2>2
  <2>5. DrainInv'
    BY <2>2, <2>3 DEF DrainInv
  <2> QED
    BY <2>2, <2>4, <2>5 DEF SstIsStarted, SstEndsFirst, ListenerInv, FailureInv
<1>3. CASE StopSession(c)
  <2>1. /\ ~shuttingDown /\ daemon = "up"
        /\ server' = "detached" /\ shuttingDown' = TRUE /\ stopper' = "session"
        /\ UNCHANGED <<asked, session, finisher, code, meta, daemon>>
    BY <1>3 DEF StopSession
  <2>2. start # "failed"
    BY <2>1 DEF FailureInv
  <2>3. /\ caller' \in [Clients -> Over \cup {"connected", "calling"}]
        /\ handler' \in [Clients -> {"none", "reading", "wait", "command", "stop"}]
        /\ \A d \in Clients : handler'[d] # "wait"
    BY <1>3 DEF StopSession
  <2>4. TypeOK'
    BY <2>1, <2>3
  <2> QED
    BY <2>1, <2>2, <2>3, <2>4 DEF SstIsStarted, SstEndsFirst, ListenerInv, DrainInv, FailureInv
<1>4. CASE Stopped(c)
  <2>1. /\ daemon = "up" /\ stopper = "session" /\ (~started \/ sst # "up")
        /\ started' = FALSE /\ meta' = "stopped" /\ stopper' = "stopped"
        /\ UNCHANGED <<asked, listener, start, sst, finisher, code, daemon>>
        /\ handler' = [handler EXCEPT ![c] = "none"]
        /\ caller' \in [Clients -> Over \cup {"connected", "calling"}]
    BY <1>4 DEF Stopped, Reply
  <2>2. sst' # "up" /\ start # "failed" /\ shuttingDown
    BY <2>1 DEF SstIsStarted, FailureInv, ListenerInv
  <2>3. TypeOK'
    BY <2>1
  <2>4. DrainInv'
    BY <2>1, <2>2 DEF DrainInv
  <2> QED
    BY <2>1, <2>2, <2>3, <2>4 DEF SstIsStarted, SstEndsFirst, ListenerInv, FailureInv
<1> QED
  BY <1>1, <1>2, <1>3, <1>4 DEF ConnectionStep

\* finish(0), from `shutdown' or a signal.
LEMMA FinishDInv ==
  ASSUME DInv, daemon = "up", Finish,
         UNCHANGED <<session, meta, daemon>>,
         stopper' = stopper \/ (stopper = "stopped" /\ stopper' = "emitted")
  PROVE  DInv'
<1> USE DEF DInv, TypeOK, calls, listener, session
<1>1. CASE finisher = "idle"
  <2>1. /\ finisher' = "server" /\ code' = 0 /\ shuttingDown' = TRUE
        /\ server' = IF server = "listening" THEN "closing" ELSE server
        /\ AbortWaits
    BY <1>1 DEF Finish, ServerStop
  <2>2. start # "failed"
    BY <1>1 DEF FailureInv
  <2>3. TypeOK'
    BY <2>1, AbortWaitsTypes
  <2>4. DrainInv'
    BY <2>1, AbortWaitsTypes DEF DrainInv
  <2>5. ListenerInv'
    BY <1>1, <2>1 DEF ListenerInv
  <2>6. SstIsStarted' /\ SstEndsFirst' /\ FailureInv'
    BY <2>1, <2>2 DEF SstIsStarted, SstEndsFirst, FailureInv
  <2> QED
    BY <2>3, <2>4, <2>5, <2>6
<1>2. CASE finisher # "idle"
  <2>1. UNCHANGED <<finisher, code, calls, listener>>
    BY <1>2 DEF Finish
  <2>2. shuttingDown
    BY <1>2 DEF ListenerInv
  <2>3. start = "failed" => stopper = "idle"
    BY DEF FailureInv
  <2> QED
    BY <2>1, <2>2, <2>3 DEF SstIsStarted, SstEndsFirst, ListenerInv, DrainInv, FailureInv
<1> QED
  BY <1>1, <1>2

\* The catch of session.start().
LEMMA RejectStartDInv ==
  ASSUME DInv, daemon = "up", start \in {"preflight", "pending"}, RejectStart,
         UNCHANGED <<stopper, daemon>>,
         started' \in BOOLEAN, sst' \in {"none", "up", "gone"}, SstIsStarted'
  PROVE  DInv'
<1> USE DEF DInv, TypeOK, calls, listener
<1>1. /\ start' = IF stopper = "idle" /\ finisher = "idle" THEN "failed" ELSE "aborted"
      /\ meta' = "failed"
  BY DEF RejectStart
<1>2. CASE finisher = "idle"
  <2>1. /\ finisher' = "server" /\ code' = 1 /\ shuttingDown' = TRUE
        /\ server' = IF server = "listening" THEN "closing" ELSE server
        /\ AbortWaits
    BY <1>2 DEF RejectStart, ServerStop
  <2>2. TypeOK'
    BY <1>1, <2>1, AbortWaitsTypes
  <2>3. DrainInv'
    BY <2>1, AbortWaitsTypes DEF DrainInv
  <2>4. ListenerInv'
    BY <1>2, <2>1 DEF ListenerInv
  <2>5. SstEndsFirst' /\ FailureInv'
    BY <1>1, <2>1 DEF SstEndsFirst, FailureInv
  <2> QED
    BY <2>2, <2>3, <2>4, <2>5
<1>3. CASE finisher # "idle"
  <2>1. UNCHANGED <<finisher, code, calls, listener>> /\ start' = "aborted"
    BY <1>1, <1>3 DEF RejectStart
  <2> QED
    BY <1>1, <2>1 DEF SstEndsFirst, ListenerInv, DrainInv, FailureInv
<1> QED
  BY <1>2, <1>3

LEMMA SessionStepDInv ==
  ASSUME DInv, SessionStep
  PROVE  DInv'
<1> USE DEF DInv, TypeOK, calls, listener, session, ending
<1>1. CASE Spawn
  BY <1>1 DEF Spawn, SstIsStarted, SstEndsFirst, ListenerInv, DrainInv, FailureInv
<1>2. CASE SpawnFails
  <2>1. daemon = "up" /\ start = "preflight" /\ RejectStart /\ UNCHANGED <<stopper, daemon>>
    BY <1>2 DEF SpawnFails
  <2>2. \/ UNCHANGED <<started, sst>>
        \/ started' = TRUE /\ sst' \in {"none", "up"}
    BY <1>2 DEF SpawnFails
  <2>3. started' \in BOOLEAN /\ sst' \in {"none", "up", "gone"}
    BY <2>2
  <2>4. SstIsStarted'
    BY <2>2 DEF SstIsStarted
  <2> QED
    BY <2>1, <2>3, <2>4, RejectStartDInv
<1>3. CASE Ready
  BY <1>3 DEF Ready, SstIsStarted, SstEndsFirst, ListenerInv, DrainInv, FailureInv
<1>4. CASE StartRejected
  <2>1. /\ daemon = "up" /\ start = "pending" /\ RejectStart
        /\ UNCHANGED <<started, sst, stopper, daemon>>
    BY <1>4 DEF StartRejected
  <2>2. SstIsStarted'
    BY <2>1 DEF SstIsStarted
  <2> QED
    BY <2>1, <2>2, RejectStartDInv
<1>5. CASE SstExits
  BY <1>5 DEF SstExits, SstIsStarted, SstEndsFirst, ListenerInv, DrainInv, FailureInv
<1> QED
  BY <1>1, <1>2, <1>3, <1>4, <1>5 DEF SessionStep

\* The last two steps of the daemon, and its violent end.
LEMMA EndDInv ==
  ASSUME DInv, ServerStopped \/ Finished \/ Killed
  PROVE  DInv'
<1> USE DEF DInv, TypeOK, calls, listener, session
<1>1. CASE ServerStopped
  <2>1. /\ daemon = "up" /\ finisher = "server"
        /\ server = "closing" => \A c \in Clients : Closed(c)
        /\ server' = IF server = "closing" THEN "closed" ELSE server
        /\ finisher' = "session"
        /\ UNCHANGED <<calls, shuttingDown, session, stopper, code>>
    BY <1>1 DEF ServerStopped
  <2>2. shuttingDown
    BY <2>1 DEF ListenerInv
  <2>3. \/ UNCHANGED <<meta, daemon>>
        \/ /\ ~started /\ daemon' = "exited"
           /\ meta' = IF code = 0 THEN "stopped" ELSE meta
    BY <1>1 DEF ServerStopped, Exit
  <2>4. stopper = "idle" => server = "closing"
    BY <2>1, <2>2 DEF ListenerInv
  <2>5. DrainInv'
    BY <2>1, <2>2, <2>3, <2>4 DEF DrainInv
  <2> QED
    BY <2>1, <2>2, <2>3, <2>5 DEF SstIsStarted, SstEndsFirst, ListenerInv, FailureInv
<1>2. CASE Finished
  <2>1. /\ daemon = "up" /\ finisher = "session" /\ (~started \/ sst # "up")
        /\ started' = FALSE /\ daemon' = "exited"
        /\ meta' = IF code = 0 THEN "stopped" ELSE meta
        /\ UNCHANGED <<calls, listener, start, sst, stopper, finisher, code>>
    BY <1>2 DEF Finished, Exit
  <2>2. sst' # "up" /\ shuttingDown
    BY <2>1 DEF SstIsStarted, ListenerInv
  <2>3. TypeOK' /\ SstIsStarted' /\ SstEndsFirst'
    BY <2>1, <2>2 DEF SstIsStarted, SstEndsFirst
  <2>4. ListenerInv' /\ DrainInv'
    BY <2>1, <2>2 DEF ListenerInv, DrainInv
  <2>5. FailureInv'
    BY <2>1 DEF FailureInv
  <2> QED
    BY <2>3, <2>4, <2>5
<1>3. CASE Killed
  BY <1>3 DEF Killed, SstIsStarted, SstEndsFirst, ListenerInv, DrainInv, FailureInv
<1> QED
  BY <1>1, <1>2, <1>3

LEMMA StepDInv == DInv /\ [Next]_vars => DInv'
<1> SUFFICES ASSUME DInv, [Next]_vars PROVE DInv'
  OBVIOUS
<1>1. CASE \E c \in Clients : ClientStep(c) \/ ConnectionStep(c)
  BY <1>1, ClientStepDInv, ConnectionStepDInv
<1>2. CASE Shutdown \/ Signal
  BY <1>2, FinishDInv DEF Shutdown, Signal
<1>3. CASE ServerStopped \/ Finished \/ Killed
  BY <1>3, EndDInv
<1>4. CASE SessionStep
  BY <1>4, SessionStepDInv
<1>5. CASE UNCHANGED vars
  BY <1>5 DEF vars, calls, listener, session, ending, DInv, TypeOK, SstIsStarted,
              SstEndsFirst, ListenerInv, DrainInv, FailureInv
<1> QED
  BY <1>1, <1>2, <1>3, <1>4, <1>5 DEF Next

LEMMA AlwaysDInv == Spec => []DInv
  BY InitDInv, StepDInv, PTL DEF Spec

\* The type of every variable, for any number of clients.
THEOREM DaemonTypes == Spec => []TypeOK
  BY AlwaysDInv, PTL DEF DInv

\* Whatever stop_session, signals and a failing start do to each other, the
\* daemon does not exit before its SST.
THEOREM SstIsNotLeftBehind == Spec => []SstEndsFirst
  BY AlwaysDInv, PTL DEF DInv

\* Only two steps end the daemon by its own hand.
LEMMA ExitsOnly ==
  ASSUME Next, Up, daemon' = "exited"
  PROVE  ServerStopped \/ Finished
<1> USE DEF calls, listener, session, ending
<1>1. CASE \E c \in Clients : ClientStep(c) \/ ConnectionStep(c)
  BY <1>1 DEF ClientStep, ConnectionStep, Connect, ConnectFails, Call, Leave, Lost, Refuse,
              Dispatch, AnswerAtOnce, CallEnds, HangUp, StopSession, Stopped
<1>2. CASE Shutdown \/ Signal \/ Killed
  BY <1>2 DEF Shutdown, Signal, Killed
<1>3. CASE SessionStep
  BY <1>3 DEF SessionStep, Spawn, SpawnFails, Ready, StartRejected, SstExits
<1> QED
  BY <1>1, <1>2, <1>3 DEF Next

\* For any number of clients: the daemon does not exit while somebody is in a
\* wait, nor, without a stop_session, before everybody still there is answered.
THEOREM NobodyLosesACall == Spec => NobodyIsCutOff
<1>1. ASSUME DInv, [Next]_vars
      PROVE  [Up /\ daemon' = "exited" =>
                \A c \in Clients :
                  /\ handler[c] # "wait"
                  /\ stopper = "idle" /\ handler[c] # "none" => caller[c] = "left"]_vars
  <2>1. SUFFICES ASSUME Next, Up, daemon' = "exited", NEW c \in Clients
                 PROVE  /\ handler[c] # "wait"
                        /\ stopper = "idle" /\ handler[c] # "none" => caller[c] = "left"
    BY <1>1
  <2>2. finisher \in {"server", "session"} /\ shuttingDown
    BY <1>1, <2>1, ExitsOnly DEF ServerStopped, Finished, DInv, ListenerInv
  <2>3. handler[c] # "wait"
    BY <1>1, <2>2 DEF DInv, DrainInv
  <2>4. ASSUME stopper = "idle" PROVE Closed(c)
    <3>1. CASE finisher = "session"
      BY <1>1, <2>1, <2>4, <3>1 DEF DInv, DrainInv
    <3>2. CASE finisher = "server"
      <4>1. ServerStopped
        BY <2>1, <3>2, ExitsOnly DEF Finished
      <4>2. server = "closing"
        BY <1>1, <2>2, <2>4, <3>2 DEF DInv, TypeOK, ListenerInv
      <4> QED
        BY <2>1, <4>1, <4>2 DEF ServerStopped
    <3> QED
      BY <2>2, <3>1, <3>2
  <2> QED
    BY <2>3, <2>4
<1> QED
  BY <1>1, AlwaysDInv, PTL DEF Spec, NobodyIsCutOff

\* A start that failed first is what meta.json and the exit code say at the end.
THEOREM FailuresStay == Spec => []FailureIsKept
<1>1. DInv => FailureIsKept
  BY DEF DInv, FailureInv, FailureIsKept
<1> QED
  BY <1>1, AlwaysDInv, PTL
=============================================================================
