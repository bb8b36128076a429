-------------------------- MODULE SstSessionProofs --------------------------
(***************************************************************************)
(* The session core is type correct, loses no wake-up, and ends every wait *)
(* when the stream is lost, for any number of callers and commands; and a  *)
(* wait that returns has seen what it waits for.                           *)
(***************************************************************************)
EXTENDS SstSessionHistory, TLAPS

\* A call that waits on a command waits on a real one.
WaitsOnACommand ==
  \A c \in Clients : call[c].pc \in {"command", "exit", "running"} => call[c].cmd \in Commands

IInv == TypeOK /\ WaitsOnACommand /\ NoLostWakeup /\ DisconnectEndsEveryWait

-----------------------------------------------------------------------------
\* The record operators stay within the type of a call.
LEMMA CallTypes ==
  ASSUME NEW k \in CallRecords
  PROVE  /\ NoCall \in CallRecords
         /\ \A r \in Results : Settle(k, r) \in CallRecords
         /\ \A p \in PCs : AtPc(k, p) \in CallRecords
  BY DEF CallRecords, NoCall, Settle, AtPc, PCs, Results

\* The fields that the record operators set.
LEMMA CallFields ==
  ASSUME NEW k \in CallRecords
  PROVE  /\ NoCall.pc = "idle" /\ NoCall.cmd = NoCommand
         /\ \A r \in Results : Settle(k, r).pc = "idle"
         /\ \A p \in PCs : AtPc(k, p).pc = p /\ AtPc(k, p).cmd = k.cmd
  BY DEF CallRecords, NoCall, Settle, AtPc, PCs, Results

\* A notified call is a call; it never starts to wait on another command.
LEMMA NotifyType ==
  ASSUME NEW k \in CallRecords, NEW to \in States
  PROVE  /\ Notify(k, to) \in CallRecords
         /\ Notify(k, to).pc \in {"idle", "woken", "again", k.pc}
         /\ Notify(k, to).pc \in {"machine", "command", "exit", "running"}
              => Notify(k, to) = k
         /\ k.pc = "machine" /\ to = "ready" => Notify(k, to).pc = "woken"
         /\ k.pc # "woken" /\ to = "disconnected" => Notify(k, to).pc = "idle"
<1>1. /\ \A r \in Results : Settle(k, r) \in CallRecords /\ Settle(k, r).pc = "idle"
      /\ \A p \in PCs : AtPc(k, p) \in CallRecords /\ AtPc(k, p).pc = p
  BY CallTypes, CallFields
<1>2. k.pc \in PCs
  BY DEF CallRecords
<1> HIDE DEF Settle, AtPc, CallRecords
<1>3. QED
  BY <1>1, <1>2 DEF Notify, States, PCs, Results

LEMMA NotifyStatusType ==
  ASSUME NEW k \in CallRecords, NEW n \in Commands, NEW s \in Statuses
  PROVE  /\ NotifyStatus(k, n, s) \in CallRecords
         /\ NotifyStatus(k, n, s).pc \in {"idle", "woken", "running", k.pc}
         /\ NotifyStatus(k, n, s).pc \in {"machine", "command", "exit"}
              => NotifyStatus(k, n, s) = k
         /\ NotifyStatus(k, n, s).pc = "running" => NotifyStatus(k, n, s).cmd = k.cmd
         /\ NotifyStatus(k, n, s).pc = "running" => k.pc \in {"exit", "running"}
         /\ k.pc = "idle" => NotifyStatus(k, n, s) = k
         /\ k.pc = "command" /\ k.cmd = n /\ s = "running"
              => NotifyStatus(k, n, s).pc = "woken"
<1>1. /\ \A r \in Results : Settle(k, r) \in CallRecords /\ Settle(k, r).pc = "idle"
      /\ \A p \in PCs : /\ AtPc(k, p) \in CallRecords /\ AtPc(k, p).pc = p
                        /\ AtPc(k, p).cmd = k.cmd
  BY CallTypes, CallFields
<1>2. k.pc \in PCs
  BY DEF CallRecords
<1>3. QED
  BY <1>1, <1>2 DEF NotifyStatus, Statuses, PCs, Results

-----------------------------------------------------------------------------
\* A transition to any state but "disconnected" keeps the invariant's parts,
\* provided the registry does not gain a running command.
LEMMA TransitionKeeps ==
  ASSUME IInv, NEW to \in States, Transition(to),
         registry' \in [Commands -> Statuses \cup {Absent}],
         \A n \in Commands : registry'[n] = "running" => registry[n] = "running",
         to = "disconnected" => \A c \in Clients : call[c].pc # "woken",
         to # "disconnected" => state # "disconnected"
  PROVE  /\ state' \in States /\ starting' \in {"waiting", "ok", "failed"}
         /\ call' \in [Clients -> CallRecords]
         /\ WaitsOnACommand' /\ NoLostWakeup' /\ DisconnectEndsEveryWait'
<1>1. CASE to = state
  BY <1>1 DEF Transition, IInv, TypeOK, WaitsOnACommand, NoLostWakeup,
     DisconnectEndsEveryWait, Waiting
<1>2. CASE to # state
  <2>1. /\ state' = to /\ starting' = NotifyStart(to)
        /\ call' = [c \in Clients |-> Notify(call[c], to)]
    BY <1>2 DEF Transition
  <2>2. /\ state' \in States /\ starting' \in {"waiting", "ok", "failed"}
        /\ starting' = "waiting" => state' \notin {"ready", "error"}
    BY <2>1 DEF IInv, TypeOK, NotifyStart, NoLostWakeup
  <2>3. \A c \in Clients :
          /\ call[c] \in CallRecords
          /\ call'[c] = Notify(call[c], to)
          /\ call'[c] \in CallRecords
          /\ call'[c].pc \in {"machine", "command", "exit", "running"} => call'[c] = call[c]
          /\ call[c].pc = "machine" /\ to = "ready" => call'[c].pc = "woken"
          /\ call[c].pc # "woken" /\ to = "disconnected" => call'[c].pc = "idle"
    BY <2>1, NotifyType DEF IInv, TypeOK
  <2>4. call' \in [Clients -> CallRecords]
    BY <2>1, <2>3
  <2>5. WaitsOnACommand'
    BY <2>3 DEF IInv, WaitsOnACommand
  <2>6. NoLostWakeup'
    BY <2>1, <2>2, <2>3 DEF IInv, NoLostWakeup, WaitsOnACommand
  <2>7. DisconnectEndsEveryWait'
    BY <2>1, <2>3 DEF DisconnectEndsEveryWait, Waiting
  <2>8. QED
    BY <2>2, <2>4, <2>5, <2>6, <2>7
<1>3. QED
  BY <1>1, <1>2

\* A change of one command's status keeps the invariant.
LEMMA ApplyStatusKeeps ==
  ASSUME IInv, NEW n \in Commands, NEW s \in Statuses, ApplyStatus(n, s),
         UNCHANGED <<state, starting>>
  PROVE  /\ registry' \in [Commands -> Statuses \cup {Absent}]
         /\ call' \in [Clients -> CallRecords]
         /\ WaitsOnACommand' /\ NoLostWakeup' /\ DisconnectEndsEveryWait'
<1>1. /\ registry' = [registry EXCEPT ![n] = s]
      /\ call' = [c \in Clients |-> NotifyStatus(call[c], n, s)]
  BY DEF ApplyStatus
<1>2. registry' \in [Commands -> Statuses \cup {Absent}]
  BY <1>1 DEF IInv, TypeOK
<1>3. \A c \in Clients :
        /\ call[c] \in CallRecords
        /\ call'[c] \in CallRecords
        /\ call'[c].pc \in {"machine", "command", "exit"} => call'[c] = call[c]
        /\ call'[c].pc = "running" => call'[c].cmd = call[c].cmd
        /\ call'[c].pc = "running" => call[c].pc \in {"exit", "running"}
        /\ call[c].pc = "idle" => call'[c] = call[c]
        /\ call[c].pc = "command" /\ call[c].cmd = n /\ s = "running"
             => call'[c].pc = "woken"
  BY <1>1, NotifyStatusType DEF IInv, TypeOK
<1>4. call' \in [Clients -> CallRecords]
  BY <1>1, <1>3
<1>5. WaitsOnACommand'
  BY <1>3 DEF IInv, WaitsOnACommand
<1>6. ASSUME NEW c \in Clients
      PROVE  /\ call'[c].pc = "machine" => state' # "ready"
             /\ call'[c].pc = "command" => registry'[call'[c].cmd] # "running"
  <2>1. call'[c].pc = "machine" => state' # "ready"
    BY <1>3 DEF IInv, NoLostWakeup
  <2>2. ASSUME call'[c].pc = "command"
        PROVE  registry'[call'[c].cmd] # "running"
    <3>1. call'[c] = call[c] /\ call[c].cmd \in Commands /\ registry[call[c].cmd] # "running"
      BY <2>2, <1>3 DEF IInv, NoLostWakeup, WaitsOnACommand
    <3>2. call[c].cmd = n => s # "running"
      BY <2>2, <1>3, <3>1
    <3>3. QED
      BY <1>1, <3>1, <3>2 DEF IInv, TypeOK
  <2>3. QED
    BY <2>1, <2>2
<1>7. NoLostWakeup'
  BY <1>6 DEF IInv, NoLostWakeup
<1>8. DisconnectEndsEveryWait'
  BY <1>3 DEF IInv, DisconnectEndsEveryWait, Waiting
<1>9. QED
  BY <1>2, <1>4, <1>5, <1>7, <1>8

\* A step that only changes one call, in a session that is not disconnected or
\* to a call that does not wait, keeps the invariant.
LEMMA OneCallKeeps ==
  ASSUME IInv, NEW c \in Clients, NEW k \in CallRecords,
         call' = [call EXCEPT ![c] = k],
         UNCHANGED <<state, registry, chunk, sources, starting>>,
         k.pc \in {"command", "exit", "running"} => k.cmd \in Commands,
         k.pc = "machine" => state # "ready",
         k.pc = "command" => registry[k.cmd] # "running",
         k.pc # "idle" => state # "disconnected"
  PROVE  IInv'
<1>1. \A d \in Clients : call'[d] = IF d = c THEN k ELSE call[d]
  BY DEF IInv, TypeOK
<1>2. TypeOK'
  BY DEF IInv, TypeOK
<1>3. WaitsOnACommand'
  BY <1>1 DEF IInv, WaitsOnACommand
<1>4. NoLostWakeup'
  BY <1>1 DEF IInv, NoLostWakeup
<1>5. DisconnectEndsEveryWait'
  BY <1>1 DEF IInv, DisconnectEndsEveryWait, Waiting
<1>6. QED
  BY <1>2, <1>3, <1>4, <1>5 DEF IInv

\* What the continuation of waitForReady makes of its call.
LEMMA AwaitNextType ==
  ASSUME TypeOK, NEW k \in CallRecords, NEW n \in Snapshot(k)
  PROVE  /\ AwaitNext(k, n) \in CallRecords
         /\ AwaitNext(k, n).pc \in {"idle", "woken", "command"}
         /\ AwaitNext(k, n).pc = "command" =>
              AwaitNext(k, n).cmd = n /\ n \in Commands /\ registry[n] # "running"
<1> DEFINE rest == [k EXCEPT !.todo = Snapshot(k) \ {n}, !.listed = TRUE, !.cmd = n]
<1>1. n \in Commands /\ Snapshot(k) \subseteq Commands
  BY DEF Snapshot, Registered, CallRecords
<1>2. rest \in CallRecords /\ rest.cmd = n
  BY <1>1 DEF CallRecords
<1> HIDE DEF rest
<1>3. /\ AtPc(rest, "woken") \in CallRecords /\ AtPc(rest, "woken").pc = "woken"
      /\ AtPc(rest, "command") \in CallRecords /\ AtPc(rest, "command").pc = "command"
      /\ AtPc(rest, "command").cmd = n
  BY <1>2, CallTypes, CallFields DEF PCs
<1>4. Settle(k, "notFound") \in CallRecords /\ Settle(k, "notFound").pc = "idle"
  BY CallTypes, CallFields DEF Results
<1>5. AwaitNext(k, n) = CASE registry[n] = Absent -> Settle(k, "notFound")
                          [] registry[n] = "running" -> AtPc(rest, "woken")
                          [] OTHER -> AtPc(rest, "command")
  BY DEF AwaitNext, rest
<1>6. QED
  BY <1>1, <1>3, <1>4, <1>5

-----------------------------------------------------------------------------
LEMMA InitIInv == Init => IInv
<1> SUFFICES ASSUME Init PROVE IInv
  OBVIOUS
<1>1. NoCall \in CallRecords /\ NoCall.pc = "idle"
  BY DEF NoCall, CallRecords, PCs, Results
<1>2. \A c \in Clients : call[c] = NoCall
  BY DEF Init
<1>3. TypeOK
  BY <1>1 DEF Init, TypeOK, States, Statuses
<1>4. QED
  BY <1>1, <1>2, <1>3 DEF IInv, WaitsOnACommand, NoLostWakeup, DisconnectEndsEveryWait,
     Waiting, Init

\* The head of a chunk is an event, and its tail a chunk.
LEMMA ChunkHead ==
  ASSUME TypeOK, chunk # <<>>
  PROVE  Head(chunk) \in StreamEvents /\ Tail(chunk) \in Seq(StreamEvents)
  BY DEF TypeOK

\* Resynchronising makes no command run.
LEMMA SyncKeeps ==
  ASSUME TypeOK, NEW devs \in SUBSET Commands
  PROVE  /\ SyncRegistry(devs) \in [Commands -> Statuses \cup {Absent}]
         /\ \A n \in Commands : SyncRegistry(devs)[n] = "running" => registry[n] = "running"
  BY DEF TypeOK, SyncRegistry, Statuses, Absent

LEMMA HandleStreamEventKeeps == IInv /\ HandleStreamEvent => IInv'
<1> SUFFICES ASSUME IInv, HandleStreamEvent PROVE IInv'
  OBVIOUS
<1> DEFINE ev == Head(chunk)
<1>1. ev \in StreamEvents /\ chunk' \in Seq(StreamEvents) /\ sources' = sources
  BY ChunkHead DEF HandleStreamEvent, IInv
<1>2. /\ registry' \in [Commands -> Statuses \cup {Absent}]
      /\ \A n \in Commands : registry'[n] = "running" => registry[n] = "running"
  <2>1. CASE ev.type = "complete"
    <3>1. ev.devs \in SUBSET Commands
      BY <1>1, <2>1 DEF StreamEvents
    <3>2. registry' = SyncRegistry(ev.devs)
      BY <2>1 DEF HandleStreamEvent, HandleDeploy, HandleComplete, HandleFailed
    <3>3. QED
      BY <3>1, <3>2, SyncKeeps DEF IInv
  <2>2. CASE ev.type # "complete"
    BY <2>2 DEF HandleStreamEvent, HandleDeploy, HandleComplete, HandleFailed, IInv, TypeOK
  <2>3. QED
    BY <2>1, <2>2
<1>3. CASE \E to \in {"busy", "ready", "error"} : state # "disconnected" /\ Transition(to)
  <2>1. PICK to \in {"busy", "ready", "error"} : state # "disconnected" /\ Transition(to)
    BY <1>3
  <2>2. to \in States /\ to # "disconnected"
    BY DEF States
  <2>3. /\ state' \in States /\ starting' \in {"waiting", "ok", "failed"}
        /\ call' \in [Clients -> CallRecords]
        /\ WaitsOnACommand' /\ NoLostWakeup' /\ DisconnectEndsEveryWait'
    BY <1>2, <2>1, <2>2, TransitionKeeps
  <2>4. QED
    BY <1>1, <1>2, <2>3 DEF IInv, TypeOK
<1>4. CASE UNCHANGED <<state, starting, call>>
  BY <1>1, <1>2, <1>4 DEF IInv, TypeOK, WaitsOnACommand, NoLostWakeup,
     DisconnectEndsEveryWait, Waiting
<1>5. QED
  BY <1>3, <1>4 DEF HandleStreamEvent, HandleDeploy, HandleComplete, HandleFailed

\* One step per action of Next.
LEMMA NextKeeps == IInv /\ [Next]_vars => IInv'
<1> SUFFICES ASSUME IInv, [Next]_vars PROVE IInv'
  OBVIOUS
<1>1. CASE ReceiveChunk
  <2>1. chunk' \in Seq(StreamEvents)
    BY <1>1, MaxChunkAssumption DEF ReceiveChunk
  <2>2. QED
    BY <1>1, <2>1 DEF ReceiveChunk, IInv, TypeOK, WaitsOnACommand, NoLostWakeup,
       DisconnectEndsEveryWait, Waiting
<1>2. CASE HandleStreamEvent
  BY <1>2, HandleStreamEventKeeps
<1>3. CASE StreamError
  <2>1. /\ Transition("disconnected") /\ "disconnected" \in States
        /\ \A c \in Clients : call[c].pc # "woken"
        /\ UNCHANGED <<registry, chunk, sources>>
    BY <1>3 DEF StreamError, Quiet, States
  <2>2. /\ state' \in States /\ starting' \in {"waiting", "ok", "failed"}
        /\ call' \in [Clients -> CallRecords]
        /\ WaitsOnACommand' /\ NoLostWakeup' /\ DisconnectEndsEveryWait'
    BY <2>1, TransitionKeeps DEF IInv, TypeOK
  <2>3. QED
    BY <2>1, <2>2 DEF IInv, TypeOK
<1>4. CASE ParentExit \/ Stop
  BY <1>4 DEF ParentExit, Stop, IInv, TypeOK, WaitsOnACommand, NoLostWakeup,
     DisconnectEndsEveryWait, Waiting
<1>5. ASSUME NEW n \in Commands, MarkStarting(n) \/ \E s \in Statuses : PaneEvent(n, s)
      PROVE  IInv'
  <2>1. PICK t \in Statuses : ApplyStatus(n, t) /\ UNCHANGED <<state, chunk, sources, starting>>
    BY <1>5 DEF MarkStarting, PaneEvent, Statuses
  <2>2. /\ registry' \in [Commands -> Statuses \cup {Absent}]
        /\ call' \in [Clients -> CallRecords]
        /\ WaitsOnACommand' /\ NoLostWakeup' /\ DisconnectEndsEveryWait'
    BY <2>1, ApplyStatusKeeps
  <2>3. QED
    BY <2>1, <2>2 DEF IInv, TypeOK
<1>6. ASSUME NEW c \in Clients,
             RejectDisconnected(c) \/ WaitForReady(c) \/ WaitForNextReady(c)
      PROVE  IInv'
  <2>1. /\ call[c] \in CallRecords /\ NoCall \in CallRecords
        /\ \A p \in PCs : AtPc(NoCall, p) \in CallRecords /\ AtPc(NoCall, p).pc = p
        /\ Settle(call[c], "disconnected") \in CallRecords
        /\ Settle(call[c], "disconnected").pc = "idle"
    BY CallTypes, CallFields DEF IInv, TypeOK, Results
  <2>2. CASE RejectDisconnected(c)
    BY <2>1, <2>2, OneCallKeeps DEF RejectDisconnected, BeginCall
  <2>3. CASE WaitForReady(c)
    <3>1. PICK p \in {"woken", "machine"} : /\ state # "disconnected"
                                            /\ p = "machine" => state # "ready"
                                            /\ BeginCall(c, AtPc(NoCall, p))
      BY <2>3 DEF WaitForReady
    <3>2. AtPc(NoCall, p) \in CallRecords /\ AtPc(NoCall, p).pc = p
      BY <2>1 DEF PCs
    <3>3. QED
      BY <3>1, <3>2, OneCallKeeps DEF BeginCall
  <2>4. CASE WaitForNextReady(c)
    <3>1. AtPc(NoCall, "busy") \in CallRecords /\ AtPc(NoCall, "busy").pc = "busy"
      BY <2>1 DEF PCs
    <3>2. QED
      BY <2>4, <3>1, OneCallKeeps DEF WaitForNextReady, BeginCall
  <2>5. QED
    BY <1>6, <2>2, <2>3, <2>4
<1>7. ASSUME NEW c \in Clients, NEW n \in Commands, WaitForNextReadyOf(c, n)
      PROVE  IInv'
  <2>1. Settle(call[c], "notFound") \in CallRecords /\ Settle(call[c], "notFound").pc = "idle"
    BY CallTypes, CallFields DEF IInv, TypeOK, Results
  <2> DEFINE k == [NoCall EXCEPT !.pc = "exit", !.cmd = n]
  <2>2. k \in CallRecords /\ k.pc = "exit" /\ k.cmd = n
    BY DEF NoCall, CallRecords, PCs, Results
  <2> HIDE DEF k
  <2>3. \/ BeginCall(c, Settle(call[c], "notFound"))
        \/ state # "disconnected" /\ BeginCall(c, k)
    BY <1>7 DEF WaitForNextReadyOf, k
  <2>4. QED
    BY <2>1, <2>2, <2>3, OneCallKeeps DEF BeginCall
<1>8. ASSUME NEW c \in Clients, Resume(c) PROVE IInv'
  <2>1. call[c] \in CallRecords /\ call[c].pc = "woken"
    BY <1>8 DEF Resume, IInv, TypeOK
  <2>2. state # "disconnected"
    BY <2>1 DEF IInv, DisconnectEndsEveryWait, Waiting
  <2>3. CASE \E r \in Results : call' = [call EXCEPT ![c] = Settle(@, r)]
    <3>1. PICK r \in Results : call' = [call EXCEPT ![c] = Settle(@, r)]
      BY <2>3
    <3>2. Settle(call[c], r) \in CallRecords /\ Settle(call[c], r).pc = "idle"
      BY <2>1, CallTypes, CallFields
    <3>3. QED
      BY <1>8, <3>1, <3>2, OneCallKeeps DEF Resume
  <2>4. CASE \E n \in Snapshot(call[c]) : call' = [call EXCEPT ![c] = AwaitNext(@, n)]
    <3>1. PICK n \in Snapshot(call[c]) : call' = [call EXCEPT ![c] = AwaitNext(@, n)]
      BY <2>4
    <3>2. /\ AwaitNext(call[c], n) \in CallRecords
          /\ AwaitNext(call[c], n).pc \in {"idle", "woken", "command"}
          /\ AwaitNext(call[c], n).pc = "command" =>
               AwaitNext(call[c], n).cmd = n /\ n \in Commands /\ registry[n] # "running"
      BY <2>1, AwaitNextType DEF IInv
    <3>3. QED
      BY <1>8, <2>2, <3>1, <3>2, OneCallKeeps DEF Resume
  <2>5. QED
    BY <1>8, <2>3, <2>4 DEF Resume, Results
<1>9. ASSUME NEW c \in Clients, Timeout(c) PROVE IInv'
  <2>1. Settle(call[c], "failed") \in CallRecords /\ Settle(call[c], "failed").pc = "idle"
    BY CallTypes, CallFields DEF IInv, TypeOK, Results
  <2>2. QED
    BY <1>9, <2>1, OneCallKeeps DEF Timeout
<1>10. CASE UNCHANGED vars
  BY <1>10 DEF vars, IInv, TypeOK, WaitsOnACommand, NoLostWakeup,
     DisconnectEndsEveryWait, Waiting
<1>11. QED
  BY <1>1, <1>2, <1>3, <1>4, <1>5, <1>6, <1>7, <1>8, <1>9, <1>10 DEF Next

\* The strengthened invariant holds in every reachable state.
LEMMA SpecIInv == Spec => []IInv
  BY InitIInv, NextKeeps, PTL DEF Spec

\* Every variable keeps its type.
THEOREM TypeCorrect == Spec => []TypeOK
<1>1. IInv => TypeOK
  BY DEF IInv
<1>2. QED
  BY <1>1, SpecIInv, PTL

\* No wait for READY or for a running command outlives what it waits for, and
\* start() does not outlive the first outcome of the deploy.
THEOREM WakeupsAreNotLost == Spec => []NoLostWakeup
<1>1. IInv => NoLostWakeup
  BY DEF IInv
<1>2. QED
  BY <1>1, SpecIInv, PTL

\* No call waits in a session that has lost its stream.
THEOREM NobodyWaitsDisconnected == Spec => []DisconnectEndsEveryWait
<1>1. IInv => DisconnectEndsEveryWait
  BY DEF IInv
<1>2. QED
  BY <1>1, SpecIInv, PTL

\* A replayed CompleteEvent keeps the status of every command it still declares.
THEOREM ResyncLosesNothing == Spec => ResyncKeepsStatuses
<1>1. ASSUME IInv, HandleStreamEvent, NEW n \in Commands, registry[n] # Absent,
             registry'[n] # Absent
      PROVE  registry'[n] = registry[n]
  <2>1. registry' = registry \/ \E devs \in SUBSET Commands : registry' = SyncRegistry(devs)
    BY <1>1, ChunkHead
       DEF HandleStreamEvent, HandleDeploy, HandleComplete, HandleFailed, StreamEvents, IInv
  <2>2. QED
    BY <1>1, <2>1 DEF SyncRegistry
<1>2. IInv =>
        [HandleStreamEvent =>
           \A n \in Commands :
             registry[n] # Absent /\ registry'[n] # Absent => registry'[n] = registry[n]]_vars
  BY <1>1
<1>3. QED
  BY <1>2, SpecIInv, PTL DEF ResyncKeepsStatuses

-----------------------------------------------------------------------------
(* The observations of SstSessionHistory keep step with the phase of a call. *)

Observations ==
  [kind : {"none", "ready", "next", "nextOf"}, opened : BOOLEAN, closed : BOOLEAN,
   owed : SUBSET Autostart]

\* What has been seen of a call that waits, at each of its phases; a command it
\* is still owed is among those it is going to wait for.
Phase(k, o, down) ==
  /\ k.result = "none" /\ o.kind = KindOf(k.pc)
  /\ k.pc \in {"again", "running"} => o.opened
  /\ k.pc \in {"woken", "command"} => o.closed
  /\ o.kind = "ready" => o.owed \subseteq down
  /\ k.pc = "machine" => ~k.listed
  /\ k.pc = "woken" /\ k.listed => o.owed \subseteq k.todo
  /\ k.pc = "command" => k.listed /\ o.owed \subseteq k.todo \cup {k.cmd}

\* ... and of one that has returned.
Promise(o) ==
  /\ o.kind \in {"next", "nextOf"} => o.opened /\ o.closed
  /\ o.kind = "ready" => o.closed /\ o.owed = {}

Seen(k, o, down) ==
  /\ k.pc # "idle" => Phase(k, o, down)
  /\ k.result = "ok" => Promise(o)

HInv ==
  /\ observed \in [Clients -> Observations]
  /\ \A c \in Clients : Seen(call[c], observed[c], Down)

-----------------------------------------------------------------------------
LEMMA NothingType ==
  Nothing \in Observations /\ Nothing.kind = "none"
  BY DEF Nothing, Observations

LEMMA AdvanceFields ==
  ASSUME NEW o \in Observations, NEW opens \in BOOLEAN, NEW closes \in BOOLEAN
  PROVE  /\ Advance(o, opens, closes) \in Observations
         /\ Advance(o, opens, closes).kind = o.kind
         /\ o.opened \/ opens => Advance(o, opens, closes).opened
         /\ o.closed \/ (o.opened /\ closes) => Advance(o, opens, closes).closed
  BY DEF Advance, Observations

\* What a step adds to an observation.
LEMMA ExtendedFields ==
  ASSUME NEW o \in Observations, NEW k
  PROVE  /\ Extended(o, k) \in Observations
         /\ Extended(o, k).kind = o.kind
         /\ o.opened => Extended(o, k).opened
         /\ o.closed => Extended(o, k).closed
         /\ o.kind = "next" /\ state' = "busy" => Extended(o, k).opened
         /\ o.kind = "next" /\ o.opened /\ state' = "ready" => Extended(o, k).closed
         /\ o.kind = "nextOf" /\ registry'[k.cmd] \in {"starting", "stopped", "errored"}
              => Extended(o, k).opened
         /\ o.kind = "nextOf" /\ o.opened /\ registry'[k.cmd] = "running"
              => Extended(o, k).closed
         /\ o.kind = "ready" => Extended(o, k).owed = o.owed \cap Down'
         /\ o.kind = "ready" /\ state' = "ready" => Extended(o, k).closed
<1>1. CASE o.kind = "next"
  <2>1. Extended(o, k) = Advance(o, state' = "busy", state' = "ready")
    BY <1>1 DEF Extended
  <2> QED
    BY <1>1, <2>1, AdvanceFields
<1>2. CASE o.kind = "nextOf"
  <2> DEFINE opens == registry'[k.cmd] \in {"starting", "stopped", "errored"}
             closes == registry'[k.cmd] = "running"
  <2>1. Extended(o, k) = Advance(o, opens, closes)
    BY <1>2 DEF Extended
  <2>2. opens \in BOOLEAN /\ closes \in BOOLEAN
    OBVIOUS
  <2> HIDE DEF opens, closes
  <2>3. /\ Extended(o, k) \in Observations /\ Extended(o, k).kind = o.kind
        /\ o.opened \/ opens => Extended(o, k).opened
        /\ o.closed \/ (o.opened /\ closes) => Extended(o, k).closed
    BY <2>1, <2>2, AdvanceFields
  <2> QED
    BY <1>2, <2>3 DEF opens, closes
<1>3. CASE o.kind = "ready"
  <2>1. Extended(o, k) =
          [o EXCEPT !.closed = @ \/ state' = "ready", !.owed = @ \cap Down']
    BY <1>3 DEF Extended
  <2> DEFINE closed == o.closed \/ state' = "ready"
             owed == o.owed \cap Down'
  <2>2. closed \in BOOLEAN /\ owed \in SUBSET Autostart
    BY DEF Observations
  <2>3. Extended(o, k) = [o EXCEPT !.closed = closed, !.owed = owed]
    BY <2>1
  <2>4. (o.closed => closed) /\ (state' = "ready" => closed)
    BY DEF Observations
  <2> HIDE DEF closed
  <2>5. /\ Extended(o, k) \in Observations
        /\ Extended(o, k).kind = o.kind /\ Extended(o, k).opened = o.opened
        /\ Extended(o, k).closed = closed /\ Extended(o, k).owed = o.owed \cap Down'
    BY <2>2, <2>3 DEF Observations
  <2> QED
    BY <1>3, <2>4, <2>5
<1>4. CASE o.kind = "none"
  <2>1. Extended(o, k) = o
    BY <1>4 DEF Extended
  <2> QED
    BY <1>4, <2>1
<1> QED
  BY <1>1, <1>2, <1>3, <1>4 DEF Observations

-----------------------------------------------------------------------------
\* How a notification moves a call, and what the observer sees of it.
LEMMA NotifyMoves ==
  ASSUME NEW k \in CallRecords, k.result = "none", NEW to \in States
  PROVE  LET r == Notify(k, to)
         IN \/ r = k
            \/ r.result \notin {"none", "ok"} /\ r.pc = "idle"
            \/ k.pc = "machine" /\ to = "ready" /\ r = AtPc(k, "woken")
            \/ k.pc = "busy" /\ to = "busy" /\ r = AtPc(k, "again")
            \/ k.pc = "again" /\ to = "ready" /\ r = Settle(k, "ok")
<1>1. \A r \in {"disconnected", "failed"} : Settle(k, r).result = r /\ Settle(k, r).pc = "idle"
  BY DEF Settle, NoCall
<1> QED
  BY <1>1 DEF Notify

LEMMA NotifyStatusMoves ==
  ASSUME NEW k \in CallRecords, k.result = "none", NEW n \in Commands, NEW s \in Statuses
  PROVE  LET r == NotifyStatus(k, n, s)
         IN \/ r = k
            \/ r.result \notin {"none", "ok"} /\ r.pc = "idle"
            \/ k.cmd = n /\ k.pc = "command" /\ s = "running" /\ r = AtPc(k, "woken")
            \/ k.cmd = n /\ k.pc = "exit" /\ s \in {"stopped", "errored", "starting"}
                 /\ r = AtPc(k, "running")
            \/ k.cmd = n /\ k.pc = "running" /\ s = "running" /\ r = Settle(k, "ok")
<1>1. Settle(k, "failed").result = "failed" /\ Settle(k, "failed").pc = "idle"
  BY DEF Settle, NoCall
<1> QED
  BY <1>1 DEF NotifyStatus

LEMMA SettledFields ==
  ASSUME NEW k, NEW r \in Results
  PROVE  Settle(k, r).pc = "idle" /\ Settle(k, r).result = r
  BY DEF Settle, NoCall

LEMMA AtPcFields ==
  ASSUME NEW k \in CallRecords, NEW p \in PCs
  PROVE  /\ AtPc(k, p).pc = p /\ AtPc(k, p).cmd = k.cmd /\ AtPc(k, p).todo = k.todo
         /\ AtPc(k, p).listed = k.listed /\ AtPc(k, p).result = k.result
  BY DEF AtPc, CallRecords

\* The observation of a call that goes on waiting where it is.
LEMMA StayingIsSeen ==
  ASSUME NEW k \in CallRecords, NEW o \in Observations, Phase(k, o, Down)
  PROVE  Phase(k, Extended(o, k), Down')
<1>1. k.pc \in PCs
  BY DEF CallRecords
<1> QED
  BY <1>1, ExtendedFields DEF Phase, KindOf, PCs

\* A transition of the state machine.
LEMMA NotifyIsSeen ==
  ASSUME NEW k \in CallRecords, NEW o \in Observations, Phase(k, o, Down), k.pc # "idle",
         NEW to \in States, state' = to,
         Notify(k, to).result \in {"none", "ok"}
  PROVE  Seen(Notify(k, to), Extended(o, k), Down')
<1> DEFINE r == Notify(k, to)
<1>1. Phase(k, Extended(o, k), Down') /\ k.result = "none"
  BY StayingIsSeen DEF Phase
<1>2. CASE r = k
  BY <1>1, <1>2 DEF Seen
<1>3. CASE k.pc = "machine" /\ to = "ready" /\ r = AtPc(k, "woken")
  <2>1. r.pc = "woken" /\ r.result = "none" /\ ~r.listed
    BY <1>1, <1>3, AtPcFields DEF Phase, PCs
  <2>2. o.kind = "ready"
    BY <1>3 DEF Phase, KindOf
  <2>3. Extended(o, k).closed /\ Extended(o, k).kind = "ready"
    BY <1>3, <2>2, ExtendedFields
  <2> QED
    BY <1>1, <2>1, <2>2, <2>3 DEF Seen, Phase, KindOf
<1>4. CASE k.pc = "busy" /\ to = "busy" /\ r = AtPc(k, "again")
  <2>1. r.pc = "again" /\ r.result = "none"
    BY <1>1, <1>4, AtPcFields DEF PCs
  <2>2. o.kind = "next"
    BY <1>4 DEF Phase, KindOf
  <2>3. Extended(o, k).opened /\ Extended(o, k).kind = "next"
    BY <1>4, <2>2, ExtendedFields
  <2> QED
    BY <2>1, <2>3 DEF Seen, Phase, KindOf
<1>5. CASE k.pc = "again" /\ to = "ready" /\ r = Settle(k, "ok")
  <2>1. r.pc = "idle" /\ r.result = "ok"
    BY <1>5, SettledFields DEF Results
  <2>2. o.kind = "next" /\ o.opened
    BY <1>5 DEF Phase, KindOf
  <2>3. /\ Extended(o, k).opened /\ Extended(o, k).closed /\ Extended(o, k).kind = "next"
    BY <1>5, <2>2, ExtendedFields
  <2> QED
    BY <2>1, <2>3 DEF Seen, Promise
<1> QED
  BY <1>1, <1>2, <1>3, <1>4, <1>5, NotifyMoves

\* A change of the status of command n.
LEMMA NotifyStatusIsSeen ==
  ASSUME NEW k \in CallRecords, NEW o \in Observations, Phase(k, o, Down), k.pc # "idle",
         NEW n \in Commands, NEW s \in Statuses, registry'[n] = s,
         NotifyStatus(k, n, s).result \in {"none", "ok"}
  PROVE  Seen(NotifyStatus(k, n, s), Extended(o, k), Down')
<1> DEFINE r == NotifyStatus(k, n, s)
<1>1. Phase(k, Extended(o, k), Down') /\ k.result = "none"
  BY StayingIsSeen DEF Phase
<1>2. CASE r = k
  BY <1>1, <1>2 DEF Seen
<1>3. CASE k.cmd = n /\ k.pc = "command" /\ s = "running" /\ r = AtPc(k, "woken")
  <2>1. r.pc = "woken" /\ r.result = "none" /\ r.todo = k.todo
    BY <1>1, <1>3, AtPcFields DEF PCs
  <2>2. o.kind = "ready" /\ o.closed /\ o.owed \subseteq k.todo \cup {n}
    BY <1>3 DEF Phase, KindOf
  <2>3. /\ Extended(o, k).closed /\ Extended(o, k).kind = "ready"
        /\ Extended(o, k).owed = o.owed \cap Down'
    BY <2>2, ExtendedFields
  <2>4. n \notin Down'
    BY <1>3 DEF Down
  <2> QED
    BY <2>1, <2>2, <2>3, <2>4 DEF Seen, Phase, KindOf
<1>4. CASE /\ k.cmd = n /\ k.pc = "exit" /\ s \in {"stopped", "errored", "starting"}
           /\ r = AtPc(k, "running")
  <2>1. r.pc = "running" /\ r.result = "none"
    BY <1>1, <1>4, AtPcFields DEF PCs
  <2>2. o.kind = "nextOf"
    BY <1>4 DEF Phase, KindOf
  <2>3. Extended(o, k).opened /\ Extended(o, k).kind = "nextOf"
    BY <1>4, <2>2, ExtendedFields
  <2> QED
    BY <2>1, <2>3 DEF Seen, Phase, KindOf
<1>5. CASE k.cmd = n /\ k.pc = "running" /\ s = "running" /\ r = Settle(k, "ok")
  <2>1. r.pc = "idle" /\ r.result = "ok"
    BY <1>5, SettledFields DEF Results
  <2>2. o.kind = "nextOf" /\ o.opened
    BY <1>5 DEF Phase, KindOf
  <2>3. Extended(o, k).opened /\ Extended(o, k).closed /\ Extended(o, k).kind = "nextOf"
    BY <1>5, <2>2, ExtendedFields
  <2> QED
    BY <2>1, <2>3 DEF Seen, Promise
<1> QED
  BY <1>1, <1>2, <1>3, <1>4, <1>5, NotifyStatusMoves

\* The continuation of waitForReady.
LEMMA AwaitNextIsSeen ==
  ASSUME TypeOK, NEW k \in CallRecords, NEW o \in Observations, Phase(k, o, Down),
         k.pc = "woken", NEW n \in Snapshot(k), registry' = registry,
         AwaitNext(k, n).result \in {"none", "ok"}
  PROVE  Seen(AwaitNext(k, n), Extended(o, k), Down')
<1> DEFINE rest == [k EXCEPT !.todo = Snapshot(k) \ {n}, !.listed = TRUE, !.cmd = n]
           r == AwaitNext(k, n)
<1>1. n \in Commands /\ Snapshot(k) \in SUBSET Commands
  BY DEF Snapshot, Registered, CallRecords
<1>2. /\ rest \in CallRecords /\ rest.cmd = n /\ rest.listed /\ rest.todo = Snapshot(k) \ {n}
      /\ rest.result = k.result
  BY <1>1 DEF CallRecords
<1>3. /\ k.result = "none" /\ o.kind = "ready" /\ o.closed /\ o.owed \subseteq Down
      /\ k.listed => o.owed \subseteq k.todo
  BY DEF Phase, KindOf
<1>4. o.owed \subseteq Snapshot(k)
  BY <1>3, AutostartAssumption DEF Snapshot, Down, Registered, CallRecords
<1>5. /\ Extended(o, k).kind = "ready" /\ Extended(o, k).closed
      /\ Extended(o, k).owed = o.owed \cap Down'
  BY <1>3, ExtendedFields
<1>6. Down' = Down
  BY DEF Down
<1>7. CASE registry[n] = Absent
  <2>1. r = Settle(k, "notFound")
    BY <1>7 DEF AwaitNext, Absent
  <2> QED
    BY <2>1, SettledFields DEF Results
<1>8. CASE registry[n] = "running"
  <2>1. r = AtPc(rest, "woken")
    BY <1>8 DEF AwaitNext, Absent
  <2> HIDE DEF rest, r
  <2>2. r.pc = "woken" /\ r.result = "none" /\ r.todo = Snapshot(k) \ {n}
    BY <1>2, <1>3, <2>1, AtPcFields DEF PCs
  <2>3. n \notin Down
    BY <1>8 DEF Down
  <2>4. Seen(r, Extended(o, k), Down')
    BY <1>3, <1>4, <1>5, <1>6, <2>2, <2>3 DEF Seen, Phase, KindOf
  <2> QED
    BY <2>4 DEF r
<1>9. CASE registry[n] \notin {Absent, "running"}
  <2>1. r = AtPc(rest, "command")
    BY <1>9 DEF AwaitNext
  <2> HIDE DEF rest, r
  <2>2. /\ r.pc = "command" /\ r.result = "none" /\ r.todo = Snapshot(k) \ {n}
        /\ r.cmd = n /\ r.listed
    BY <1>2, <1>3, <2>1, AtPcFields DEF PCs
  <2>3. Seen(r, Extended(o, k), Down')
    BY <1>3, <1>4, <1>5, <1>6, <2>2 DEF Seen, Phase, KindOf
  <2> QED
    BY <2>3 DEF r
<1> QED
  BY <1>7, <1>8, <1>9
-----------------------------------------------------------------------------
\* What the observer writes down for each kind of step of a call.
LEMMA FailedIsSeen ==
  ASSUME NEW c \in Clients, call'[c].result \notin {"none", "ok"}, call'[c].pc = "idle"
  PROVE  Seen(call'[c], Observe(c), Down') /\ Observe(c) \in Observations
  BY NothingType DEF Observe, Seen

LEMMA WaitingIsSeen ==
  ASSUME HInv, NEW c \in Clients, Waiting(c), call[c] \in CallRecords,
         call'[c].result \in {"none", "ok"} =>
           Seen(call'[c], Extended(observed[c], call[c]), Down'),
         call'[c].result \notin {"none", "ok"} => call'[c].pc = "idle"
  PROVE  Seen(call'[c], Observe(c), Down') /\ Observe(c) \in Observations
<1>1. CASE call'[c].result \notin {"none", "ok"}
  BY <1>1, FailedIsSeen
<1>2. CASE call'[c].result \in {"none", "ok"}
  <2>1. Observe(c) = Extended(observed[c], call[c])
    BY <1>2 DEF Observe
  <2>2. Observe(c) \in Observations
    BY <2>1, ExtendedFields DEF HInv
  <2> QED
    BY <1>2, <2>1, <2>2
<1> QED
  BY <1>1, <1>2

LEMMA SameIsSeen ==
  ASSUME HInv, NEW c \in Clients, call[c] \in CallRecords, call'[c] = call[c]
  PROVE  Seen(call'[c], Observe(c), Down') /\ Observe(c) \in Observations
<1>1. observed[c] \in Observations /\ Seen(call[c], observed[c], Down)
  BY DEF HInv
<1>2. CASE Waiting(c)
  <2>1. Phase(call[c], observed[c], Down) /\ call[c].result = "none"
    BY <1>1, <1>2 DEF Seen, Phase, Waiting
  <2>2. Phase(call[c], Extended(observed[c], call[c]), Down')
    BY <1>1, <2>1, StayingIsSeen
  <2> QED
    BY <1>2, <2>1, <2>2, WaitingIsSeen DEF Seen
<1>3. CASE ~Waiting(c)
  <2>1. call[c].pc = "idle" /\ ~Waiting(c)'
    BY <1>3 DEF Waiting
  <2>2. CASE call[c].result \notin {"none", "ok"}
    BY <2>1, <2>2, FailedIsSeen
  <2>3. CASE call[c].result \in {"none", "ok"}
    BY <1>1, <1>3, <2>1, <2>3 DEF Observe, Seen
  <2> QED
    BY <2>2, <2>3
<1> QED
  BY <1>2, <1>3

\* A call that begins to wait.
LEMMA BegunIsSeen ==
  ASSUME NEW c \in Clients, ~Waiting(c),
         call'[c].pc \in {"machine", "woken", "busy", "exit"},
         call'[c].result = "none", ~call'[c].listed,
         call'[c].pc = "woken" => state' = "ready"
  PROVE  Seen(call'[c], Observe(c), Down') /\ Observe(c) \in Observations
<1> DEFINE k == call'[c]
           kind == KindOf(k.pc)
           o == [Nothing EXCEPT !.kind = kind, !.owed = IF kind = "ready" THEN Down' ELSE {}]
<1>1. Observe(c) = Extended(o, k)
  BY DEF Observe, Begun, Waiting
<1>2. kind \in {"ready", "next", "nextOf"}
  BY DEF KindOf
<1>3. Down' \in SUBSET Autostart
  BY DEF Down
<1>4. o \in Observations /\ o.kind = kind /\ (kind = "ready" => o.owed = Down')
  BY <1>2, <1>3 DEF Observations, Nothing
<1> HIDE DEF o
<1>5. /\ Extended(o, k) \in Observations /\ Extended(o, k).kind = kind
      /\ kind = "ready" => Extended(o, k).owed = Down'
      /\ kind = "ready" /\ state' = "ready" => Extended(o, k).closed
  BY <1>4, ExtendedFields
<1>6. k.pc = "woken" => kind = "ready"
  BY DEF KindOf
<1>7. Phase(k, Extended(o, k), Down')
  BY <1>5, <1>6 DEF Phase
<1> QED
  BY <1>1, <1>5, <1>7 DEF Seen

-----------------------------------------------------------------------------
LEMMA InitHInv == HInit => HInv
<1> SUFFICES ASSUME HInit PROVE HInv
  OBVIOUS
<1>1. \A c \in Clients : call[c] = NoCall /\ observed[c] = Nothing
  BY DEF HInit, Init
<1>2. NoCall.pc = "idle" /\ NoCall.result = "none"
  BY DEF NoCall
<1> QED
  BY <1>1, <1>2, NothingType DEF HInv, HInit, Seen

LEMMA TransitionIsSeen ==
  ASSUME IInv, HInv, NEW to \in States, Transition(to), NEW c \in Clients
  PROVE  Seen(call'[c], Observe(c), Down') /\ Observe(c) \in Observations
<1>1. call[c] \in CallRecords /\ observed[c] \in Observations
  BY DEF IInv, TypeOK, HInv
<1>2. CASE to = state \/ ~Waiting(c)
  <2>1. call'[c] = call[c]
    BY <1>2 DEF Transition, Notify, Waiting
  <2> QED
    BY <1>1, <2>1, SameIsSeen
<1>3. CASE to # state /\ Waiting(c)
  <2>1. state' = to /\ call'[c] = Notify(call[c], to)
    BY <1>3 DEF Transition
  <2>2. call[c].pc # "idle" /\ Phase(call[c], observed[c], Down)
    BY <1>3 DEF HInv, Seen, Waiting
  <2>3. call[c].result = "none"
    BY <2>2 DEF Phase
  <2>4. call'[c].result \notin {"none", "ok"} => call'[c].pc = "idle"
    BY <1>1, <2>1, <2>3, NotifyMoves, AtPcFields, SettledFields DEF PCs, Results
  <2>5. call'[c].result \in {"none", "ok"} =>
          Seen(call'[c], Extended(observed[c], call[c]), Down')
    BY <1>1, <2>1, <2>2, NotifyIsSeen
  <2> QED
    BY <1>1, <1>3, <2>4, <2>5, WaitingIsSeen
<1> QED
  BY <1>2, <1>3

LEMMA ApplyStatusIsSeen ==
  ASSUME IInv, HInv, NEW n \in Commands, NEW s \in Statuses, ApplyStatus(n, s), NEW c \in Clients
  PROVE  Seen(call'[c], Observe(c), Down') /\ Observe(c) \in Observations
<1>1. /\ call[c] \in CallRecords /\ observed[c] \in Observations
      /\ call'[c] = NotifyStatus(call[c], n, s) /\ registry'[n] = s
  BY DEF IInv, TypeOK, HInv, ApplyStatus
<1>2. CASE ~Waiting(c)
  <2>1. call'[c] = call[c]
    BY <1>1, <1>2, NotifyStatusType DEF Waiting
  <2> QED
    BY <1>1, <2>1, SameIsSeen
<1>3. CASE Waiting(c)
  <2>1. call[c].pc # "idle" /\ Phase(call[c], observed[c], Down)
    BY <1>3 DEF HInv, Seen, Waiting
  <2>2. call[c].result = "none"
    BY <2>1 DEF Phase
  <2>3. call'[c].result \notin {"none", "ok"} => call'[c].pc = "idle"
    BY <1>1, <2>2, NotifyStatusMoves, AtPcFields, SettledFields DEF PCs, Results
  <2>4. call'[c].result \in {"none", "ok"} =>
          Seen(call'[c], Extended(observed[c], call[c]), Down')
    BY <1>1, <2>1, NotifyStatusIsSeen
  <2> QED
    BY <1>1, <1>3, <2>3, <2>4, WaitingIsSeen
<1> QED
  BY <1>2, <1>3

LEMMA ResumeIsSeen ==
  ASSUME IInv, HInv, NEW c \in Clients, Resume(c)
  PROVE  Seen(call'[c], Observe(c), Down') /\ Observe(c) \in Observations
<1>1. /\ call[c] \in CallRecords /\ observed[c] \in Observations /\ Waiting(c)
      /\ call[c].pc = "woken" /\ registry' = registry
  BY DEF IInv, TypeOK, HInv, Resume, Waiting
<1>2. Phase(call[c], observed[c], Down)
  BY <1>1 DEF HInv, Seen
<1>3. CASE Snapshot(call[c]) = {} /\ call'[c] = Settle(call[c], "ok")
  <2>1. call'[c].pc = "idle" /\ call'[c].result = "ok"
    BY <1>3, SettledFields DEF Results
  <2>2. /\ observed[c].kind = "ready" /\ observed[c].closed /\ observed[c].owed \subseteq Down
        /\ call[c].listed => observed[c].owed \subseteq call[c].todo
    BY <1>1, <1>2 DEF Phase, KindOf
  <2>3. observed[c].owed = {}
    BY <1>1, <1>3, <2>2, AutostartAssumption DEF Snapshot, Down, Registered, CallRecords
  <2>4. Promise(Extended(observed[c], call[c]))
    BY <1>1, <2>2, <2>3, ExtendedFields DEF Promise
  <2> QED
    BY <1>1, <2>1, <2>4, WaitingIsSeen DEF Seen
<1>4. CASE call'[c] = Settle(call[c], "failed")
  BY <1>4, SettledFields, FailedIsSeen DEF Results
<1>5. CASE \E n \in Snapshot(call[c]) : call'[c] = AwaitNext(call[c], n)
  <2>1. PICK n \in Snapshot(call[c]) : call'[c] = AwaitNext(call[c], n)
    BY <1>5
  <2>2. call'[c].result \in {"none", "ok"} =>
          Seen(call'[c], Extended(observed[c], call[c]), Down')
    BY <1>1, <1>2, <2>1, AwaitNextIsSeen DEF IInv
  <2>3. call'[c].result \notin {"none", "ok"} => call'[c].pc = "idle"
    <3> DEFINE rest == [call[c] EXCEPT !.todo = Snapshot(call[c]) \ {n},
                                       !.listed = TRUE, !.cmd = n]
    <3>1. rest \in CallRecords /\ rest.result = "none"
      BY <1>1, <1>2 DEF CallRecords, Snapshot, Registered, Phase
    <3>2. call'[c] \in {Settle(call[c], "notFound"), AtPc(rest, "woken"), AtPc(rest, "command")}
      BY <2>1 DEF AwaitNext
    <3> HIDE DEF rest
    <3> QED
      BY <3>1, <3>2, AtPcFields, SettledFields DEF PCs, Results
  <2> QED
    BY <1>1, <2>2, <2>3, WaitingIsSeen
<1> QED
  BY <1>3, <1>4, <1>5 DEF Resume, IInv, TypeOK

\* A step that changes one call shows the others nothing new.
LEMMA OneCallIsSeen ==
  ASSUME IInv, HInv, NEW d \in Clients, NEW k, call' = [call EXCEPT ![d] = k],
         Seen(call'[d], Observe(d), Down') /\ Observe(d) \in Observations,
         NEW c \in Clients
  PROVE  Seen(call'[c], Observe(c), Down') /\ Observe(c) \in Observations
<1>1. CASE c = d
  BY <1>1
<1>2. CASE c # d
  <2>1. call'[c] = call[c] /\ call[c] \in CallRecords
    BY <1>2 DEF IInv, TypeOK
  <2> QED
    BY <2>1, SameIsSeen
<1> QED
  BY <1>1, <1>2

LEMMA BeginIsSeen ==
  ASSUME IInv, HInv, NEW d \in Clients, NEW k, BeginCall(d, k),
         k.result = "none" =>
           /\ k.pc \in {"machine", "woken", "busy", "exit"} /\ ~k.listed
           /\ k.pc = "woken" => state = "ready",
         k.result # "none" => k.result # "ok" /\ k.pc = "idle",
         NEW c \in Clients
  PROVE  Seen(call'[c], Observe(c), Down') /\ Observe(c) \in Observations
<1>1. /\ call' = [call EXCEPT ![d] = k] /\ call'[d] = k /\ ~Waiting(d) /\ state' = state
  BY DEF BeginCall, IInv, TypeOK
<1>2. Seen(call'[d], Observe(d), Down') /\ Observe(d) \in Observations
  BY <1>1, BegunIsSeen, FailedIsSeen
<1> QED
  BY <1>1, <1>2, OneCallIsSeen

\* One step per action of Next.
LEMMA NextIsSeen ==
  ASSUME IInv, HInv, Next, NEW c \in Clients
  PROVE  Seen(call'[c], Observe(c), Down') /\ Observe(c) \in Observations
<1>0. call[c] \in CallRecords
  BY DEF IInv, TypeOK
<1>1. CASE ReceiveChunk \/ ParentExit \/ Stop
  BY <1>0, <1>1, SameIsSeen DEF ReceiveChunk, ParentExit, Stop
<1>2. CASE HandleStreamEvent
  <2>1. CASE \E to \in States : Transition(to)
    BY <2>1, TransitionIsSeen
  <2>2. CASE UNCHANGED call
    BY <1>0, <2>2, SameIsSeen
  <2> QED
    BY <1>2, <2>1, <2>2
       DEF HandleStreamEvent, HandleDeploy, HandleComplete, HandleFailed, States
<1>3. CASE StreamError
  BY <1>3, TransitionIsSeen DEF StreamError, States
<1>4. ASSUME NEW n \in Commands, MarkStarting(n) \/ \E s \in Statuses : PaneEvent(n, s)
      PROVE  Seen(call'[c], Observe(c), Down') /\ Observe(c) \in Observations
  <2>1. PICK t \in Statuses : ApplyStatus(n, t)
    BY <1>4 DEF MarkStarting, PaneEvent, Statuses
  <2> QED
    BY <2>1, ApplyStatusIsSeen
<1>5. ASSUME NEW d \in Clients,
             \/ RejectDisconnected(d) \/ WaitForReady(d) \/ WaitForNextReady(d)
             \/ \E n \in Commands : WaitForNextReadyOf(d, n)
      PROVE  Seen(call'[c], Observe(c), Down') /\ Observe(c) \in Observations
  <2>1. /\ \A p \in PCs : /\ AtPc(NoCall, p).pc = p /\ AtPc(NoCall, p).result = "none"
                          /\ ~AtPc(NoCall, p).listed
        /\ \A r \in Results : Settle(call[d], r).result = r /\ Settle(call[d], r).pc = "idle"
    BY SettledFields DEF AtPc, NoCall
  <2>2. CASE RejectDisconnected(d)
    BY <2>1, <2>2, BeginIsSeen DEF RejectDisconnected, Results
  <2>3. CASE WaitForReady(d)
    <3>1. PICK p \in {"woken", "machine"} : /\ p = "woken" => state = "ready"
                                            /\ BeginCall(d, AtPc(NoCall, p))
      BY <2>3 DEF WaitForReady
    <3> QED
      BY <2>1, <3>1, BeginIsSeen DEF PCs
  <2>4. CASE WaitForNextReady(d)
    BY <2>1, <2>4, BeginIsSeen DEF WaitForNextReady, PCs
  <2>5. ASSUME NEW n \in Commands, WaitForNextReadyOf(d, n)
        PROVE  Seen(call'[c], Observe(c), Down') /\ Observe(c) \in Observations
    <3> DEFINE k == [NoCall EXCEPT !.pc = "exit", !.cmd = n]
    <3>1. k.pc = "exit" /\ k.result = "none" /\ ~k.listed
      BY DEF NoCall
    <3> HIDE DEF k
    <3>2. BeginCall(d, Settle(call[d], "notFound")) \/ BeginCall(d, k)
      BY <2>5 DEF WaitForNextReadyOf, k
    <3> QED
      BY <2>1, <3>1, <3>2, BeginIsSeen DEF Results
  <2> QED
    BY <1>5, <2>2, <2>3, <2>4, <2>5
<1>6. ASSUME NEW d \in Clients, Resume(d)
      PROVE  Seen(call'[c], Observe(c), Down') /\ Observe(c) \in Observations
  <2>1. Seen(call'[d], Observe(d), Down') /\ Observe(d) \in Observations
    BY <1>6, ResumeIsSeen
  <2>2. \E k : call' = [call EXCEPT ![d] = k]
    BY <1>6 DEF Resume
  <2> QED
    BY <2>1, <2>2, OneCallIsSeen
<1>7. ASSUME NEW d \in Clients, Timeout(d)
      PROVE  Seen(call'[c], Observe(c), Down') /\ Observe(c) \in Observations
  <2>1. call' = [call EXCEPT ![d] = Settle(call[d], "failed")]
    BY <1>7 DEF Timeout
  <2>2. call'[d].pc = "idle" /\ call'[d].result = "failed"
    BY <2>1, SettledFields DEF IInv, TypeOK, Results
  <2> QED
    BY <2>1, <2>2, FailedIsSeen, OneCallIsSeen
<1> QED
  BY <1>1, <1>2, <1>3, <1>4, <1>5, <1>6, <1>7 DEF Next

LEMMA HNextKeeps == IInv /\ HInv /\ [HNext]_hvars => HInv'
<1> SUFFICES ASSUME IInv, HInv, [HNext]_hvars PROVE HInv'
  OBVIOUS
<1>1. CASE HNext
  <2>1. observed' = [c \in Clients |-> Observe(c)] /\ Next
    BY <1>1 DEF HNext
  <2>2. \A c \in Clients : Seen(call'[c], Observe(c), Down') /\ Observe(c) \in Observations
    BY <2>1, NextIsSeen
  <2> QED
    BY <2>1, <2>2 DEF HInv
<1>2. CASE UNCHANGED hvars
  BY <1>2 DEF hvars, vars, HInv, Down
<1> QED
  BY <1>1, <1>2

LEMMA HSpecHInv == HSpec => [](IInv /\ HInv)
<1>1. HInit => IInv /\ HInv
  BY InitIInv, InitHInv DEF HInit
<1>2. IInv /\ HInv /\ [HNext]_hvars => (IInv /\ HInv)'
  BY NextKeeps, HNextKeeps DEF HNext, hvars
<1> QED
  BY <1>1, <1>2, PTL DEF HSpec

LEMMA PromisesAreKept ==
  ASSUME HInv
  PROVE  NextReadyIsACycle /\ NextReadyOfIsARestart /\ ReadyMeansAutostarted
  BY DEF HInv, Seen, Promise, NextReadyIsACycle, NextReadyOfIsARestart,
     ReadyMeansAutostarted, Returned

\* waitForNextReady returns only after the session was busy and then ready.
THEOREM NextReadyComesAfterBusy == HSpec => []NextReadyIsACycle
  BY HSpecHInv, PromisesAreKept, PTL

\* ... and, for a command, only after it stopped running and then ran.
THEOREM NextReadyOfComesAfterAnExit == HSpec => []NextReadyOfIsARestart
  BY HSpecHInv, PromisesAreKept, PTL

\* waitForReady returns only after the session was ready and every autostart
\* command that stayed registered ran.
THEOREM ReadyWaitsForAutostart == HSpec => []ReadyMeansAutostarted
  BY HSpecHInv, PromisesAreKept, PTL
=============================================================================
