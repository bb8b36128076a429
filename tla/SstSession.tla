----------------------------- MODULE SstSession -----------------------------
(***************************************************************************)
(* The session core: SSTSession with its SessionStateMachine, the command  *)
(* statuses of its CommandRegistry, and the promises of the calls that     *)
(* wait on them (start, waitForReady, waitForNextReady).                   *)
(*                                                                         *)
(* Node runs one macrotask at a time (a network chunk, a timer, a request) *)
(* and drains the microtasks (promise continuations) before the next one.  *)
(* `chunk' holds the events of the network chunk being dispatched; a call  *)
(* whose awaited promise is settled is at pc "woken" until its             *)
(* continuation runs.  Quiet says that neither is outstanding.             *)
(*                                                                         *)
(* Not covered here: keystrokes and log files (CommandControl), the HTTP   *)
(* reconnect loop (EventStream), the daemon around the session.            *)
(***************************************************************************)
EXTENDS Naturals, Sequences

CONSTANTS
  Clients,    \* callers of the wait operations, one call in flight each
  Commands,   \* the names a DevCommand can have
  Autostart,  \* those whose spec says autostart
  MaxChunk    \* bound: events parsed out of one network chunk

ASSUME AutostartAssumption == Autostart \subseteq Commands
ASSUME MaxChunkAssumption == MaxChunk \in Nat \ {0}

VARIABLES
  state,      \* SessionStateMachine._current
  registry,   \* CommandRegistry._commands: the status, or "absent"
  chunk,      \* events of the current network chunk, not yet dispatched
  sources,    \* event sources of the session: "on", "stopping", "stopped"
  starting,   \* the promise of start(): "waiting", "ok", "failed"
  call        \* per client, the wait call in flight and its outcome

vars == <<state, registry, chunk, sources, starting, call>>

-----------------------------------------------------------------------------
States == {"idle", "busy", "ready", "error", "disconnected"}
Statuses == {"idle", "starting", "running", "stopped", "errored"}
Absent == "absent"
Registered == {n \in Commands : registry[n] # Absent}

\* project.StackCommandEvent{deploy}, the two failure events, and
\* project.CompleteEvent with its Devs map and whether it carries Errors.
StreamEvents ==
  [type : {"deploy", "failed"}] \cup
  [type : {"complete"}, errors : BOOLEAN, devs : SUBSET Commands]

\* Where a call stands: "machine" and "command" wait in the waiter list of the
\* state machine and of the registry; "busy"/"again" and "exit"/"running" are
\* the two phases of waitForNextReady without and with a command name.
PCs == {"idle", "machine", "woken", "command", "busy", "again", "exit", "running"}
Results == {"none", "ok", "failed", "disconnected", "notFound"}
NoCommand == "no command"
CallRecords ==
  [pc : PCs, cmd : Commands \cup {NoCommand}, todo : SUBSET Commands,
   listed : BOOLEAN, result : Results]
NoCall == [pc |-> "idle", cmd |-> NoCommand, todo |-> {}, listed |-> FALSE,
           result |-> "none"]

Settle(k, result) == [NoCall EXCEPT !.result = result]
AtPc(k, pc) == [k EXCEPT !.pc = pc]
Waiting(c) == call[c].pc # "idle"

Quiet == chunk = <<>> /\ \A c \in Clients : call[c].pc # "woken"

-----------------------------------------------------------------------------
\* What a transition of the state machine to `to' does to one call: its waiter
\* (resolved by its target, rejected by "error"), its onChange handler, and the
\* _raceWithDisconnect around every wait.
Notify(k, to) ==
  CASE k.pc = "idle" \/ k.pc = "woken" -> k
    [] k.pc # "idle" /\ k.pc # "woken" /\ to = "disconnected" -> Settle(k, "disconnected")
    [] k.pc = "machine" /\ to = "ready" -> AtPc(k, "woken")
    [] k.pc = "machine" /\ to = "error" -> Settle(k, "failed")
    [] k.pc = "busy" /\ to = "busy" -> AtPc(k, "again")
    [] k.pc = "again" /\ to = "ready" -> Settle(k, "ok")
    [] k.pc = "again" /\ to = "error" -> Settle(k, "failed")
    [] OTHER -> k

NotifyStart(to) ==
  CASE starting = "waiting" /\ to = "ready" -> "ok"
    [] starting = "waiting" /\ to = "error" -> "failed"
    [] OTHER -> starting

\* SessionStateMachine.transition: no effect when the state does not change.
Transition(to) ==
  IF to = state
  THEN UNCHANGED <<state, starting, call>>
  ELSE /\ state' = to
       /\ starting' = NotifyStart(to)
       /\ call' = [c \in Clients |-> Notify(call[c], to)]

\* What applyStatus(n, s) does to one call waiting on command n.
NotifyStatus(k, n, s) ==
  CASE k.cmd # n -> k
    [] k.cmd = n /\ k.pc = "command" /\ s = "running" -> AtPc(k, "woken")
    [] k.cmd = n /\ k.pc = "exit" /\ s \in {"stopped", "errored", "starting"} ->
         AtPc(k, "running")
    [] k.cmd = n /\ k.pc = "running" /\ s = "running" -> Settle(k, "ok")
    [] k.cmd = n /\ k.pc = "running" /\ s = "errored" -> Settle(k, "failed")
    [] OTHER -> k

\* CommandRegistry.applyStatus for a registered command.
ApplyStatus(n, s) ==
  /\ registry[n] \notin {Absent, s}
  /\ registry' = [registry EXCEPT ![n] = s]
  /\ call' = [c \in Clients |-> NotifyStatus(call[c], n, s)]

-----------------------------------------------------------------------------
\* start() has registered the hinted commands and wired its sources; it now
\* waits for READY without a timeout.
Init ==
  /\ state = "idle"
  /\ registry \in [Commands -> {"idle", Absent}]
  /\ chunk = <<>>
  /\ sources = "on"
  /\ starting = "waiting"
  /\ call = [c \in Clients |-> NoCall]

\* A network chunk holding one or more whole objects of the /stream arrives.
ReceiveChunk ==
  /\ Quiet /\ sources = "on" /\ state # "disconnected"
  /\ \E len \in 1..MaxChunk : chunk' \in [1..len -> StreamEvents]
  /\ UNCHANGED <<state, registry, sources, starting, call>>

\* Mutants: every declared command registered again; undeclared ones forgotten
\* by a registry that no longer knows all names.
SyncRegistryResetting(devs) ==
  [n \in Commands |-> IF n \in devs THEN "idle" ELSE Absent]
SyncRegistryShrinking(devs) == [n \in devs |-> registry[n]]

\* _syncFromCompleteEvent: registry membership follows a non-empty Devs map;
\* dropping a command leaves its waiters alone.
SyncRegistry(devs) ==
  IF devs = {} THEN registry
  ELSE [n \in Commands |-> IF n \notin devs THEN Absent
                           ELSE IF registry[n] = Absent THEN "idle"
                           ELSE registry[n]]

HandleDeploy(ev) ==
  /\ ev.type = "deploy"
  /\ IF state \in {"idle", "ready"}
     THEN Transition("busy")
     ELSE UNCHANGED <<state, starting, call>>
  /\ UNCHANGED registry

HandleComplete(ev) ==
  /\ ev.type = "complete"
  /\ registry' = SyncRegistry(ev.devs)
  /\ IF state # "disconnected"
     THEN Transition(IF ev.errors THEN "error" ELSE "ready")
     ELSE UNCHANGED <<state, starting, call>>

HandleFailed(ev) ==
  /\ ev.type = "failed"
  /\ IF state # "disconnected"
     THEN Transition("error")
     ELSE UNCHANGED <<state, starting, call>>
  /\ UNCHANGED registry

\* _handleStreamEvent on the next object of the chunk, in the same macrotask.
HandleStreamEvent ==
  /\ chunk # <<>>
  /\ HandleDeploy(Head(chunk)) \/ HandleComplete(Head(chunk)) \/ HandleFailed(Head(chunk))
  /\ chunk' = Tail(chunk)
  /\ UNCHANGED sources

\* The stream gave up reconnecting: _handleStreamError.
StreamError ==
  /\ Quiet /\ sources = "on" /\ state # "disconnected"
  /\ Transition("disconnected")
  /\ UNCHANGED <<registry, chunk, sources>>

\* The PaneLogWatcher saw command n start or stop: _handlePaneStarted/Stopped.
PaneEvent(n, s) ==
  /\ Quiet /\ sources # "stopped"
  /\ s \in {"running", "stopped"}
  /\ ApplyStatus(n, s)
  /\ UNCHANGED <<state, chunk, sources, starting>>

\* startCommand has pressed Enter: its optimistic applyStatus(STARTING).
MarkStarting(n) ==
  /\ Quiet
  /\ ApplyStatus(n, "starting")
  /\ UNCHANGED <<state, chunk, sources, starting>>

\* The SST process exits: start() is rejected if it has not settled.
ParentExit ==
  /\ Quiet /\ starting = "waiting"
  /\ starting' = "failed"
  /\ UNCHANGED <<state, registry, chunk, sources, call>>

\* stop(): first the stream, then the pane watcher; no event follows.
Stop ==
  /\ Quiet
  /\ \/ sources = "on" /\ sources' = "stopping"
     \/ sources = "stopping" /\ sources' = "stopped"
  /\ UNCHANGED <<state, registry, chunk, starting, call>>

-----------------------------------------------------------------------------
BeginCall(c, k) ==
  /\ Quiet /\ ~Waiting(c)
  /\ call' = [call EXCEPT ![c] = k]
  /\ UNCHANGED <<state, registry, chunk, sources, starting>>

\* A call on a disconnected session is rejected at once.
RejectDisconnected(c) ==
  /\ state = "disconnected"
  /\ BeginCall(c, Settle(call[c], "disconnected"))

\* Mutant: no check for a disconnected session on entry.
WaitForReadyUnchecked(c) ==
  BeginCall(c, AtPc(NoCall, IF state = "ready" THEN "woken" ELSE "machine"))

\* waitForReady: a promise that is already resolved still takes a microtask.
WaitForReady(c) ==
  /\ state # "disconnected"
  /\ BeginCall(c, AtPc(NoCall, IF state = "ready" THEN "woken" ELSE "machine"))

\* Mutants: the wait starts in its second phase.
WaitForNextReadyLate(c) == state # "disconnected" /\ BeginCall(c, AtPc(NoCall, "again"))
WaitForNextReadyOfLate(c, n) ==
  /\ state # "disconnected" /\ registry[n] # Absent
  /\ BeginCall(c, [NoCall EXCEPT !.pc = "running", !.cmd = n])

\* waitForNextReady without a command name.
WaitForNextReady(c) ==
  /\ state # "disconnected"
  /\ BeginCall(c, AtPc(NoCall, "busy"))

\* waitForNextReady with a command name.
WaitForNextReadyOf(c, n) ==
  /\ state # "disconnected"
  /\ BeginCall(c, IF registry[n] = Absent
                  THEN Settle(call[c], "notFound")
                  ELSE [NoCall EXCEPT !.pc = "exit", !.cmd = n])

\* The continuation of waitForReady.  The first one snapshots the autostart
\* commands; each takes the next command of the snapshot, or returns.
Snapshot(k) == IF k.listed THEN k.todo ELSE Registered \cap Autostart

\* Mutants: the present status is not looked at, or STARTING is good enough.
AwaitNextBlindly(k, n) ==
  [k EXCEPT !.todo = Snapshot(k) \ {n}, !.listed = TRUE, !.cmd = n, !.pc = "command"]
AwaitNextStarting(k, n) ==
  [k EXCEPT !.todo = Snapshot(k) \ {n}, !.listed = TRUE, !.cmd = n,
            !.pc = IF registry[n] \in {"running", "starting"} THEN "woken" ELSE "command"]

AwaitNext(k, n) ==
  LET rest == [k EXCEPT !.todo = Snapshot(k) \ {n}, !.listed = TRUE, !.cmd = n]
  IN CASE registry[n] = Absent -> Settle(k, "notFound")
       [] registry[n] = "running" -> AtPc(rest, "woken")
       [] OTHER -> AtPc(rest, "command")

Resume(c) ==
  /\ chunk = <<>> /\ call[c].pc = "woken"
  /\ \/ /\ Snapshot(call[c]) = {}
        /\ call' = [call EXCEPT ![c] = Settle(@, "ok")]
     \/ \E n \in Snapshot(call[c]) :
          \/ call' = [call EXCEPT ![c] = AwaitNext(@, n)]
          \/ call' = [call EXCEPT ![c] = Settle(@, "failed")]  \* time is up
  /\ UNCHANGED <<state, registry, chunk, sources, starting>>

\* Mutant: only the wait of the state machine is given a timer.
TimeoutOfMachine(c) ==
  /\ Quiet /\ call[c].pc \in {"machine", "busy", "again"}
  /\ call' = [call EXCEPT ![c] = Settle(@, "failed")]
  /\ UNCHANGED <<state, registry, chunk, sources, starting>>

\* The timer of the wait the call is in.
Timeout(c) ==
  /\ Quiet /\ Waiting(c)
  /\ call' = [call EXCEPT ![c] = Settle(@, "failed")]
  /\ UNCHANGED <<state, registry, chunk, sources, starting>>

-----------------------------------------------------------------------------
Next ==
  \/ ReceiveChunk \/ HandleStreamEvent \/ StreamError \/ ParentExit \/ Stop
  \/ \E n \in Commands : MarkStarting(n) \/ \E s \in Statuses : PaneEvent(n, s)
  \/ \E c \in Clients :
       \/ RejectDisconnected(c) \/ WaitForReady(c) \/ WaitForNextReady(c)
       \/ \E n \in Commands : WaitForNextReadyOf(c, n)
       \/ Resume(c) \/ Timeout(c)

Spec == Init /\ [][Next]_vars

\* A chunk is dispatched to its end and microtasks are drained; the event loop
\* visits its expired timers however busy the sources are.
Fairness ==
  /\ WF_vars(HandleStreamEvent)
  /\ \A c \in Clients : WF_vars(Resume(c)) /\ SF_vars(Timeout(c))

FairSpec == Spec /\ Fairness

-----------------------------------------------------------------------------
\* The type of every variable.
TypeOK ==
  /\ state \in States
  /\ registry \in [Commands -> Statuses \cup {Absent}]
  /\ chunk \in Seq(StreamEvents)
  /\ sources \in {"on", "stopping", "stopped"}
  /\ starting \in {"waiting", "ok", "failed"}
  /\ call \in [Clients -> CallRecords]

\* No wake-up is lost: whoever waits for READY (a waitForReady, start()), or
\* for a command to run, is not still waiting once that is so, whichever of
\* the stream, the panes and the calls moved first; start() is not left
\* waiting past a failed deploy either (transition and applyStatus empty
\* their waiter lists in the step that changes the state).
NoLostWakeup ==
  /\ starting = "waiting" => state \notin {"ready", "error"}
  /\ \A c \in Clients :
       /\ call[c].pc = "machine" => state # "ready"
       /\ call[c].pc = "command" => registry[call[c].cmd] # "running"

\* Losing the stream ends every wait: once the session is disconnected no call
\* is waiting, in whatever phase the loss found it, and none starts to wait
\* (_raceWithDisconnect around each wait, the check at each entry).
DisconnectEndsEveryWait ==
  state = "disconnected" => \A c \in Clients : ~Waiting(c)

\* A CompleteEvent, replayed on every reconnect, never resets what is known of
\* a command that is still declared (_syncFromCompleteEvent skips known names).
ResyncKeepsStatuses ==
  [][HandleStreamEvent =>
       \A n \in Commands :
         registry[n] # Absent /\ registry'[n] # Absent => registry'[n] = registry[n]]_vars

\* Every wait settles: by its event, by the disconnect or by its own timer,
\* whatever was unregistered, stopped or missed meanwhile.
EveryWaitSettles == \A c \in Clients : Waiting(c) ~> ~Waiting(c)

\* "After an edit triggers a redeploy, wait_for_next_ready blocks until the next
\* ready transition" (mcp/src/server.ts): when the redeploy after a failed one
\* makes the session ready, the waitForNextReady in flight returns.
RecoveryIsTheNextReady ==
  [][\A c \in Clients :
       call[c].pc \in {"busy", "again"} /\ state = "error" /\ state' = "ready"
         => ~Waiting(c)']_vars
=============================================================================
