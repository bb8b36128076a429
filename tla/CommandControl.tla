--------------------------- MODULE CommandControl ---------------------------
(***************************************************************************)
(* start_command, stop_command and restart_command: SSTSession drives SST's *)
(* multiplexer with keystrokes (PaneNavigator) and learns what happened    *)
(* from the per-pane log files (PaneLogWatcher), through CommandRegistry.  *)
(* SST itself is what e2e/fixtures/fake-sst takes it for.                  *)
(*                                                                         *)
(* A command is its place among the dev commands by length of name, the    *)
(* last key of both sorts; the names are taken to differ in length.  Panes  *)
(* and commands stay while calls are under way (no CompleteEvent adds or   *)
(* removes one), and so does the connection.                               *)
(***************************************************************************)
EXTENDS Naturals, FiniteSets

CONSTANTS
  N,            \* dev commands, all killable
  System,       \* system panes at the top (SST, Functions, Tunnel, Tasks)
  Clients,      \* concurrent IPC requests
  MayExit,      \* commands may end by themselves
  Prompt        \* navigating takes less than stoppedWatchdogMs
ASSUME CommandAssumption ==
  /\ N \in Nat \ {0} /\ System \in Nat
  /\ {MayExit, Prompt} \subseteq BOOLEAN

VARIABLES
  alive,   \* SST: the commands whose process runs
  cursor,  \* SST: index of the selected pane
  log,     \* commands whose log file changed since the watcher's last look
  watch,   \* PaneState.status
  expect,  \* expectStopAt: "no", "armed", "due" (quiet for stoppedWatchdogMs)
  status,  \* CommandRegistry
  call     \* each request: its operation, command, stage and keys to send; and,
           \* an observer, whether the watcher saw output before Settle

tui == <<alive, cursor>>
watcher == <<log, watch, expect>>
vars == <<tui, watcher, status, call>>

Commands == 1..N
Panes == System + N
Alive(st) == {c \in Commands : st[c] \in {"running", "starting"}}

\* The sort both sides use, given what each takes to be alive: alive first.
Position(c, live) ==
  LET Before(d) == IF c \in live THEN d \in live /\ d < c
                                 ELSE d \in live \/ d < c
  IN  System + Cardinality({d \in Commands \ {c} : Before(d)})
Selected == {c \in Commands : Position(c, alive) = cursor}

\* Mutant: a start waits for the end only.
TargetsOfTask(op) == {"stopped"}
Targets(op) == IF op = "start" THEN {"running", "stopped", "errored"} ELSE {"stopped"}
Busy == {"keys", "settling", "waiting"}
Calls == [op : {"start", "stop"}, cmd : Commands, again : BOOLEAN,
          at : Busy \cup {"done", "failed"}, up : 0..Panes, down : 0..(Panes - 1),
          early : BOOLEAN]
Ended(at, early) == [op |-> "stop", cmd |-> 1, again |-> FALSE, at |-> at, up |-> 0, down |-> 0,
                     early |-> early]

\* navigateTo: to the top, then down to where the registry puts the command.
\* Mutants: one k too many; no run to the top; STARTING applied beforehand.
NavigateOver(op, c, again, st) ==
  [op |-> op, cmd |-> c, again |-> again, at |-> "keys",
   up |-> Panes + 1, down |-> Position(c, Alive(st)), early |-> FALSE]
NavigateFromCursor(op, c, again, st) ==
  [op |-> op, cmd |-> c, again |-> again, at |-> "keys",
   up |-> 0, down |-> Position(c, Alive(st)), early |-> FALSE]
NavigateOptimistically(op, c, again, st) ==
  [op |-> op, cmd |-> c, again |-> again, at |-> "keys",
   up |-> Panes, down |-> Position(c, Alive(st) \cup {c}), early |-> FALSE]
Navigate(op, c, again, st) ==
  [op |-> op, cmd |-> c, again |-> again, at |-> "keys",
   up |-> Panes, down |-> Position(c, Alive(st)), early |-> FALSE]

\* The session is up and waitForReady is past: what runs has been seen.
Init ==
  /\ alive \in SUBSET Commands
  /\ cursor = 0 /\ log = {}
  /\ watch = [c \in Commands |-> IF c \in alive THEN "started" ELSE "absent"]
  /\ expect = [c \in Commands |-> "no"]
  /\ status = [c \in Commands |-> IF c \in alive THEN "running" ELSE "idle"]
  /\ call = [p \in Clients |-> Ended("done", FALSE)]

-----------------------------------------------------------------------------
\* SSTSession.

StartCommand(p, c) ==
  /\ call[p].at \notin Busy /\ c \notin Alive(status)
  /\ call' = [call EXCEPT ![p] = Navigate("start", c, FALSE, status)]
  /\ UNCHANGED <<tui, watcher, status>>

\* stopCommand, and restartCommand of a command that runs (again).
\* Mutant: the watcher is not told.
StopUnexpected(p, c, again) ==
  /\ call[p].at \notin Busy /\ c \in Alive(status)
  /\ call' = [call EXCEPT ![p] = Navigate("stop", c, again, status)]
  /\ UNCHANGED <<tui, watcher, status>>
StopCommand(p, c, again) ==
  /\ call[p].at \notin Busy /\ c \in Alive(status)
  /\ expect' = [expect EXCEPT ![c] = "armed"]
  /\ call' = [call EXCEPT ![p] = Navigate("stop", c, again, status)]
  /\ UNCHANGED <<tui, log, watch, status>>

\* One key and its settleMs; SST keeps the cursor inside the list.
Up(p) ==
  /\ call[p].at = "keys" /\ call[p].up > 0
  /\ call' = [call EXCEPT ![p].up = @ - 1]
  /\ cursor' = IF cursor = 0 THEN 0 ELSE cursor - 1
  /\ UNCHANGED <<alive, watcher, status>>

Down(p) ==
  /\ call[p].at = "keys" /\ call[p].up = 0 /\ call[p].down > 0
  /\ call' = [call EXCEPT ![p].down = @ - 1]
  /\ cursor' = IF cursor = Panes - 1 THEN cursor ELSE cursor + 1
  /\ UNCHANGED <<alive, watcher, status>>

Arrived(p) == call[p].at = "keys" /\ call[p].up = 0 /\ call[p].down = 0

\* Enter starts the selected command if it does not run.
Enter(p) ==
  /\ Arrived(p) /\ call[p].op = "start"
  /\ alive' = alive \cup Selected
  /\ call' = [call EXCEPT ![p].at = "settling"]
  /\ UNCHANGED <<cursor, watcher, status>>

\* x kills it if it does; what it writes in dying is in its log.
Kill(p) ==
  /\ Arrived(p) /\ call[p].op = "stop"
  /\ alive' = alive \ Selected
  /\ cursor' = IF Selected \cap alive = {} THEN cursor ELSE 0
  /\ log' = log \cup (Selected \cap alive)
  /\ call' = [call EXCEPT ![p].at = "settling"]
  /\ UNCHANGED <<watch, expect, status>>

\* A wait for a command that is there: the end of the call, or of the stop a
\* restart begins with (startCommand's guard holds: the command is stopped).
\* Mutant: only changes are looked at.
WaitUnlooked(cl, st) ==
  IF cl.at = "settling" THEN [cl EXCEPT !.at = "waiting"]
  ELSE IF st[cl.cmd] \notin Targets(cl.op) THEN cl
  ELSE IF cl.again THEN Navigate("start", cl.cmd, FALSE, st)
  ELSE Ended("done", FALSE)
Wait(cl, st) ==
  IF st[cl.cmd] \notin Targets(cl.op) THEN [cl EXCEPT !.at = "waiting"]
  ELSE IF cl.again THEN Navigate("start", cl.cmd, FALSE, st)
  ELSE Ended("done", FALSE)

\* After Enter the status is STARTING, whatever it has become meanwhile.
Settle(p) ==
  /\ call[p].at = "settling"
  /\ status' = IF call[p].op = "start" THEN [status EXCEPT ![call[p].cmd] = "starting"]
                                       ELSE status
  /\ call' = [call EXCEPT ![p] = Wait(@, status')]
  /\ UNCHANGED <<tui, watcher>>

\* The wait can still end: a new log will be seen, or a dead command's quiet.
CanEnd(cl) ==
  IF cl.op = "start"
  THEN watch[cl.cmd] # "started" /\ (cl.cmd \in alive \/ cl.cmd \in log)
  ELSE watch[cl.cmd] = "started" /\ expect[cl.cmd] # "no" /\ cl.cmd \notin alive

\* 60 s (start) or 30 s (stop), far longer than the watcher's 1 s and 3 s.
Timeout(p) ==
  /\ call[p].at = "waiting" /\ ~CanEnd(call[p])
  /\ call' = [call EXCEPT ![p] = Ended("failed", @.early)]
  /\ UNCHANGED <<tui, watcher, status>>

-----------------------------------------------------------------------------
\* PaneLogWatcher._tick: every pane is looked at, then the waiters go on.

Started == {c \in log : watch[c] # "started"}
\* Mutant: the stop is declared without waiting for the quiet.
StoppedAtOnce == {c \in Commands \ log : watch[c] = "started" /\ expect[c] # "no"}
Stopped == {c \in Commands \ log : watch[c] = "started" /\ expect[c] = "due"}

\* Mutant: the hint outlives the stop it was for.
ForgetsLate(c) == c \in Started /\ watch[c] = "stopped"
Forgets(c) == c \in Stopped \/ (c \in Started /\ watch[c] = "stopped")

\* RUNNING is applied while a start is still settling.
SeenEarly(cl) == cl.at = "settling" /\ cl.op = "start" /\ cl.cmd \in Started

Tick ==
  /\ log' = {}
  /\ watch' = [c \in Commands |->
       IF c \in Started THEN "started" ELSE IF c \in Stopped THEN "stopped" ELSE watch[c]]
  /\ expect' = [c \in Commands |->
       IF Forgets(c) THEN "no"
       ELSE IF c \in log /\ expect[c] = "due" THEN "armed" ELSE expect[c]]
  /\ status' = [c \in Commands |->
       IF c \in Started THEN "running" ELSE IF c \in Stopped THEN "stopped" ELSE status[c]]
  /\ call' = [p \in Clients |->
       IF call[p].at = "waiting" THEN Wait(call[p], status')
       ELSE [call[p] EXCEPT !.early = @ \/ SeenEarly(call[p])]]
  /\ UNCHANGED tui

\* stoppedWatchdogMs pass with nothing written.
Quiet(c) ==
  /\ expect[c] = "armed" /\ c \notin log
  /\ Prompt => \A p \in Clients :
       (call[p].cmd = c /\ call[p].op = "stop") => call[p].at \notin {"keys", "settling"}
  /\ expect' = [expect EXCEPT ![c] = "due"]
  /\ UNCHANGED <<tui, log, watch, status, call>>

-----------------------------------------------------------------------------
\* The commands' processes.

Write(c) ==
  /\ c \in alive
  /\ log' = log \cup {c}
  /\ UNCHANGED <<tui, watch, expect, status, call>>

Exit(c) ==
  /\ MayExit /\ c \in alive
  /\ alive' = alive \ {c}
  /\ UNCHANGED <<cursor, watcher, status, call>>

Next ==
  \/ \E p \in Clients :
       \/ \E c \in Commands :
            StartCommand(p, c) \/ \E again \in BOOLEAN : StopCommand(p, c, again)
       \/ Up(p) \/ Down(p) \/ Enter(p) \/ Kill(p) \/ Settle(p) \/ Timeout(p)
  \/ Tick
  \/ \E c \in Commands : Quiet(c) \/ Write(c) \/ Exit(c)

Spec == Init /\ [][Next]_vars

\* Timers fire; a command that was started writes something; nothing makes a
\* client call.
Fairness ==
  /\ \A p \in Clients : WF_vars(Up(p) \/ Down(p) \/ Enter(p) \/ Kill(p) \/ Settle(p) \/ Timeout(p))
  /\ WF_vars(Tick)
  /\ \A c \in Commands : WF_vars(Quiet(c)) /\ WF_vars(Write(c))
FairSpec == Spec /\ Fairness

-----------------------------------------------------------------------------
(* Type correctness of the seven variables. *)
TypeOK ==
  /\ alive \subseteq Commands /\ log \subseteq Commands /\ cursor \in 0..(Panes - 1)
  /\ watch \in [Commands -> {"absent", "started", "stopped"}]
  /\ expect \in [Commands -> {"no", "armed", "due"}]
  /\ status \in [Commands -> {"idle", "starting", "running", "stopped", "errored"}]
  /\ call \in [Clients -> Calls]

(* The keys of a call start or kill no command but the one it names         *)
(* (README.md: one dev command is restarted without killing the others).   *)
OnlyTheNamed ==
  [][\A p \in Clients : (call[p].at = "keys" /\ call'[p].at = "settling") =>
       alive' \ {call[p].cmd} = alive \ {call[p].cmd}]_vars

(* A stop that returns leaves its command dead, a start leaves it alive:    *)
(* the log files speak for the command the keys went to.                   *)
ReportIsTrue ==
  [][\A p \in Clients : (call[p].at \in Busy /\ call'[p].at = "done") =>
       (call[p].cmd \in alive' <=> call[p].op = "start")]_vars

(* Once no call is under way and the watcher has seen every log, the        *)
(* registry holds alive exactly what SST runs; the next navigation counts  *)
(* its panes by it.                                                        *)
RegistryIsTrue ==
  (log = {} /\ \A p \in Clients : call[p].at \notin Busy) => Alive(status) = alive

(* A stop never runs into its 30 s, and a start into its 60 s only if the   *)
(* watcher saw the command's output between Enter and setStatus(STARTING), *)
(* which then overwrites RUNNING with nobody left to report it again.      *)
TimesOutOnlyIfEarly == \A p \in Clients : (call[p].at = "failed") => call[p].early

(* Whatever clients, clock and processes do, a command that is down has no  *)
(* stop pending in the watcher: what was asked of its last life does not   *)
(* declare its next one stopped.                                           *)
NoLeftoverHint == \A c \in Commands \ Alive(status) : expect[c] = "no"

(* Nobody waits for a status the command already has, however the calls on  *)
(* it overlap: the wait looks first, and every change wakes its waiters.   *)
NoMissedStatus ==
  \A p \in Clients : (call[p].at = "waiting") => status[call[p].cmd] \notin Targets(call[p].op)

(* Every call returns, a restart after both its halves, and well unless its *)
(* command's output was seen early.                                        *)
CallsReturn ==
  \A p \in Clients :
    (call[p].at \in Busy) ~> (call[p].at = "done" \/ (call[p].at = "failed" /\ call[p].early))
=============================================================================
