------------------------ MODULE CommandControlProofs ------------------------
(***************************************************************************)
(* Theorems about CommandControl, for any number of commands and system    *)
(* panes.  The first ones hold for any number of concurrent requests and   *)
(* whatever processes and clock do.  That keys reach the command they are  *)
(* for, that reports and the registry are true and that a wait times out   *)
(* only over output seen too early is for requests that do not overlap     *)
(* (OneAtATime).                                                           *)
(***************************************************************************)
EXTENDS CommandControl, FiniteSetTheorems, TLAPS

(* The sort puts every dev command below the system panes and inside the    *)
(* list: navigateTo's keystrokes for it stay on the screen.                *)
LEMMA PositionInPanes ==
  ASSUME NEW c \in Commands, NEW live
  PROVE  Position(c, live) \in 0..(Panes - 1)
<1> DEFINE Before(d) == IF c \in live THEN d \in live /\ d < c
                                      ELSE d \in live \/ d < c
           B == {d \in Commands \ {c} : Before(d)}
<1>1. IsFiniteSet(Commands) /\ Cardinality(Commands) = N
  <2>1. 1 \in Int /\ N \in Int /\ 1 <= N
    BY CommandAssumption
  <2> QED  BY <2>1, FS_Interval, SMT DEF Commands
<1>2. IsFiniteSet(Commands \ {c}) /\ Cardinality(Commands \ {c}) = N - 1
  BY <1>1, FS_RemoveElement
<1>3. IsFiniteSet(B) /\ Cardinality(B) <= N - 1
  <2>1. B \subseteq Commands \ {c}
    OBVIOUS
  <2> QED  BY <1>2, <2>1, FS_Subset
<1>4. Cardinality(B) \in Nat
  BY <1>3, FS_CardinalityType
<1>5. Position(c, live) = System + Cardinality(B)
  BY DEF Position
<1> QED  BY <1>3, <1>4, <1>5, CommandAssumption, SMT DEF Panes

\* What a call becomes is a call, at the stage the operator says.
LEMMA NavigateIsCall ==
  ASSUME NEW op \in {"start", "stop"}, NEW c \in Commands, NEW again \in BOOLEAN, NEW st
  PROVE  Navigate(op, c, again, st) \in Calls /\ Navigate(op, c, again, st).at = "keys"
<1>1. Position(c, Alive(st)) \in 0..(Panes - 1)
  BY PositionInPanes
<1>2. Panes \in 0..Panes
  BY CommandAssumption, SMT DEF Panes
<1> QED  BY <1>1, <1>2 DEF Navigate, Calls, Busy

LEMMA EndedIsCall ==
  \A at \in {"done", "failed"}, early \in BOOLEAN :
    Ended(at, early) \in Calls /\ Ended(at, early).at = at
<1>1. 1 \in Commands /\ 0 \in 0..Panes /\ 0 \in 0..(Panes - 1)
  BY CommandAssumption, SMT DEF Panes, Commands
<1> QED  BY <1>1 DEF Ended, Calls, Busy

\* A wait is left waiting only for a status the command does not have.
LEMMA WaitIsCall ==
  ASSUME NEW cl \in Calls, NEW st
  PROVE  /\ Wait(cl, st) \in Calls
         /\ Wait(cl, st).at = "waiting" =>
              /\ Wait(cl, st).cmd = cl.cmd /\ Wait(cl, st).op = cl.op
              /\ st[cl.cmd] \notin Targets(cl.op)
<1>1. CASE st[cl.cmd] \notin Targets(cl.op)
  BY <1>1 DEF Wait, Calls, Busy
<1>2. CASE st[cl.cmd] \in Targets(cl.op) /\ cl.again
  <2>1. Wait(cl, st) = Navigate("start", cl.cmd, FALSE, st)
    BY <1>2 DEF Wait
  <2>2. cl.cmd \in Commands
    BY DEF Calls
  <2> QED  BY <2>1, <2>2, NavigateIsCall
<1>3. CASE st[cl.cmd] \in Targets(cl.op) /\ ~cl.again
  <2>1. Wait(cl, st) = Ended("done", FALSE)
    BY <1>3 DEF Wait
  <2> QED  BY <2>1, EndedIsCall
<1> QED  BY <1>1, <1>2, <1>3

\* A tick tells a request that does not wait whether its command's output
\* was seen, and nothing else.
LEMMA LookIsCall ==
  ASSUME NEW cl \in Calls
  PROVE  LET new == [cl EXCEPT !.early = @ \/ SeenEarly(cl)]
         IN  /\ new \in Calls
             /\ new.op = cl.op /\ new.cmd = cl.cmd /\ new.again = cl.again
             /\ new.at = cl.at /\ new.up = cl.up /\ new.down = cl.down
             /\ new.early <=> cl.early \/ SeenEarly(cl)
<1> DEFINE e == cl.early \/ SeenEarly(cl)
<1>1. e \in BOOLEAN
  OBVIOUS
<1> HIDE DEF e
<1>2. /\ [cl EXCEPT !.early = e] \in Calls
      /\ [cl EXCEPT !.early = e].op = cl.op /\ [cl EXCEPT !.early = e].cmd = cl.cmd
      /\ [cl EXCEPT !.early = e].again = cl.again /\ [cl EXCEPT !.early = e].at = cl.at
      /\ [cl EXCEPT !.early = e].up = cl.up /\ [cl EXCEPT !.early = e].down = cl.down
      /\ [cl EXCEPT !.early = e].early = e
  BY <1>1 DEF Calls
<1> QED  BY <1>2 DEF e

-----------------------------------------------------------------------------
\* The invariant is inductive as it stands: the three parts need no more.
Inv == TypeOK /\ NoLeftoverHint /\ NoMissedStatus

LEMMA InitInv == Init => Inv
<1> SUFFICES ASSUME Init PROVE Inv
  OBVIOUS
<1>1. cursor \in 0..(Panes - 1)
  BY CommandAssumption, SMT DEF Init, Panes
<1>2. TypeOK
  BY <1>1, EndedIsCall DEF Init, TypeOK
<1>3. NoLeftoverHint
  BY DEF Init, NoLeftoverHint
<1>4. NoMissedStatus
  BY EndedIsCall DEF Init, NoMissedStatus
<1> QED  BY <1>2, <1>3, <1>4 DEF Inv

\* A request's own steps.
LEMMA RequestInv ==
  ASSUME Inv, NEW p \in Clients, NEW c \in Commands, NEW again \in BOOLEAN,
         \/ StartCommand(p, c) \/ StopCommand(p, c, again)
         \/ Up(p) \/ Down(p) \/ Enter(p) \/ Kill(p) \/ Settle(p) \/ Timeout(p)
  PROVE  Inv'
<1> USE DEF Inv
<1>t. call[p] \in Calls /\ Selected \subseteq Commands
  BY DEF TypeOK, Selected
<1>1. CASE StartCommand(p, c)
  <2>1. Navigate("start", c, FALSE, status) \in Calls
        /\ Navigate("start", c, FALSE, status).at = "keys"
    BY NavigateIsCall
  <2> QED  BY <1>1, <2>1 DEF StartCommand, TypeOK, NoLeftoverHint, NoMissedStatus, tui, watcher
<1>2. CASE StopCommand(p, c, again)
  <2>1. Navigate("stop", c, again, status) \in Calls
        /\ Navigate("stop", c, again, status).at = "keys"
    BY NavigateIsCall
  <2> QED  BY <1>2, <2>1 DEF StopCommand, TypeOK, NoLeftoverHint, NoMissedStatus, tui
<1>3. CASE Up(p)
  <2>1. [call[p] EXCEPT !.up = @ - 1] \in Calls /\ cursor' \in 0..(Panes - 1)
    BY <1>t, <1>3, CommandAssumption, SMT DEF Up, Calls, Panes, TypeOK
  <2> QED  BY <1>3, <2>1 DEF Up, TypeOK, NoLeftoverHint, NoMissedStatus, watcher
<1>4. CASE Down(p)
  <2>1. [call[p] EXCEPT !.down = @ - 1] \in Calls /\ cursor' \in 0..(Panes - 1)
    BY <1>t, <1>4, CommandAssumption, SMT DEF Down, Calls, Panes, TypeOK
  <2> QED  BY <1>4, <2>1 DEF Down, TypeOK, NoLeftoverHint, NoMissedStatus, watcher
<1>5. CASE Enter(p)
  <2>1. [call[p] EXCEPT !.at = "settling"] \in Calls
    BY <1>t DEF Calls, Busy
  <2> QED  BY <1>5, <1>t, <2>1 DEF Enter, TypeOK, NoLeftoverHint, NoMissedStatus, watcher
<1>6. CASE Kill(p)
  <2>1. [call[p] EXCEPT !.at = "settling"] \in Calls
    BY <1>t DEF Calls, Busy
  <2>2. cursor' \in 0..(Panes - 1)
    BY <1>6, CommandAssumption, SMT DEF Kill, Panes, TypeOK
  <2> QED  BY <1>6, <1>t, <2>1, <2>2 DEF Kill, TypeOK, NoLeftoverHint, NoMissedStatus
<1>7. CASE Settle(p)
  <2>1. call[p].cmd \in Commands
    BY <1>t DEF Calls
  <2>2. \/ status' = status
        \/ status' = [status EXCEPT ![call[p].cmd] = "starting"]
    BY <1>7 DEF Settle
  <2>3. status' \in [Commands -> {"idle", "starting", "running", "stopped", "errored"}]
    BY <2>1, <2>2 DEF TypeOK
  <2>4. call' = [call EXCEPT ![p] = Wait(call[p], status')]
    BY <1>7 DEF Settle
  <2>5. Wait(call[p], status') \in Calls
    BY <1>t, WaitIsCall
  <2>6. TypeOK'
    BY <1>7, <2>3, <2>4, <2>5 DEF Settle, TypeOK, tui, watcher
  <2>7. NoLeftoverHint'
    BY <1>7, <2>1, <2>2 DEF Settle, NoLeftoverHint, Alive, watcher, TypeOK
  <2>8. ASSUME NEW q \in Clients, call'[q].at = "waiting"
        PROVE  status'[call'[q].cmd] \notin Targets(call'[q].op)
    <3>1. CASE q = p
      BY <1>t, <2>4, <2>8, <3>1, WaitIsCall DEF TypeOK
    <3>2. CASE q # p
      <4>1. call'[q] = call[q] /\ call[q].cmd \in Commands
        BY <2>4, <3>2 DEF TypeOK, Calls
      <4>2. "starting" \notin Targets(call[q].op)
        BY DEF Targets
      <4> QED  BY <2>1, <2>2, <2>8, <4>1, <4>2 DEF NoMissedStatus, TypeOK
    <3> QED  BY <3>1, <3>2
  <2> QED  BY <2>6, <2>7, <2>8 DEF NoMissedStatus
<1>8. CASE Timeout(p)
  <2>1. call[p].early \in BOOLEAN
    BY <1>t DEF Calls
  <2>2. Ended("failed", call[p].early) \in Calls /\ Ended("failed", call[p].early).at = "failed"
    BY <2>1, EndedIsCall
  <2> QED  BY <1>8, <2>2 DEF Timeout, TypeOK, NoLeftoverHint, NoMissedStatus, tui, watcher
<1> QED  BY <1>1, <1>2, <1>3, <1>4, <1>5, <1>6, <1>7, <1>8

\* A tick clears the hint of what it declares stopped, and wakes who waits.
LEMMA TickInv ==
  ASSUME Inv, Tick
  PROVE  Inv'
<1> USE DEF Inv
<1>1. TypeOK'
  <2>1. \A p \in Clients : call[p] \in Calls
    BY DEF TypeOK
  <2>2. ASSUME NEW p \in Clients
        PROVE  call'[p] \in Calls
    <3>1. CASE call[p].at = "waiting"
      BY <2>1, <3>1, WaitIsCall DEF Tick
    <3>2. CASE call[p].at # "waiting"
      BY <2>1, <3>2, LookIsCall DEF Tick
    <3> QED  BY <3>1, <3>2
  <2>3. call' \in [Clients -> Calls]
    BY <2>2 DEF Tick
  <2> QED  BY <2>3 DEF Tick, TypeOK, tui
<1>2. ASSUME NEW c \in Commands, c \notin Alive(status')
      PROVE  expect'[c] = "no"
  <2>1. c \notin Started /\ (c \in Stopped \/ c \notin Alive(status))
    BY <1>2 DEF Tick, Alive
  <2>2. CASE c \in Stopped
    BY <2>2 DEF Tick, Forgets
  <2>3. CASE c \notin Alive(status)
    BY <2>3 DEF Tick, NoLeftoverHint
  <2> QED  BY <2>1, <2>2, <2>3
<1>3. ASSUME NEW p \in Clients, call'[p].at = "waiting"
      PROVE  status'[call'[p].cmd] \notin Targets(call'[p].op)
  <2>1. call[p] \in Calls
    BY DEF TypeOK
  <2>2. call[p].at = "waiting" /\ call'[p] = Wait(call[p], status')
    BY <1>3, <2>1, LookIsCall DEF Tick
  <2> QED  BY <1>3, <2>1, <2>2, WaitIsCall
<1> QED  BY <1>1, <1>2, <1>3 DEF NoLeftoverHint, NoMissedStatus

LEMMA ProcessInv ==
  ASSUME Inv, NEW c \in Commands, Quiet(c) \/ Write(c) \/ Exit(c)
  PROVE  Inv'
<1>1. CASE Quiet(c)
  BY <1>1 DEF Inv, Quiet, TypeOK, NoLeftoverHint, NoMissedStatus, tui
<1>2. CASE Write(c)
  BY <1>2 DEF Inv, Write, TypeOK, NoLeftoverHint, NoMissedStatus, tui
<1>3. CASE Exit(c)
  BY <1>3 DEF Inv, Exit, TypeOK, NoLeftoverHint, NoMissedStatus, watcher
<1> QED  BY <1>1, <1>2, <1>3

LEMMA StutterInv == ASSUME Inv, UNCHANGED vars PROVE Inv'
  BY DEF Inv, TypeOK, NoLeftoverHint, NoMissedStatus, vars, tui, watcher

LEMMA StepInv == Inv /\ [Next]_vars => Inv'
<1> SUFFICES ASSUME Inv, [Next]_vars PROVE Inv'
  OBVIOUS
<1>1. ASSUME NEW p \in Clients, NEW c \in Commands, StartCommand(p, c)
      PROVE  Inv'
  BY <1>1, RequestInv
<1>2. ASSUME NEW p \in Clients, NEW c \in Commands, NEW again \in BOOLEAN,
             StopCommand(p, c, again)
      PROVE  Inv'
  BY <1>2, RequestInv
<1>3. ASSUME NEW p \in Clients,
             Up(p) \/ Down(p) \/ Enter(p) \/ Kill(p) \/ Settle(p) \/ Timeout(p)
      PROVE  Inv'
  <2>1. 1 \in Commands
    BY CommandAssumption, SMT DEF Commands
  <2> QED  BY <1>3, <2>1, RequestInv
<1> QED  BY <1>1, <1>2, <1>3, TickInv, ProcessInv, StutterInv DEF Next

\* Type correctness of CommandControl.
THEOREM TypeCorrect == Spec => []TypeOK
<1>1. Inv => TypeOK
  BY DEF Inv
<1> QED  BY <1>1, InitInv, StepInv, PTL DEF Spec

\* A stop hint given to PaneLogWatcher.expectStop is gone once its command is
\* down: it cannot declare the command's next life stopped.
THEOREM HintsEndWithTheirCommand == Spec => []NoLeftoverHint
<1>1. Inv => NoLeftoverHint
  BY DEF Inv
<1> QED  BY <1>1, InitInv, StepInv, PTL DEF Spec

\* CommandRegistry's waiters: however many requests overlap on a command,
\* none is left waiting for a status the command has.
THEOREM WaitersSeeTheStatus == Spec => []NoMissedStatus
<1>1. Inv => NoMissedStatus
  BY DEF Inv
<1> QED  BY <1>1, InitInv, StepInv, PTL DEF Spec
-----------------------------------------------------------------------------
(* One request at a time, processes that end only when killed, and keys     *)
(* sent faster than stoppedWatchdogMs: what a user sees of the commands.    *)
OneAtATime == (\E p : Clients = {p}) /\ MayExit = FALSE /\ Prompt = TRUE

\* d stands above c in the list.
Above(d, c, live) == IF c \in live THEN d \in live /\ d < c ELSE d \in live \/ d < c

\* What stands above has the smaller position: whatever is above it is above
\* the lower one too, and so is it itself.
LEMMA PositionIncreases ==
  ASSUME NEW c \in Commands, NEW d \in Commands, c # d, NEW live, Above(c, d, live)
  PROVE  Position(c, live) < Position(d, live)
<1> DEFINE B(e) == {f \in Commands \ {e} : Above(f, e, live)}
<1>1. \A e \in Commands : Position(e, live) = System + Cardinality(B(e))
  BY DEF Position, Above
<1>2. IsFiniteSet(Commands)
  <2>1. 1 \in Int /\ N \in Int
    BY CommandAssumption
  <2> QED  BY <2>1, FS_Interval DEF Commands
<1>3. IsFiniteSet(B(d)) /\ c \in B(d)
  <2>1. B(d) \subseteq Commands /\ c \in B(d)
    OBVIOUS
  <2> QED  BY <2>1, <1>2, FS_Subset
<1>4. B(c) \subseteq B(d) \ {c}
  <2> SUFFICES ASSUME NEW f \in B(c)
               PROVE  f \in B(d)
    OBVIOUS
  <2>1. f \in Nat /\ c \in Nat /\ d \in Nat
    BY SMT DEF Commands
  <2>2. Above(f, d, live) /\ f # d
    BY <2>1, SMT DEF Above
  <2> QED  BY <2>2
<1>5. IsFiniteSet(B(d) \ {c}) /\ Cardinality(B(d) \ {c}) = Cardinality(B(d)) - 1
  BY <1>3, FS_RemoveElement
<1>6. IsFiniteSet(B(c)) /\ Cardinality(B(c)) <= Cardinality(B(d) \ {c})
  BY <1>4, <1>5, FS_Subset
<1>7. Cardinality(B(c)) \in Nat /\ Cardinality(B(d)) \in Nat
  BY <1>3, <1>6, FS_CardinalityType
<1> HIDE DEF B
<1> QED  BY <1>1, <1>5, <1>6, <1>7, CommandAssumption, SMT

\* No two commands share a row: a row selects the command that is put there.
LEMMA OneSelected ==
  ASSUME NEW c \in Commands, cursor = Position(c, alive)
  PROVE  Selected = {c}
<1>1. ASSUME NEW d \in Commands, d # c
      PROVE  Position(d, alive) # Position(c, alive)
  <2>1. Position(c, alive) \in Nat /\ Position(d, alive) \in Nat
    BY PositionInPanes
  <2>2. Above(c, d, alive) \/ Above(d, c, alive)
    <3>1. c \in Nat /\ d \in Nat
      BY SMT DEF Commands
    <3> QED  BY <1>1, <3>1, SMT DEF Above
  <2>3. Position(c, alive) < Position(d, alive) \/ Position(d, alive) < Position(c, alive)
    BY <1>1, <2>2, PositionIncreases
  <2> QED  BY <2>1, <2>3, SMT
<1> QED  BY <1>1 DEF Selected

\* What PaneLogWatcher, CommandRegistry and SST hold of a command that no
\* request is about: the same.
Agreed(c) ==
  /\ c \in alive <=> c \in Alive(status)
  /\ c \in alive <=> watch[c] = "started"
  /\ c \in log => c \in alive
  /\ expect[c] = "no"

\* The keys still to be sent lead to the command's row.
OnCourse(cl) ==
  LET row == Position(cl.cmd, alive)
  IN  IF cl.up > 0 THEN cursor <= cl.up /\ cl.down = row ELSE cursor + cl.down = row

\* The command of a start after Enter, and of a stop until it is seen; what a
\* start that saw nothing yet still has to come.
Starting(c) == c \in alive /\ expect[c] = "no"
Stopping(c) == c \in Alive(status) /\ watch[c] = "started" /\ expect[c] # "no"

ToBeSeen(cl) ==
  (cl.at \in {"settling", "waiting"} /\ cl.op = "start" /\ ~cl.early) =>
    watch[cl.cmd] # "started"

Underway(cl) ==
  /\ cl.op = "start" => ~cl.again
  /\ cl.at = "keys" => OnCourse(cl)
  /\ (cl.at = "keys" /\ cl.op = "start") => Agreed(cl.cmd) /\ cl.cmd \notin alive
  /\ (cl.at = "settling" /\ cl.op = "start") => Starting(cl.cmd)
  /\ (cl.at = "waiting" /\ cl.op = "start") =>
       Starting(cl.cmd) /\ status[cl.cmd] = "starting"
  /\ (cl.at \in Busy /\ cl.op = "stop") => Stopping(cl.cmd)
  /\ (cl.at \in Busy /\ cl.op = "stop") => (cl.cmd \in alive <=> cl.at = "keys")
  /\ (cl.at \in {"keys", "settling"} /\ cl.op = "stop") => expect[cl.cmd] = "armed"
  /\ cl.at \notin Busy => Agreed(cl.cmd)
  /\ ToBeSeen(cl) /\ (cl.at = "failed" => cl.early)

Sole ==
  \A p \in Clients : Underway(call[p]) /\ \A c \in Commands \ {call[p].cmd} : Agreed(c)

LEMMA InitSole == Init => Sole
<1> SUFFICES ASSUME Init, NEW p \in Clients
             PROVE  Underway(call[p]) /\ \A c \in Commands : Agreed(c)
  BY DEF Sole
<1>1. \A c \in Commands : Agreed(c)
  BY DEF Init, Agreed, Alive
<1>2. call[p] = Ended("done", FALSE) /\ 1 \in Commands
  BY CommandAssumption, SMT DEF Init, Commands
<1> QED  BY <1>1, <1>2 DEF Underway, ToBeSeen, Ended, Busy

\* Between requests, and for as long as keys are sent, the registry counts
\* the panes as SST does.
LEMMA RegistryCounts ==
  ASSUME Inv, Sole, NEW p \in Clients, call[p].at \notin Busy \/ call[p].at = "keys"
  PROVE  Alive(status) = alive
<1>1. call[p] \in Calls /\ Underway(call[p])
  BY DEF Inv, TypeOK, Sole
<1>2. \A c \in Commands \ {call[p].cmd} : c \in alive <=> c \in Alive(status)
  BY DEF Sole, Agreed
<1>3. call[p].cmd \in alive <=> call[p].cmd \in Alive(status)
  <2>1. CASE call[p].at \notin Busy
    BY <1>1, <2>1 DEF Underway, Agreed
  <2>2. CASE call[p].at = "keys"
    BY <1>1, <2>2 DEF Underway, Agreed, Stopping, Calls, Busy
  <2> QED  BY <2>1, <2>2
<1>4. Alive(status) \subseteq Commands /\ alive \subseteq Commands
  BY DEF Alive, Inv, TypeOK
<1> QED  BY <1>2, <1>3, <1>4

\* A navigation begins with enough presses of k to reach the top.
LEMMA NavigateOnCourse ==
  ASSUME Inv, NEW op, NEW c \in Commands, NEW again, NEW st, Alive(st) = alive
  PROVE  OnCourse(Navigate(op, c, again, st))
<1>1. cursor \in Nat /\ cursor <= Panes /\ Panes > 0
  BY CommandAssumption, SMT DEF Inv, TypeOK, Panes
<1> QED  BY <1>1 DEF OnCourse, Navigate

\* What a step makes of the one request and of the commands it is not about.
LEMMA SoleOf ==
  ASSUME NEW p, Clients = {p}, Underway(call[p])',
         \A c \in Commands \ {call'[p].cmd} : Agreed(c)'
  PROVE  Sole'
  BY DEF Sole

LEMMA BeginSole ==
  ASSUME Inv, Sole, NEW p, Clients = {p}, NEW c \in Commands, NEW again \in BOOLEAN,
         StartCommand(p, c) \/ StopCommand(p, c, again)
  PROVE  Sole'
<1>1. call \in [Clients -> Calls] /\ p \in Clients /\ call[p] \in Calls /\ call[p].at \notin Busy
  BY DEF StartCommand, StopCommand, Inv, TypeOK
<1>2. Alive(status) = alive
  BY <1>1, RegistryCounts
<1>3. \A d \in Commands : Agreed(d)
  BY <1>1 DEF Sole, Underway
<1>4. CASE StartCommand(p, c)
  <2> SUFFICES ASSUME NEW cl, cl = Navigate("start", c, FALSE, status)
               PROVE  Sole'
    OBVIOUS
  <2>1. call'[p] = cl /\ c \notin alive
    BY <1>1, <1>2, <1>4 DEF StartCommand
  <2>2. cl.op = "start" /\ cl.cmd = c /\ cl.again = FALSE /\ cl.at = "keys"
    BY DEF Navigate
  <2>3. OnCourse(cl)
    BY <1>2, NavigateOnCourse
  <2>4. \A d \in Commands : Agreed(d)'
    BY <1>3, <1>4 DEF StartCommand, Agreed, Alive, tui, watcher
  <2>5. OnCourse(cl)'
    BY <1>4, <2>3 DEF StartCommand, OnCourse, tui
  <2>6. Underway(cl)'
    BY <1>4, <2>1, <2>2, <2>4, <2>5 DEF Underway, ToBeSeen, Busy, StartCommand, tui
  <2> QED  BY <2>1, <2>4, <2>6, SoleOf
<1>5. CASE StopCommand(p, c, again)
  <2> SUFFICES ASSUME NEW cl, cl = Navigate("stop", c, again, status)
               PROVE  Sole'
    OBVIOUS
  <2>1. call'[p] = cl /\ c \in alive
    BY <1>1, <1>2, <1>5 DEF StopCommand
  <2>2. cl.op = "stop" /\ cl.cmd = c /\ cl.at = "keys"
    BY DEF Navigate
  <2>3. OnCourse(cl)
    BY <1>2, NavigateOnCourse
  <2>4. \A d \in Commands \ {c} : Agreed(d)'
    BY <1>3, <1>5 DEF StopCommand, Agreed, Alive, tui, Inv, TypeOK
  <2>5. OnCourse(cl)'
    BY <1>5, <2>3 DEF StopCommand, OnCourse, tui
  <2>6. Stopping(c)' /\ expect'[c] = "armed" /\ c \in alive'
    BY <1>3, <1>5, <2>1 DEF StopCommand, Agreed, Alive, Stopping, tui, Inv, TypeOK
  <2>7. Underway(cl)'
    BY <2>2, <2>5, <2>6 DEF Underway, ToBeSeen, Busy
  <2> QED  BY <2>1, <2>2, <2>4, <2>7, SoleOf
<1> QED  BY <1>4, <1>5

\* Each k brings the cursor nearer the top, each j nearer the row.
LEMMA KeySole ==
  ASSUME Inv, Sole, NEW p, Clients = {p}, Up(p) \/ Down(p)
  PROVE  Sole'
<1> DEFINE cl == call[p]
<1>1. call \in [Clients -> Calls] /\ p \in Clients /\ cl \in Calls /\ cl.at = "keys"
  BY DEF Up, Down, Inv, TypeOK
<1>2. Underway(cl) /\ OnCourse(cl)
  BY <1>1 DEF Sole, Underway
<1>3. Position(cl.cmd, alive) \in 0..(Panes - 1)
  BY <1>1, PositionInPanes DEF Calls
<1>4. /\ UNCHANGED <<alive, watcher, status>>
      /\ call'[p].op = cl.op /\ call'[p].cmd = cl.cmd /\ call'[p].again = cl.again
      /\ call'[p].at = cl.at
  BY <1>1 DEF Up, Down, Calls
<1>5. OnCourse(call[p])'
  <2>1. cl.up \in Nat /\ cl.down \in Nat /\ cursor \in Nat /\ Panes \in Nat \ {0}
    BY <1>1, CommandAssumption, SMT DEF Inv, TypeOK, Calls, Panes
  <2>2. CASE Up(p)
    <3>1. call'[p].up = cl.up - 1 /\ call'[p].down = cl.down /\ cl.up > 0
          /\ cursor' = IF cursor = 0 THEN 0 ELSE cursor - 1
      BY <1>1, <2>2 DEF Up, Calls
    <3>2. cursor <= cl.up /\ cl.down = Position(cl.cmd, alive)
      BY <1>2, <3>1 DEF OnCourse
    <3> QED  BY <1>3, <1>4, <2>1, <3>1, <3>2, SMT DEF OnCourse
  <2>3. CASE Down(p)
    <3>1. call'[p].up = 0 /\ cl.up = 0 /\ call'[p].down = cl.down - 1 /\ cl.down > 0
          /\ cursor' = IF cursor = Panes - 1 THEN cursor ELSE cursor + 1
      BY <1>1, <2>3 DEF Down, Calls
    <3>2. cursor + cl.down = Position(cl.cmd, alive)
      BY <1>2, <3>1 DEF OnCourse
    <3> QED  BY <1>3, <1>4, <2>1, <3>1, <3>2, SMT DEF OnCourse
  <2> QED  BY <2>2, <2>3 DEF Up, Down
<1>6. \A c \in Commands : Agreed(c) => Agreed(c)'
  BY <1>4 DEF Agreed, Alive, watcher
<1>7. Underway(call[p])'
  BY <1>1, <1>2, <1>4, <1>5, <1>6 DEF Underway, ToBeSeen, Busy, Calls, Stopping, Alive, watcher
<1>8. \A c \in Commands \ {call'[p].cmd} : Agreed(c)'
  BY <1>1, <1>4, <1>6 DEF Sole
<1> QED  BY <1>7, <1>8, SoleOf

\* Enter and x reach the command they are for, and it alone.
LEMMA ReachesTheNamed ==
  ASSUME Inv, Sole, NEW p \in Clients, Arrived(p)
  PROVE  Selected = {call[p].cmd} /\ call[p].cmd \in Commands
<1>1. call[p] \in Calls /\ OnCourse(call[p])
  BY DEF Arrived, Inv, TypeOK, Sole, Underway
<1>2. cursor \in Nat /\ call[p].up = 0 /\ call[p].down = 0
  BY CommandAssumption, SMT DEF Arrived, Inv, TypeOK, Panes
<1>3. cursor = Position(call[p].cmd, alive)
  BY <1>1, <1>2, SMT DEF OnCourse
<1> QED  BY <1>1, <1>3, OneSelected DEF Calls

LEMMA EnterSole ==
  ASSUME Inv, Sole, NEW p, Clients = {p}, Enter(p)
  PROVE  Sole'
<1> SUFFICES ASSUME NEW k, k = call[p].cmd
             PROVE  Sole'
  OBVIOUS
<1>1. call \in [Clients -> Calls] /\ p \in Clients /\ call[p] \in Calls
      /\ call[p].at = "keys" /\ call[p].op = "start"
  BY DEF Enter, Arrived, Inv, TypeOK
<1>2. alive' = alive \cup {k} /\ k \in Commands
  BY <1>1, ReachesTheNamed DEF Enter
<1>3. call'[p] = [call[p] EXCEPT !.at = "settling"]
  BY <1>1 DEF Enter
<1>4. call'[p].op = "start" /\ call'[p].at = "settling" /\ call'[p].cmd = k
      /\ call'[p].again = call[p].again
  BY <1>1, <1>3 DEF Calls
<1>5. Agreed(k) /\ k \notin alive /\ ~call[p].again
  BY <1>1 DEF Sole, Underway
<1>6. Starting(k)' /\ watch'[k] # "started"
  BY <1>2, <1>5 DEF Enter, Agreed, Starting, watcher
<1>7. Underway(call[p])'
  BY <1>4, <1>5, <1>6 DEF Underway, ToBeSeen, Busy
<1>8. \A c \in Commands \ {k} : Agreed(c)'
  BY <1>1, <1>2 DEF Enter, Sole, Agreed, Alive, watcher
<1> QED  BY <1>4, <1>7, <1>8, SoleOf

LEMMA KillSole ==
  ASSUME Inv, Sole, NEW p, Clients = {p}, Kill(p)
  PROVE  Sole'
<1> SUFFICES ASSUME NEW k, k = call[p].cmd
             PROVE  Sole'
  OBVIOUS
<1>1. call \in [Clients -> Calls] /\ p \in Clients /\ call[p] \in Calls
      /\ call[p].at = "keys" /\ call[p].op = "stop"
  BY DEF Kill, Arrived, Inv, TypeOK
<1>2. k \in Commands /\ alive' = alive \ {k} /\ log' \ {k} = log \ {k}
  BY <1>1, ReachesTheNamed DEF Kill
<1>3. call'[p] = [call[p] EXCEPT !.at = "settling"]
  BY <1>1 DEF Kill
<1>4. call'[p].op = "stop" /\ call'[p].at = "settling" /\ call'[p].cmd = k
  BY <1>1, <1>3 DEF Calls
<1>5. Stopping(k) /\ expect[k] = "armed"
  BY <1>1 DEF Sole, Underway, Busy
<1>6. Stopping(k)' /\ expect'[k] = "armed" /\ k \notin alive'
  BY <1>2, <1>5 DEF Kill, Stopping, Alive
<1>7. Underway(call[p])'
  BY <1>4, <1>6 DEF Underway, ToBeSeen, Busy
<1>8. \A c \in Commands \ {k} : Agreed(c)'
  BY <1>1, <1>2 DEF Kill, Sole, Agreed, Alive
<1> QED  BY <1>4, <1>7, <1>8, SoleOf

LEMMA SettleSole ==
  ASSUME Inv, Sole, NEW p, Clients = {p}, Settle(p)
  PROVE  Sole'
<1> SUFFICES ASSUME NEW k, k = call[p].cmd
             PROVE  Sole'
  OBVIOUS
<1>1. call \in [Clients -> Calls] /\ p \in Clients /\ call[p] \in Calls
      /\ call[p].at = "settling" /\ k \in Commands /\ call[p].op \in {"start", "stop"}
  BY DEF Settle, Inv, TypeOK, Calls
<1>2. Underway(call[p]) /\ status \in [Commands -> {"idle", "starting", "running", "stopped", "errored"}]
  BY <1>1 DEF Sole, Inv, TypeOK
<1>3. status'[k] \notin Targets(call[p].op)
  <2>1. CASE call[p].op = "start"
    BY <1>1, <1>2, <2>1 DEF Settle, Targets
  <2>2. CASE call[p].op = "stop"
    <3>1. status'[k] = status[k] /\ Stopping(k)
      BY <1>1, <1>2, <2>2 DEF Settle, Underway, Busy
    <3> QED  BY <2>2, <3>1 DEF Stopping, Alive, Targets
  <2> QED  BY <1>1, <2>1, <2>2
<1>4. call'[p] = [call[p] EXCEPT !.at = "waiting"]
  BY <1>1, <1>3 DEF Settle, Wait
<1>5. call'[p].op = call[p].op /\ call'[p].at = "waiting" /\ call'[p].cmd = k
      /\ call'[p].again = call[p].again /\ call'[p].early = call[p].early
  BY <1>1, <1>4 DEF Calls
<1>6. \A c \in Commands \ {k} : status'[c] = status[c]
  BY <1>1, <1>2 DEF Settle
<1>7. Underway(call[p])'
  <2>1. CASE call[p].op = "start"
    <3>1. status'[k] = "starting" /\ Starting(k)' /\ ~call[p].again
      BY <1>1, <1>2, <2>1 DEF Settle, Underway, Starting, tui, watcher
    <3>2. ToBeSeen(call[p])'
      BY <1>1, <1>2, <1>5 DEF Settle, Underway, ToBeSeen, watcher
    <3> QED  BY <1>5, <2>1, <3>1, <3>2 DEF Underway, Busy
  <2>2. CASE call[p].op = "stop"
    <3>1. Stopping(k) /\ status' = status /\ k \notin alive
      BY <1>1, <1>2, <2>2 DEF Settle, Underway, Busy
    <3>2. Stopping(k)' /\ k \notin alive'
      BY <3>1 DEF Settle, Stopping, Alive, tui, watcher
    <3> QED  BY <1>5, <2>2, <3>2 DEF Underway, ToBeSeen, Busy
  <2> QED  BY <1>1, <2>1, <2>2
<1>8. \A c \in Commands \ {k} : Agreed(c)'
  BY <1>1, <1>6 DEF Settle, Sole, Agreed, Alive, tui, watcher
<1> QED  BY <1>5, <1>7, <1>8, SoleOf

\* A stop can always end. A start cannot once its command's output was seen
\* while the cursor settled; what it gives up on then is a command that runs.
LEMMA TimeoutSole ==
  ASSUME Inv, Sole, NEW p, Clients = {p}, Timeout(p)
  PROVE  Sole'
<1> SUFFICES ASSUME NEW k, k = call[p].cmd
             PROVE  Sole'
  OBVIOUS
<1>1. call \in [Clients -> Calls] /\ p \in Clients /\ call[p] \in Calls
      /\ call[p].at = "waiting" /\ k \in Commands /\ call[p].op \in {"start", "stop"}
  BY DEF Timeout, Inv, TypeOK, Calls
<1>2. Underway(call[p])
  BY <1>1 DEF Sole
<1>3. call[p].op = "start"
  BY <1>1, <1>2 DEF Underway, Busy, Stopping, Timeout, CanEnd
<1>4. Starting(k) /\ status[k] = "starting" /\ watch[k] = "started"
  BY <1>1, <1>2, <1>3 DEF Underway, Starting, Timeout, CanEnd
<1>5. call[p].early /\ \A c \in Commands : Agreed(c)
  BY <1>1, <1>2, <1>3, <1>4 DEF Sole, Starting, Agreed, Alive, Underway, ToBeSeen
<1>6. \A c \in Commands : Agreed(c)'
  BY <1>5 DEF Timeout, Agreed, Alive, tui, watcher
<1>7. call'[p] = Ended("failed", call[p].early) /\ 1 \in Commands
  BY <1>1, CommandAssumption, SMT DEF Timeout, Commands
<1>8. /\ call'[p].op = "stop" /\ call'[p].cmd = 1 /\ call'[p].at = "failed"
      /\ call'[p].early
  BY <1>5, <1>7 DEF Ended
<1>9. Underway(call[p])'
  BY <1>6, <1>7, <1>8 DEF Underway, ToBeSeen, Busy
<1> QED  BY <1>6, <1>9, SoleOf

\* A tick tells nothing new of a command no request is about.
LEMMA TickAgreed ==
  ASSUME Tick, NEW c \in Commands, Agreed(c)
  PROVE  Agreed(c)' /\ status'[c] = status[c]
<1>1. c \notin Started /\ c \notin Stopped
  BY DEF Agreed, Started, Stopped
<1> QED  BY <1>1 DEF Tick, Agreed, Alive, tui

LEMMA TickSole ==
  ASSUME Inv, Sole, NEW p, Clients = {p}, Tick
  PROVE  Sole'
<1> SUFFICES ASSUME NEW k, k = call[p].cmd
             PROVE  Sole'
  OBVIOUS
<1>1. call \in [Clients -> Calls] /\ p \in Clients /\ call[p] \in Calls
      /\ k \in Commands /\ call[p].op \in {"start", "stop"} /\ Underway(call[p])
  BY DEF Sole, Inv, TypeOK, Calls
<1>2. alive' = alive /\ cursor' = cursor /\ log' = {}
  BY DEF Tick, tui
<1>3. \A c \in Commands \ {k} : Agreed(c) /\ Agreed(c)' /\ status'[c] = status[c]
  BY <1>1, TickAgreed DEF Sole
<1>4. call[p].at # "waiting" =>
        /\ call'[p].op = call[p].op /\ call'[p].cmd = k /\ call'[p].again = call[p].again
        /\ call'[p].at = call[p].at /\ call'[p].up = call[p].up /\ call'[p].down = call[p].down
        /\ call'[p].early <=> call[p].early \/ SeenEarly(call[p])
  BY <1>1, LookIsCall DEF Tick
<1>5. call[p].at = "waiting" => call'[p] = Wait(call[p], status')
  BY <1>1 DEF Tick
<1>6. CASE call[p].at \notin Busy \/ (call[p].at = "keys" /\ call[p].op = "start")
  <2>1. Agreed(k)'
    BY <1>1, <1>6, TickAgreed DEF Underway, Busy
  <2>2. Underway(call[p])'
    BY <1>1, <1>2, <1>4, <1>6, <2>1 DEF Underway, ToBeSeen, Busy, OnCourse
  <2> QED  BY <1>3, <1>4, <1>6, <2>2, SoleOf DEF Busy
<1>7. CASE call[p].at \in {"keys", "settling"} /\ call[p].op = "stop"
  <2>1. Stopping(k) /\ expect[k] = "armed"
    BY <1>1, <1>7 DEF Underway, Busy
  <2>2. k \notin Started /\ k \notin Stopped
    BY <2>1 DEF Started, Stopped, Stopping
  <2>3. Stopping(k)' /\ expect'[k] = "armed"
    BY <1>1, <2>1, <2>2 DEF Tick, Stopping, Alive, Forgets
  <2>4. Underway(call[p])'
    BY <1>1, <1>2, <1>4, <1>7, <2>1, <2>3 DEF Underway, ToBeSeen, Busy, OnCourse
  <2> QED  BY <1>3, <1>4, <1>7, <2>4, SoleOf
<1>8. CASE call[p].at = "settling" /\ call[p].op = "start"
  <2>1. Starting(k) /\ ToBeSeen(call[p]) /\ ~call[p].again
    BY <1>1, <1>8 DEF Underway
  <2>2. k \notin Stopped
    BY <2>1 DEF Stopped, Starting
  <2>3. Starting(k)'
    BY <1>1, <1>2, <2>1, <2>2 DEF Tick, Starting
  <2>4. ToBeSeen(call[p])'
    <3> SUFFICES ASSUME ~call'[p].early
                 PROVE  watch'[k] # "started"
      BY <1>4, <1>8 DEF ToBeSeen
    <3>1. k \notin Started /\ watch[k] # "started"
      BY <1>4, <1>8, <2>1 DEF SeenEarly, ToBeSeen
    <3> QED  BY <1>1, <2>2, <3>1 DEF Tick
  <2>5. Underway(call[p])'
    BY <1>4, <1>8, <2>1, <2>3, <2>4 DEF Underway, Busy
  <2> QED  BY <1>3, <1>4, <1>8, <2>5, SoleOf
<1>9. CASE call[p].at = "waiting" /\ call[p].op = "start"
  <2>1. Starting(k) /\ status[k] = "starting" /\ ~call[p].again /\ ToBeSeen(call[p])
    BY <1>1, <1>9 DEF Underway
  <2>2. k \notin Stopped
    BY <2>1 DEF Stopped, Starting
  <2>3. CASE k \in Started
    <3>1. status'[k] = "running" /\ watch'[k] = "started" /\ expect'[k] = "no"
      BY <1>1, <2>1, <2>3 DEF Tick, Starting
    <3>2. Agreed(k)'
      BY <1>1, <1>2, <2>1, <3>1 DEF Agreed, Alive, Starting
    <3>3. call'[p] = Ended("done", FALSE) /\ 1 \in Commands
      <4>1. status'[call[p].cmd] \in Targets(call[p].op)
        BY <1>9, <3>1 DEF Targets
      <4>2. 1 \in Commands
        BY CommandAssumption, SMT DEF Commands
      <4> QED  BY <1>5, <1>9, <2>1, <4>1, <4>2, Zenon DEF Wait
    <3>4. \A c \in Commands : Agreed(c)'
      BY <1>3, <3>2
    <3>5. Underway(call[p])'
      BY <3>3, <3>4 DEF Underway, ToBeSeen, Ended, Busy
    <3> QED  BY <3>4, <3>5, SoleOf
  <2>4. CASE k \notin Started
    <3>1. status'[k] = "starting" /\ watch'[k] = watch[k] /\ expect'[k] = "no"
      BY <1>1, <2>1, <2>2, <2>4 DEF Tick, Starting
    <3>2. call'[p] = [call[p] EXCEPT !.at = "waiting"]
      BY <1>5, <1>9, <3>1 DEF Wait, Targets
    <3>3. call'[p].op = "start" /\ call'[p].at = "waiting" /\ call'[p].cmd = k
          /\ ~call'[p].again /\ call'[p].early = call[p].early
      BY <1>1, <1>9, <2>1, <3>2 DEF Calls
    <3>4. Starting(k)'
      BY <1>2, <2>1, <3>1 DEF Starting
    <3>5. Underway(call[p])'
      BY <1>9, <2>1, <3>1, <3>3, <3>4 DEF Underway, ToBeSeen, Busy
    <3> QED  BY <1>3, <3>3, <3>5, SoleOf
  <2> QED  BY <2>3, <2>4
<1>10. CASE call[p].at = "waiting" /\ call[p].op = "stop"
  <2>1. Stopping(k) /\ k \notin alive
    BY <1>1, <1>10 DEF Underway, Busy
  <2>2. k \notin Started
    BY <2>1 DEF Started, Stopping
  <2>3. CASE k \in Stopped
    <3>1. status'[k] = "stopped" /\ watch'[k] = "stopped" /\ expect'[k] = "no"
      BY <1>1, <2>2, <2>3 DEF Tick, Forgets
    <3>2. Agreed(k)'
      BY <1>1, <1>2, <2>1, <3>1 DEF Agreed, Alive
    <3>3. \A c \in Commands : Agreed(c)'
      BY <1>3, <3>2
    <3>4. CASE ~call[p].again
      <4>1. call'[p] = Ended("done", FALSE) /\ 1 \in Commands
        <5>1. status'[call[p].cmd] \in Targets(call[p].op)
          BY <1>10, <3>1 DEF Targets
        <5>2. 1 \in Commands
          BY CommandAssumption, SMT DEF Commands
        <5> QED  BY <1>5, <1>10, <3>4, <5>1, <5>2, Zenon DEF Wait
      <4>2. Underway(call[p])'
        BY <3>3, <4>1 DEF Underway, ToBeSeen, Ended, Busy
      <4> QED  BY <3>3, <4>2, SoleOf
    <3>5. CASE call[p].again
      <4> SUFFICES ASSUME NEW cl, cl = Navigate("start", k, FALSE, status')
                   PROVE  Sole'
        OBVIOUS
      <4>1. call'[p] = cl
        BY <1>5, <1>10, <3>1, <3>5 DEF Wait, Targets
      <4>2. cl.op = "start" /\ cl.cmd = k /\ cl.again = FALSE /\ cl.at = "keys"
        BY DEF Navigate
      <4>3. Alive(status') = alive
        <5>1. \A c \in Commands : c \in alive <=> c \in Alive(status')
          BY <1>2, <3>3 DEF Agreed
        <5> QED  BY <5>1 DEF Alive, Inv, TypeOK
      <4>4. OnCourse(cl)
        BY <1>1, <4>3, NavigateOnCourse
      <4>5. OnCourse(cl)'
        BY <1>2, <4>4 DEF OnCourse
      <4>6. Underway(cl)'
        BY <1>2, <2>1, <3>2, <4>2, <4>5 DEF Underway, ToBeSeen, Busy
      <4> QED  BY <3>3, <4>1, <4>6, SoleOf
    <3> QED  BY <3>4, <3>5
  <2>4. CASE k \notin Stopped
    <3>1. status'[k] = status[k] /\ watch'[k] = watch[k] /\ expect'[k] # "no"
      BY <1>1, <2>1, <2>2, <2>4 DEF Tick, Stopping, Forgets
    <3>2. Stopping(k)'
      BY <2>1, <3>1 DEF Stopping, Alive
    <3>3. call'[p] = [call[p] EXCEPT !.at = "waiting"]
      BY <1>5, <1>10, <2>1, <3>1 DEF Wait, Targets, Stopping, Alive
    <3>4. call'[p].op = "stop" /\ call'[p].at = "waiting" /\ call'[p].cmd = k
      BY <1>1, <1>10, <3>3 DEF Calls
    <3>5. Underway(call[p])'
      BY <1>2, <2>1, <3>2, <3>4 DEF Underway, ToBeSeen, Busy
    <3> QED  BY <1>3, <3>4, <3>5, SoleOf
  <2> QED  BY <2>3, <2>4
<1> QED  BY <1>1, <1>6, <1>7, <1>8, <1>9, <1>10 DEF Busy

LEMMA ProcessSole ==
  ASSUME Inv, Sole, OneAtATime, NEW p, Clients = {p}, NEW c \in Commands,
         Quiet(c) \/ Write(c) \/ Exit(c)
  PROVE  Sole'
<1> SUFFICES ASSUME NEW k, k = call[p].cmd
             PROVE  Sole'
  OBVIOUS
<1>1. call \in [Clients -> Calls] /\ p \in Clients /\ call[p] \in Calls
      /\ k \in Commands /\ call[p].op \in {"start", "stop"} /\ Underway(call[p])
      /\ \A d \in Commands \ {k} : Agreed(d)
  BY DEF Sole, Inv, TypeOK, Calls
<1>2. CASE Quiet(c)
  <2>1. /\ UNCHANGED <<alive, cursor, log, watch, status, call>>
        /\ \A d \in Commands \ {c} : expect'[d] = expect[d]
        /\ expect[c] = "armed" /\ expect'[c] = "due"
    BY <1>2 DEF Quiet, tui, Inv, TypeOK
  <2>2. c = k /\ call[p].at = "waiting" /\ call[p].op = "stop"
    BY <1>1, <1>2, <2>1 DEF Quiet, OneAtATime, Underway, Agreed, Starting, Calls, Busy
  <2>3. Stopping(k) /\ k \notin alive
    BY <1>1, <2>2 DEF Underway, Busy
  <2>4. Stopping(k)'
    BY <2>1, <2>2, <2>3 DEF Stopping, Alive
  <2>5. Underway(call[p])'
    BY <1>1, <2>1, <2>2, <2>3, <2>4 DEF Underway, ToBeSeen, Busy
  <2>6. \A d \in Commands \ {k} : Agreed(d)'
    BY <1>1, <2>1, <2>2 DEF Agreed, Alive
  <2> QED  BY <2>1, <2>5, <2>6, SoleOf
<1>3. CASE Write(c)
  <2>1. c \in alive /\ log' = log \cup {c} /\ UNCHANGED <<alive, cursor, watch, expect, status, call>>
    BY <1>3 DEF Write, tui
  <2>2. \A d \in Commands : Agreed(d) => Agreed(d)'
    BY <2>1 DEF Agreed, Alive
  <2>3. Underway(call[p])'
    BY <1>1, <2>1, <2>2 DEF Underway, ToBeSeen, OnCourse, Starting, Stopping, Alive
  <2> QED  BY <1>1, <2>1, <2>2, <2>3, SoleOf
<1>4. CASE Exit(c)
  BY <1>4 DEF Exit, OneAtATime
<1> QED  BY <1>2, <1>3, <1>4

LEMMA StepSole ==
  ASSUME Inv, Sole, OneAtATime, [Next]_vars
  PROVE  Sole'
<1>1. PICK p : Clients = {p}
  BY DEF OneAtATime
<1>2. ASSUME NEW q \in Clients, NEW c \in Commands, NEW again \in BOOLEAN,
             StartCommand(q, c) \/ StopCommand(q, c, again)
      PROVE  Sole'
  BY <1>1, <1>2, BeginSole
<1>3. ASSUME NEW q \in Clients,
             Up(q) \/ Down(q) \/ Enter(q) \/ Kill(q) \/ Settle(q) \/ Timeout(q)
      PROVE  Sole'
  BY <1>1, <1>3, KeySole, EnterSole, KillSole, SettleSole, TimeoutSole
<1>4. ASSUME NEW c \in Commands, Quiet(c) \/ Write(c) \/ Exit(c)
      PROVE  Sole'
  BY <1>1, <1>4, ProcessSole
<1>5. CASE Tick
  BY <1>1, <1>5, TickSole
<1>6. CASE UNCHANGED vars
  BY <1>6 DEF Sole, Underway, ToBeSeen, OnCourse, Agreed, Starting, Stopping, Alive, vars, tui, watcher
<1> QED  BY <1>2, <1>3, <1>4, <1>5, <1>6 DEF Next

LEMMA AlwaysSole == ASSUME OneAtATime PROVE Spec => [](Inv /\ Sole)
<1>1. Inv /\ Sole /\ [Next]_vars => (Inv /\ Sole)'
  BY StepInv, StepSole
<1> QED  BY <1>1, InitInv, InitSole, PTL DEF Spec

\* Only Enter and x, pressed on the request's own row, start or end a process.
LEMMA AliveChanges ==
  ASSUME Inv, Sole, OneAtATime, [Next]_vars, NEW p \in Clients
  PROVE  alive' = alive \/ (Arrived(p) /\ alive' \ {call[p].cmd} = alive \ {call[p].cmd})
<1>1. PICK q : Clients = {q}
  BY DEF OneAtATime
<1>2. ASSUME Enter(p) \/ Kill(p)
      PROVE  Arrived(p) /\ alive' \ {call[p].cmd} = alive \ {call[p].cmd}
  BY <1>2, ReachesTheNamed DEF Enter, Kill
<1>3. ASSUME ~Enter(p), ~Kill(p)
      PROVE  alive' = alive
  BY <1>1, <1>3 DEF OneAtATime, Next, StartCommand, StopCommand, Up, Down, Settle, Timeout, Tick,
                    Quiet, Write, Exit, vars, tui
<1> QED  BY <1>2, <1>3

\* The keys of PaneNavigator.navigateTo reach the command they are for: with
\* one request at a time, whatever runs and wherever the cursor was, Enter and
\* x touch no other process.
THEOREM KeysReachTheNamed == ASSUME OneAtATime PROVE Spec => OnlyTheNamed
<1> DEFINE Spares(p) == (call[p].at = "keys" /\ call'[p].at = "settling") =>
                          alive' \ {call[p].cmd} = alive \ {call[p].cmd}
<1>1. Inv /\ Sole /\ [Next]_vars => [\A p \in Clients : Spares(p)]_vars
  BY AliveChanges
<1> QED  BY <1>1, AlwaysSole, PTL DEF Spec, OnlyTheNamed

\* A request ends well only after its keys have done their work.
LEMMA DoneAfterWork ==
  ASSUME Inv, Sole, OneAtATime, [Next]_vars, NEW p \in Clients,
         call[p].at \in Busy, call'[p].at = "done"
  PROVE  call[p].at \in {"settling", "waiting"} /\ alive' = alive
<1>1. PICK q : Clients = {q}
  BY DEF OneAtATime
<1>2. call[p] \in Calls /\ call \in [Clients -> Calls]
  BY DEF Inv, TypeOK
<1>3. ASSUME call[p].at = "keys"
      PROVE  call'[p].at # "done"
  <2>1. Up(p) => call'[p].at = "keys"
    BY <1>2, <1>3 DEF Up, Calls
  <2>2. Down(p) => call'[p].at = "keys"
    BY <1>2, <1>3 DEF Down, Calls
  <2>3. Enter(p) \/ Kill(p) => call'[p].at = "settling"
    BY <1>2 DEF Enter, Kill, Calls
  <2>4. \A c \in Commands : /\ ~StartCommand(p, c)
                            /\ \A again \in BOOLEAN : ~StopCommand(p, c, again)
    BY <1>3 DEF StartCommand, StopCommand, Busy
  <2>5. ~Settle(p) /\ ~Timeout(p)
    BY <1>3 DEF Settle, Timeout
  <2>6. (UNCHANGED vars \/ \E c \in Commands : Quiet(c) \/ Write(c) \/ Exit(c))
          => call'[p] = call[p]
    BY DEF Quiet, Write, Exit, vars
  <2>7. Tick => call'[p].at = call[p].at
    BY <1>2, <1>3, LookIsCall DEF Tick
  <2> QED  BY <1>1, <1>3, <2>1, <2>2, <2>3, <2>4, <2>5, <2>6, <2>7 DEF Next
<1>4. call[p].at \in {"settling", "waiting"}
  BY <1>3 DEF Busy
<1> QED  BY <1>4, AliveChanges DEF Arrived

\* What a request reports happened to the command it named: a start that
\* returns leaves it running, a stop leaves it dead, whatever the other
\* commands write into their logs meanwhile.
THEOREM ReportsAreTrue == ASSUME OneAtATime PROVE Spec => ReportIsTrue
<1> DEFINE True(p) == (call[p].at \in Busy /\ call'[p].at = "done") =>
                        (call[p].cmd \in alive' <=> call[p].op = "start")
<1>1. ASSUME Inv, Sole, [Next]_vars, NEW p \in Clients
      PROVE  True(p)
  <2> SUFFICES ASSUME call[p].at \in Busy, call'[p].at = "done"
               PROVE  call[p].cmd \in alive' <=> call[p].op = "start"
    OBVIOUS
  <2>1. call[p].at \in {"settling", "waiting"} /\ alive' = alive
    BY <1>1, DoneAfterWork
  <2>2. Underway(call[p]) /\ call[p].op \in {"start", "stop"}
    BY <1>1 DEF Sole, Inv, TypeOK, Calls
  <2>3. call[p].op = "start" => call[p].cmd \in alive
    BY <2>1, <2>2 DEF Underway, Starting
  <2>4. call[p].op = "stop" => call[p].cmd \notin alive
    BY <2>1, <2>2 DEF Underway, Busy
  <2> QED  BY <2>1, <2>2, <2>3, <2>4
<1>2. Inv /\ Sole /\ [Next]_vars => [\A p \in Clients : True(p)]_vars
  BY <1>1
<1> QED  BY <1>2, AlwaysSole, PTL DEF Spec, ReportIsTrue

\* Between requests CommandRegistry holds alive exactly what SST runs, so the
\* next navigation counts the panes right.
THEOREM RegistryStaysTrue == ASSUME OneAtATime PROVE Spec => []RegistryIsTrue
<1>1. PICK p : Clients = {p}
  BY DEF OneAtATime
<1>2. Inv /\ Sole => RegistryIsTrue
  BY <1>1, RegistryCounts DEF RegistryIsTrue, Busy
<1> QED  BY <1>2, AlwaysSole, PTL

\* waitForCommandStatus and its 60 s and 30 s: whatever the commands write and
\* when, a stop is never given up, and a start only after PaneLogWatcher saw
\* its command's output before setStatus(STARTING) overwrote the RUNNING.
THEOREM WaitsEnd == ASSUME OneAtATime PROVE Spec => []TimesOutOnlyIfEarly
<1>1. Inv /\ Sole => TimesOutOnlyIfEarly
  BY DEF Sole, Underway, TimesOutOnlyIfEarly
<1> QED  BY <1>1, AlwaysSole, PTL
=============================================================================
