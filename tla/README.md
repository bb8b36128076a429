# Verification of sst-puppeteer

sst-puppeteer runs `sst dev` in a background daemon and lets agents drive it: a
CLI and an MCP server start sessions, wait for deploys and start, stop and
restart single dev commands. This directory holds TLA+ models of the parts where
processes, callbacks and timers meet, the TLC configurations that check them on
small instances, and TLAPS proofs of what holds for any instance. Source paths
below are relative to `src/`.

    tlc -config MCStartLock.cfg MCStartLock       # one run
    tlapm StartLockProofs.tla                     # one proof module

`PROJECT.json` lists the runs, the source lines of every definition, a plausible
bug (mutant) that breaks each checked property, the disagreements found, the
hazards and the theorems.

## The system

```
 CLI / MCP tool ──startOrAttach, stop──► SessionManager ──lock dir, meta.json──► file system
      │                                      │ spawnDaemon
      │ one JSON line over a unix socket     ▼
      └────────► IpcServer ─► SSTSession (daemon process)
                               ├─ ServerFileWatcher ─ .sst/<stage>.server ┐
                               ├─ HttpEventStream ─── GET /stream ────────┤
                               ├─ PaneLogWatcher ──── .sst/log/*.log ─────┤ sst dev
                               └─ PaneNavigator ───── keys over a PTY ────┘
```

| Part | Source | State | Operations | What is hard | What makes it correct |
|---|---|---|---|---|---|
| Session core | `shared/src/core/domain/session/sst-session.ts`, `domain/state/session-state-machine.ts` | session state, waiter lists, handlers | start, stop, waitForReady, waitForNextReady, stream and pane handlers, resync | microtasks between a state change and the call that awaits it; replayed events; commands that appear and vanish | no wake-up lost; next-ready is a whole cycle; a lost stream ends every wait |
| CommandRegistry | `domain/command/command-registry.ts` | status per command, waiters | register, unregister, applyStatus, waitForAnyStatus | overlapping waits and optimistic updates | a waiter never waits for a status the command has |
| PaneNavigator | `domain/pane/pane-navigator.ts` | system panes | navigateTo, sendKey | seconds of keystrokes between reading the order and acting | only the named command is hit |
| PaneLogWatcher | `infra/pane-log/pane-log-watcher.ts` | per pane status, growth, stop hint | addCommand, expectStop, tick | silence is the only sign of a stop | the registry agrees with SST |
| HttpEventStream | `infra/stream/http-event-stream.ts` | loop, budget, bracket scanner | start, stop, reconnect | stop during read, connect or sleep; budget resets; chunk boundaries | given up only after failed connects (violated); silent when stopped; objects exact |
| ServerFileWatcher | `infra/discovery/server-file-watcher.ts` | last URL | poll, stop | stale files | the first URL is followed |
| Start lock | `shared/src/session/locks.ts` | a directory | acquireLock, release | mkdir, stat and rmdir of several processes interleave; crashes | exclusion; the holder keeps it; waiting ends |
| SessionManager, CLI stop | `session/manager.ts`, `session/meta.ts`, `session/spawn.ts`, `cli/src/commands/stop-command.ts` | meta.json and socket per session | startOrAttach, resolve, stop, cleanup | starters, stoppers and daemons share only files and signals; all of them may die | one live session per project and stage, and it can be reached |
| Daemon and IPC | `session/daemon-entry.ts`, `session/ipc-server.ts`, `session/ipc-client.ts` | connections, in-flight aborts, shutdown flag | requests, stop_session, signals, a failing start | two exit paths at once, requests in flight, idle connections | it ends, after SST; who is still there is answered or told; a failed start stays recorded |
| Session lookup | `session/manager.ts`, CLI and MCP commands | none of its own | resolve (by id, project or neither), list, connect | directories are read one by one while daemons come and go | right about every session that serves throughout |
| Config parser | `infra/config/sst-config-parser.ts` | none | parseSstConfig | braces inside strings, escapes, comments | declarations exact |
| run_sst | `infra/process/run-sst.ts` | a child and two timers | runSst | a child that ignores SIGTERM, a descendant that keeps the pipes | over in time |
| Wire schemas, front ends | see `PROJECT.json` | none | validate, format | – | – |

## Modules

Every atomic action is what one JavaScript macrotask (or one process between two
system calls that others can observe) does. Definitions named in comments as
*mutants* are not part of any specification: they are the faulty variants against
which the properties are tested.

**SstSession** – the session core. `state` is `SessionStateMachine._current`,
`registry` the registry's statuses, `call` one wait per client, with the phase it
is in (`machine`, `command`: in a waiter list; `busy/again`, `exit/running`: the
two phases of waitForNextReady). A network chunk is dispatched event by event
(`HandleStreamEvent`) while `chunk` is not empty; a resolved promise leaves its
call `woken` until `Resume`; no macrotask starts before both are drained
(`Quiet`). **SstSessionHistory** adds an observer that notes, per call, which of the
states and statuses it waits for were seen, and in which order, so that what a
returned call claims is compared with what happened.

**CommandControl** – startCommand, stopCommand and restartCommand: one action per
keystroke (each followed by `settleMs`), the pane order computed by the registry
and by SST, the log watcher's tick over all panes, its quiet window (`Quiet`),
registry waiters, and SST's multiplexer and processes as
`e2e/fixtures/fake-sst/bin/sst.ts` describes them (external). `Tick` wakes the
waiters in the same step: promise continuations run before the next macrotask.
A command is its rank by length of name; equal lengths are left out (both sides
keep their insertion order then). A log that shrinks under a running command is
left out too, and so is what changes the list while a call is under way: a
CompleteEvent that adds or removes panes and commands, and the loss of the
stream, so that the second look at the connection in the middle of a restart
always passes. `early` in a call is an observer: the watcher saw the output of the
command before the start had set STARTING.

**EventStream** – from the server file to the reconnect budget: watcher poll, the
subscription that ends with the first URL, connect, deliver, the end of a body and
its breaking off, back-off, and the order in which `SSTSession.stop` awaits its
sources. The observer `failures` counts, unlike the loop's `attempt`, the connections
in a row that failed or delivered nothing.
**JsonFraming** – the bracket scanner of `_runOnce` character by character over
every way to cut the stream into chunks; what is dispatched is compared with
the objects that were sent. What an object is says `IsObject`, by a lexer of its
own (`After`).

**StartLock** – acquireLock and release at the grain of single file system calls;
a process that has died may be run again. `faults` is chosen at the beginning of a
behaviour among those the instance allows, so one run shows what holds when
processes only die and that waiting ends whatever happens. The observer
`snatched` notes that a reclaim has removed a directory that was not stale.
**SessionManager** – sessions of one project and stage: starters inside the lock
(one step here: `Acquire`), their scan, clean-up, mint and spawn, the daemon from
fork to exit, stops by CLI and MCP, pruning by any command that resolves a
session. **OneSession** – the abstract promise: a session begins only when none is
live, once, and ends. SessionManager implements it with
`live <- LiveIds, begun <- ids that were minted` (property `OneSessionAtATime`).

**Daemon** – one daemon from its listening socket to its exit. `caller` and `asked`
are the clients' side (`IpcClient`), `handler` is `_handleConnection` of each
connection: reading a request, in a wait that an abort can end, in a command that
none can, or in stop_session. `server` and `shuttingDown` are the server's fields,
`stopper` is `_handleStopSession`, `finisher` is `finish()` or its twin after a
failed start (they exclude each other through `exiting`). `Closed` is what
`server.close()` waits for: sockets, not the command that goes on for a client who
has left. `start`, `started` and
`sst` are `session.start()` in the background and its process. Where the exit of
SST wakes two continuations, either may run first. SessionManager's daemon is the
coarse picture of the same process as others see it on disk.

**SessionLookup** – the caller's side of `resolve` (by id, by project and stage,
without arguments), `list` and `connect`. It reads one directory after the other;
between two of its awaits any session may be made, come up, stop, fail, die or be
cleaned up (`Happens`, an external step: SessionManager has that protocol, and its
NeverAmbiguous is why a key has one directory here). `session` says what is on
disk of each session and whether its daemon answers; `stage`, `todo`, `seen` and
`target` are the locals of `resolve`; ExitCode is what the CLI makes of the
answer.

**ConfigScan** – `parseSstConfig` on texts made of the symbols its brace scanner
tells apart and of whole phrases its regular expressions look for. `Balanced` is
the index-skipping loop of `extractBalancedBraces`, one `Turn` after the other;
the reference is a lexer that goes through the text once, symbol by symbol, and
notes the mode and the depth each symbol stands in (the braces are called "open"
and "close"). Two of the three quotes are told apart, as a string remembers the one
that opened it; what TypeScript knows and neither scanner nor lexer does, the
expressions in a template and regular expressions, is text to both. **RunSst** – one child process with
the SIGTERM and SIGKILL timers and the promise of the call.

MC modules bind constants to model values and declare symmetry. Symmetry is used
only for safety runs, over clients, processes or ids that no definition
distinguishes.

## Runs

Passing runs:

| Run | Instance | Shows |
|---|---|---|
| session | 1 client, 2 autostart commands, chunks of up to 2 events, observer | types, no lost wake-up, disconnect ends waits, resync keeps statuses; what returned waits claim has happened; every wait settles |
| commands | 1 request at a time, 3 commands, 2 system panes | keys hit the named command, results are true, registry = SST at rest; a stop never times out, a start only if its output was seen too early; every request returns |
| commands_any | 3 overlapping requests on one command; exits, slow navigation | no waiter misses a status, no stop hint survives its command |
| lock | 3 processes, 2 attempts; either deaths only, or deaths, slow holders and stops | when processes only die, and until a reclaim hits a fresh directory: mutual exclusion, a holder keeps its directory; always: acquireLock returns or throws |
| manager | 2 starters, 3 ids, daemons killed | one live session, reachable, its directory the only one; implements OneSession |
| manager_live | 1 starter, 1 user of both stop commands, 2 ids, kills and crashes | starts return and free the lock; stops end daemon and SST |
| daemon | 2 clients, any requests, signals, a kill, a start that may fail anywhere | the daemon ends after SST, with nobody in a wait and, but for stop_session, with everybody answered who is still there; it keeps a failure; calls settle; a daemon told to end ends |
| units | stream: the default budget of 3; framing: 3 objects of 5 shapes, 8-byte limit; config: all texts of 6 symbols after a brace, all of 5 pieces after a declaration; lookup: 3 sessions of 2 projects; run_sst | silence after stop, the first URL followed, retries and stop end; exact framing; exact braces and declarations; a lookup is right about who serves throughout; a run is over in time |

The bounds let each hazard happen. The calls of a session do not act on one
another, so one client meets every order of its call with the session's events
(the proofs cover any number); a chunk of two events is enough for a state that
is passed through unseen, and two commands for one to vanish while the other is
awaited. One process leaves a lock behind and two contend for it, which is what a
reclaim after another one takes (lock, lock_reclaim); three ids for a session to be started, lost,
replaced and replaced again; three panes for an order that changes under a walk.
The 2 or 3 attempts of the lock (30 in the code) only shorten the wait. Two clients of a
daemon are one that stops it and one that is in the middle of something else, or
two that stop it. Seven symbols hold an escaped quote inside a string, a string with
the other quote in it, or a whole block comment, between two braces; six pieces a dev block with its command, its
autostart and something hidden in a comment or string, or two declarations. Three
sessions are two of one project that follow each other and one of another. The
five units share a run because they share nothing else: a behaviour is one of one
of them. Deadlock is checked except where the instance runs out: units (everything
sent, written or run), lock and lock_reclaim (all processes crashed).

Conditions of `commands`, and why they are separate: requests do not overlap,
commands do not end by themselves, and navigation is shorter than the 3 s quiet
window (fewer than 15 panes). Each one lifted breaks a property (below);
`commands_any` says what survives all of them. When output comes is not restricted: what comes too early is named by the
properties (TimesOutOnlyIfEarly, CallsReturn). `manager` has no stop commands for the same reason.

## Disagreements

Runs with a violation check what a comment or document says against what the
code does; `PROJECT.json` quotes the line.

| Run | What happens |
|---|---|
| session_recovery | ERROR → READY without a new BUSY is not a next-ready: the wait that was in flight times out |
| stream_budget | connections that delivered events and then broke off exhaust the reconnect budget, of which only failed connects should: `_runOnce` throws past its `dispatchedAny` |
| lock_reclaim | two waiters reclaim one stale lock; the second removes the first one's new lock |
| manager_unlock | CLI stop removes the start lock of a start in progress: two live sessions |

Other behaviours the models have, observed by lifting a condition of a passing
run or by reading the code; no run is kept for them:

- Two overlapping requests interleave their keystrokes, and Enter or x hits
  another command (`commands` with two clients: OnlyTheNamed).
- A command that ended by itself is still counted among the live panes
  (`commands` with `MayExit = TRUE`: RegistryIsTrue).
- Output that the watcher sees within 100 ms of Enter: STARTING overwrites RUNNING
  and the start fails after 60 s (`commands`, which has it: a call "failed").
- With overlapping requests a stop may time out; the hint it leaves declares its
  command stopped when it is next quiet for 3 s, though it runs.
- With 15 panes or more a command is declared stopped before x is sent, and running
  afterwards (`Prompt = FALSE`: RegistryIsTrue).
- The first wait after a good connection is half the base back-off (`attempt - 1`
  with attempt 0).
- The subscription to the server file ends with its first URL: a stale file of an
  earlier SST is followed until the budget is spent, and the fresh URL that
  replaces it is not (`Tick`; acknowledged by e2e/lifecycle.e2e.test.ts:80-84).
- A start_command or restart_command whose client has left is cut off by a SIGTERM
  with its SST: the server waits for connections only (`Closed`).
- A start whose first deployment fails is rejected with SST still running
  (`StartRejected`); the failing daemon stops it.
- `running` overwrites a `failed` the daemon has just written (`StartRejected`
  before `Promote`).
- A starting meta without pid is cleaned up although its daemon listens, once its
  starter has died (`manager` with "crash": LiveIsReachable).
- MCP stop of a booting daemon answers stopped and leaves it running (`McpStop`
  without a socket).
- A starter that died holding the lock makes starts fail with EBUSY while its
  session runs (`Acquire` needs `~LiveForKey`).
- A reused running session is reported ready without waiting (`Reuse`).
- A session that failed before its pid was written is answered as "starting, retry
  shortly" by resolve and connect for as long as its directory exists: both look
  at the null pid before the status (`ReadMeta`, `ReadToConnect` on "unborn").
- A command that resolves a session while another one stops it finds the pid alive
  and the socket dead: it kills the daemon, removes the directory and reports the
  session unhealthy (`Heal`, `Probe` on "deaf"). SST then ends because its terminal
  hangs up.
- An idle connection (a client that neither asks nor leaves) holds up a SIGTERM,
  but not stop_session: the former waits for every connection, the latter for none.
- When a stop ends SST while start() is pending, meta.json ends as failed or as
  stopped, whichever continuation writes last (`StartRejected`, `Stopped`).
- runSst settles when its pipes are closed: with a descendant that keeps them open
  nothing bounds it, the SIGKILL included (`HeirsEnd` has no fairness).
- Declarations inside comments are registered, and `dev`, `command` or `autostart`
  in a comment, a string or a nested object of the options may be taken for the
  real one (DeclarationsAreExact speaks of declarations without them).

## Fairness

- SstSession: a chunk is dispatched to its end and microtasks run (weak); the
  event loop gets to an expired timer however busy its sources are (strong for
  `Timeout`). No event, deploy or exit is assumed to come.
- CommandControl: timers fire, the watcher ticks, a quiet log becomes due, and a
  command that runs writes something. No client has to call.
- EventStream: watcher polls, a connect succeeds or fails, sleeps end, an abort is
  obeyed. The server need not come up or stay up.
- StartLock: a process inside acquireLock takes its next step; holding, releasing
  and crashing are free.
- SessionManager: processes and daemons take their next step; how a deploy ends
  is up to SST, and nobody has to call.
- Daemon: its event loop runs; the preflight ends; waits and commands end (all of
  them have time limits); SST ends once it is told to (SIGINT, then SIGKILL after
  5 s); a client that has connected asks or leaves (the CLI and the MCP server do
  both at once). Signals, kills and failures need not come.
- RunSst: its timers fire, its events come, a process ends on a signal it cannot
  withstand. Framing, config and lookup are checked for safety only.

## Proofs

| Module | Theorems | Argument |
|---|---|---|
| StartLockProofs | LockTypeCorrect, HolderIsNotRobbed, LockExclusive, any processes and attempts, any faults | the type invariant carries the attempt bound; exclusion follows from what a holder has: while processes only die, who is past mkdir has a fresh directory of its own until it releases it, dies or is snatched from, and a directory is made only where there is none |
| SstSessionProofs | TypeCorrect, WakeupsAreNotLost, NobodyWaitsDisconnected, ResyncLosesNothing; any sets of clients and commands and any chunk size | the three invariants are inductive together with `WaitsOnACommand`: who waits in the registry names a real command, without which the status it waits for means nothing; lemmas say what a notification does to a call |
| the same, of SstSessionHistory | NextReadyComesAfterBusy, NextReadyOfComesAfterAnExit, ReadyWaitsForAutostart | what has been observed of a call keeps step with its phase (`Phase`): past the first one it has seen the first thing it waits for, and the autostart commands it is still owed are among those it is going to wait for; one lemma per way a call can move |
| CommandControlProofs | TypeCorrect (keystrokes stay inside the list of panes), HintsEndWithTheirCommand, WaitersSeeTheStatus, any number of commands, panes and overlapping requests, without any of the conditions of the run `commands`; KeysReachTheNamed, ReportsAreTrue, RegistryStaysTrue, WaitsEnd under `OneAtATime`; any number of commands and panes | `Inv` is inductive as it stands; the bound on the cursor comes from the cardinality of the panes sorted before a command; a tick clears the hint of what it declares stopped and wakes who waits for it in the same step. For one request at a time `Sole` is added: the watcher, the registry and SST hold the same of every command no request is about (`Agreed`), so registry and SST sort the panes alike and the keys still to be sent lead to the row of the named command (`OnCourse`); SST's order gives every command a row of its own. A start that has not been told of early output still has its RUNNING to come (`ToBeSeen`) |
| JsonFramingProofs | FramingCutsExactly, any objects, white space, number and size of objects, and chunks | the stream is a function of the position, filled by objects and gaps; the scanner `Tracks` it: it stands between two objects with nothing open, or within one in the very state in which that object alone, lexed from its beginning, is there. One lemma per kind of character, then a chunk, then the connection |
| ConfigScanProofs | BracesBalance, DeclarationsAreRead, any texts | what a skip jumps over holds no code (`Leads`), so whenever the scanner looks it is at code, at the lexer's depth, and has passed no brace that closes (`Seen`); every turn goes on, so it gets to the end. Options cut out of a text are lexed there as in the whole, but for a constant depth (`SameLexing`), hence the dev block found in them is the one in the text |
| EventStreamProofs | StreamTypes, StoppedIsSilent, any budget | the loop runs only within the budget; it begins with a URL and has ended before the next source is stopped |
| DaemonProofs | DaemonTypes, SstIsNotLeftBehind, NobodyLosesACall, FailuresStay, any number of clients | SST runs only while `_started` holds, so both stops see it; the listener is open until somebody ends the daemon; from then on no wait is left, and once it has been waited for no socket is open; a failed start has closed the door to a stop before it writes |
| SessionManagerProofs | ManagerTypes; OneDirectory (no CLI stop); OneSessionOfAKey, LiveSessionsAreReachable, ManagerImplementsOneSession (no stop commands, starters do not crash; daemons may be killed); any number of starters and ids | first the lock: who is between acquire and release holds it, and its list covers every directory but the one it works on. Then the daemons: an id without a meta has no live daemon, and a live one is its starter's or has a running meta with its pid and socket. The refinement follows: a session begins in the step of the one holder whose directory is the only one |
| the same, of SessionLookup | LookupsAreTrue, any finite set of sessions and any keys | whoever serves throughout is in the directories to come or among those found, then is the target (a key has one directory; of a set of one element there is one to choose), then is connected |

Assumptions are the named ASSUMEs on constants, which the runs evaluate, and those
a theorem states itself (`Undisturbed`, `CliStoppers = {}`,
`OneAtATime`). They are needed: the violations
above and the observed behaviours are what happens without them. `OneAtATime`
says of CommandControl what its run says: requests do not overlap, commands do not
end by themselves and keys are sent faster than the quiet window. JsonFraming
assumes of the objects of the server that each is one (`ObjectsAssumption`: its
first bracket is closed by its last character) and of what stands between them
that it is neither bracket nor quote; ConfigScan only that its texts are texts. The
type invariants of the locks, the manager, the stream and the daemon are proved
and not spent a run on. MutualExclusion and HolderKeepsDirectory carry their
conditions themselves (deaths only, no snatched directory), so that the theorems
say of any number of processes what the run says of three: contended reclaims are
part of both, and the violation shows the exception.

The two scanners are recursions over a text. No induction theorem is used for
them: each recursive function is shown to exist and given by its steps, and where
a claim is about every position, the least position at which it fails is shown not
to exist (`LeastNatural`).

Every invariant and every action property of the passing runs is proved. Only
model-checked: liveness, and the four disagreements, which are
counterexamples.

## Not modelled

- The wire schemas and option types: declarations and the validation of single
  messages. Argument parsing, output and logging of the front ends. The PTY
  wrapper: its events are external steps.
- readCommandLogs and the tails of daemon logs: reading without state.
- `parseEnvironmentBlock` and `parseLinkArray` of the config parser; the name and the
  strings of a declaration (a phrase is one symbol).
- A CompleteEvent, or the loss of the stream, while start_command, stop_command or
  restart_command is under way (sst-session.ts:627-652, 427, 517): CommandControl's
  panes, commands and connection stay. Waits against them are SstSession's.
- A log file that shrinks while its command runs (`_checkPane` compares sizes; the
  model has "grew" or not).
- A removal between the read and the write of meta.json by one process: each pair
  is synchronous and one step here; across processes a directory could come back
  with a meta only.
- The collision check's probe of a stale URL, and a recycled pid, which is never
  taken for a daemon's. The length of back-offs: EventStream has no clock.
- start() when the stream is lost for good while SST runs: it then waits for ever,
  which nothing in the code contradicts.
