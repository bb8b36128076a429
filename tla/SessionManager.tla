--------------------------- MODULE SessionManager ---------------------------
(***************************************************************************)
(* The sessions of one (projectDir, stage) on disk and their daemons:      *)
(* SessionManager (startOrAttach, resolve, stop), the CLI's stop and       *)
(* list-sessions commands, meta.json, spawnDaemon and the life of a daemon *)
(* from fork to exit.  Starters and stoppers are processes of their own    *)
(* and share only the file system, signals and the daemons' sockets.       *)
(*                                                                         *)
(* A step is what one process does between two points where another        *)
(* process's file operations can matter.  The start lock is atomic here    *)
(* (StartLock has its protocol), a recycled pid is not confused with a     *)
(* daemon's, and what the daemon serves is SstSession.                     *)
(***************************************************************************)
EXTENDS Naturals

CONSTANTS
  Ids,           \* session ids randomUUID may mint
  Starters,      \* processes that call startOrAttach
  CliStoppers,   \* who runs the CLI's stop, one call after the other
  McpStoppers,   \* who calls the MCP tool stop_session; perhaps the same
  Nobody, Orphaned,  \* a free lock, and one whose process has died
  Faults         \* "kill": a daemon dies; "crash": a starter dies

ASSUME NobodyAssumption == Nobody # Orphaned /\ Nobody \notin Starters /\ Orphaned \notin Starters
ASSUME RolesAssumption ==
  Starters \cap CliStoppers = {} /\ Starters \cap McpStoppers = {}

VARIABLES
  meta,     \* meta.json of each session: status and whether it knows the pid
  daemon,   \* the daemon process of each session
  sock,     \* sessions whose socket path leads to a listening daemon
  told,     \* sessions whose daemon has sent its `ready' message
  sst,      \* sessions whose SST process serves
  lock,     \* the start lock
  task,     \* what each process is doing, to which session
  answer    \* what its last call returned

vars == <<meta, daemon, sock, told, sst, lock, task, answer>>

Procs == Starters \cup CliStoppers \cup McpStoppers
NoId == "no session"

Statuses == {"none", "starting", "running", "stopped", "failed"}
NoMeta == [status |-> "none", pid |-> FALSE]

\* A daemon boots, binds its socket, checks for a running SST and spawns its
\* own ("serving", later "ready"); it ends by a stop ("stopping", or
\* "aborting" while start() is pending), or because start() failed.
Live == {"boot", "loaded", "listening", "serving", "ready"}
Closing == {"stopping", "aborting", "aborted", "exiting", "failing"}
Alive == Live \cup Closing
DaemonStates == {"none", "dead", "failed"} \cup Alive

Steps == {"idle", "scan", "clean", "spawn", "release", "wait",
          "poll", "quit", "unlock"}
Idle == [step |-> "idle", id |-> NoId, todo |-> {}]
NoAnswer == [result |-> "none", id |-> NoId]

ManagerInit ==
  /\ meta = [id \in Ids |-> NoMeta]
  /\ daemon = [id \in Ids |-> "none"]
  /\ sock = {} /\ told = {} /\ sst = {}
  /\ lock = Nobody
  /\ task = [p \in Procs |-> Idle]
  /\ answer = [p \in Procs |-> NoAnswer]

-----------------------------------------------------------------------------
\* probeLiveness; without a pid it answers no to both.
PidAlive(id) == meta[id].pid /\ daemon[id] \in Alive
SocketAlive(id) == meta[id].pid /\ id \in sock
Serves(id) == PidAlive(id) /\ SocketAlive(id)

LiveForKey == \E id \in Ids : meta[id].status = "running" /\ Serves(id)

SetStatus(id, s) == meta' = [meta EXCEPT ![id].status = s]

\* readMeta throws for a directory that is gone, and the error is ignored.
UpdateStatus(id, s) ==
  IF meta[id] = NoMeta THEN UNCHANGED meta ELSE SetStatus(id, s)

\* cleanupStaleSession: the directory goes, with the socket and the meta.
RemoveSession(id) ==
  /\ meta' = [meta EXCEPT ![id] = NoMeta]
  /\ sock' = sock \ {id}

Goto(p, step, id) ==
  task' = [task EXCEPT ![p] = [step |-> step, id |-> id, todo |-> @.todo]]
Return(p, result, id) ==
  /\ task' = [task EXCEPT ![p] = Idle]
  /\ answer' = [answer EXCEPT ![p] = [result |-> result, id |-> id]]
At(p, step) == task[p].step = step

-----------------------------------------------------------------------------
(* startOrAttach.                                                          *)

\* Mutant: the scan is not serialised.
AcquireUnlocked(p) ==
  /\ At(p, "idle")
  /\ lock' = p
  /\ task' = [task EXCEPT ![p] =
                [step |-> "scan", id |-> NoId, todo |-> {id \in Ids : meta[id] # NoMeta}]]
  /\ answer' = [answer EXCEPT ![p] = NoAnswer]
  /\ UNCHANGED <<meta, daemon, sock, told, sst>>

\* acquireLock: the lock is free, or a process that died left it behind and
\* isLiveForKey says no.  The ids are those of allSessionDirs().
Acquire(p) ==
  /\ At(p, "idle")
  /\ \/ lock = Nobody
     \/ lock = Orphaned /\ ~LiveForKey
  /\ lock' = p
  /\ task' = [task EXCEPT ![p] =
                [step |-> "scan", id |-> NoId, todo |-> {id \in Ids : meta[id] # NoMeta}]]
  /\ answer' = [answer EXCEPT ![p] = NoAnswer]
  /\ UNCHANGED <<meta, daemon, sock, told, sst>>

\* acquireLock throws EBUSY.
Refuse(p) ==
  /\ At(p, "idle") /\ lock # Nobody
  /\ Return(p, "busy", NoId)
  /\ UNCHANGED <<meta, daemon, sock, told, sst, lock>>

Reusable(id) ==
  \/ meta[id].status = "running" /\ Serves(id)
  \/ meta[id].status = "starting" /\ SocketAlive(id)

\* A running session is returned as it is; only a starting one is waited for.
Reuse(p, id) ==
  /\ At(p, "scan") /\ id \in task[p].todo /\ Reusable(id)
  /\ lock' = Nobody
  /\ IF meta[id].status = "running"
     THEN Return(p, "ready", id)
     ELSE Goto(p, "wait", id) /\ UNCHANGED answer
  /\ UNCHANGED <<meta, daemon, sock, told, sst>>

\* A directory without a readable meta is passed over, a dead session is about
\* to be cleaned up.
Discard(p, id) ==
  /\ At(p, "scan") /\ id \in task[p].todo
  /\ meta[id] = NoMeta \/ ~Reusable(id)
  /\ task' = [task EXCEPT ![p] =
                [step |-> IF meta[id] = NoMeta THEN "scan" ELSE "clean",
                 id |-> id, todo |-> @.todo \ {id}]]
  /\ UNCHANGED <<meta, daemon, sock, told, sst, lock, answer>>

Clean(p) ==
  /\ p \in Starters /\ At(p, "clean")
  /\ RemoveSession(task[p].id)
  /\ Goto(p, "scan", NoId)
  /\ UNCHANGED <<daemon, told, sst, lock, answer>>

\* No match is left: a `starting' meta with a fresh id, and the daemon's fork.
Mint(p, id) ==
  /\ At(p, "scan") /\ task[p].todo = {} /\ daemon[id] = "none"
  /\ meta' = [meta EXCEPT ![id] = [status |-> "starting", pid |-> FALSE]]
  /\ daemon' = [daemon EXCEPT ![id] = "boot"]
  /\ Goto(p, "spawn", id)
  /\ UNCHANGED <<sock, told, sst, lock, answer>>

\* The directory or the meta cannot be written: `finally' releases the lock.
MintFails(p) ==
  /\ At(p, "scan") /\ task[p].todo = {}
  /\ lock' = Nobody
  /\ Return(p, "error", NoId)
  /\ UNCHANGED <<meta, daemon, sock, told, sst>>

\* The daemon's `ready' message: the final meta is built from the first one,
\* whatever the file says by now.
Promote(p) ==
  /\ At(p, "spawn") /\ task[p].id \in told
  /\ meta' = [meta EXCEPT ![task[p].id] = [status |-> "running", pid |-> TRUE]]
  /\ Goto(p, "release", task[p].id)
  /\ UNCHANGED <<daemon, sock, told, sst, lock, answer>>

ReleaseLock(p) ==
  /\ At(p, "release")
  /\ lock' = Nobody
  /\ Goto(p, "wait", task[p].id)
  /\ UNCHANGED <<meta, daemon, sock, told, sst, answer>>

Die(id) ==
  /\ daemon' = [daemon EXCEPT ![id] = IF @ \in Alive THEN "dead" ELSE @]
  /\ sock' = sock \ {id}

\* Mutant: a daemon that is not ready in time is left running.
SpawnFailsWithoutKill(p) ==
  /\ At(p, "spawn")
  /\ task[p].id \notin told \/ daemon[task[p].id] \notin Alive
  /\ meta' = [meta EXCEPT ![task[p].id] = [status |-> "failed", pid |-> FALSE]]
  /\ lock' = Nobody
  /\ Return(p, "error", NoId)
  /\ UNCHANGED <<daemon, sock, told, sst>>

\* The daemon exits before it is ready, or is not ready in time and killed.
SpawnFails(p) ==
  /\ At(p, "spawn")
  /\ task[p].id \notin told \/ daemon[task[p].id] \notin Alive
  /\ Die(task[p].id)
  /\ meta' = [meta EXCEPT ![task[p].id] = [status |-> "failed", pid |-> FALSE]]
  /\ lock' = Nobody
  /\ Return(p, "error", NoId)
  /\ UNCHANGED <<told, sst>>

\* Mutant: without a time limit.
WaitEndsReady(p) ==
  /\ At(p, "wait")
  /\ daemon[task[p].id] = "ready" /\ Return(p, "ready", task[p].id)
  /\ UNCHANGED <<meta, daemon, sock, told, sst, lock>>

\* wait_for_ready answers, fails or times out.
WaitEnds(p) ==
  /\ At(p, "wait")
  /\ \/ daemon[task[p].id] = "ready" /\ Return(p, "ready", task[p].id)
     \/ Return(p, "error", NoId)
  /\ UNCHANGED <<meta, daemon, sock, told, sst, lock>>

\* A process dies where it is (and is run again some time); its lock stays.
Crash(p) ==
  /\ "crash" \in Faults /\ ~At(p, "idle")
  /\ task' = [task EXCEPT ![p] = Idle]
  /\ lock' = IF lock = p THEN Orphaned ELSE lock
  /\ UNCHANGED <<meta, daemon, sock, told, sst, answer>>

-----------------------------------------------------------------------------
(* The daemon: runDaemon, IpcServer.start and stop, stop_session.          *)

Become(id, d) == daemon' = [daemon EXCEPT ![id] = d]

Load(id) ==
  /\ daemon[id] = "boot"
  /\ Become(id, IF meta[id] # NoMeta THEN "loaded" ELSE "dead")
  /\ UNCHANGED <<meta, sock, told, sst, lock, task, answer>>

\* Bound before session.start(); without the directory there is no socket.
Listen(id) ==
  /\ daemon[id] = "loaded"
  /\ \/ /\ meta[id] # NoMeta
        /\ Become(id, "listening")
        /\ sock' = sock \cup {id} /\ told' = told \cup {id}
     \/ /\ meta[id] = NoMeta
        /\ Become(id, "dead") /\ UNCHANGED <<sock, told>>
  /\ UNCHANGED <<meta, sst, lock, task, answer>>

\* start() is rejected: `failed' is persisted and the listener closed.
StartRejected(id) ==
  /\ Become(id, "failing")
  /\ UpdateStatus(id, "failed")
  /\ sock' = sock \ {id}
  /\ UNCHANGED <<told, sst, lock, task, answer>>

\* The collision check against an SST that already serves this stage.
Preflight(id) ==
  /\ daemon[id] = "listening"
  /\ IF sst # {}
     THEN StartRejected(id)
     ELSE Become(id, "serving") /\ UNCHANGED <<meta, sock, told, sst, lock, task, answer>>

SstUp(id) ==
  /\ daemon[id] = "serving" /\ id \notin sst
  /\ sst' = sst \cup {id}
  /\ UNCHANGED <<meta, daemon, sock, told, lock, task, answer>>

Deployed(id) ==
  /\ daemon[id] = "serving" /\ id \in sst
  /\ Become(id, "ready")
  /\ UNCHANGED <<meta, sock, told, sst, lock, task, answer>>

StartFails(id) == daemon[id] = "serving" /\ StartRejected(id)

\* stop_session arrives: the listener is closed first.
StopSession(id) ==
  /\ sock' = sock \ {id}
  /\ Become(id, IF daemon[id] = "ready" THEN "stopping" ELSE "aborting")

\* Mutant: the stop fails when the meta is gone.
SessionStoppedReading(id) ==
  /\ daemon[id] \in {"stopping", "aborting"} /\ meta[id] # NoMeta
  /\ Become(id, "exiting")
  /\ sst' = sst \ {id}
  /\ SetStatus(id, "stopped")
  /\ UNCHANGED <<sock, told, lock, task, answer>>

\* session.stop() is through and the meta says so.
SessionStopped(id) ==
  /\ daemon[id] \in {"stopping", "aborting"}
  /\ Become(id, "exiting")
  /\ sst' = sst \ {id}
  /\ UpdateStatus(id, "stopped")
  /\ UNCHANGED <<sock, told, lock, task, answer>>

\* The stop ends SST while start() is pending, which rejects it.
StartAborted(id) ==
  /\ daemon[id] = "aborting"
  /\ Become(id, "aborted")
  /\ sst' = sst \ {id}
  /\ UpdateStatus(id, "failed")
  /\ UNCHANGED <<sock, told, lock, task, answer>>

\* finish() writes `stopped' before it exits; after an aborted start it is a
\* matter of microtasks whether the stop still writes it.
Exit(id) ==
  /\ \/ daemon[id] \in {"exiting", "aborted"} /\ UpdateStatus(id, "stopped") /\ Become(id, "dead")
     \/ daemon[id] = "aborted" /\ UNCHANGED meta /\ Become(id, "dead")
     \/ daemon[id] = "failing" /\ UNCHANGED meta /\ Become(id, "failed")
  /\ sst' = sst \ {id}
  /\ UNCHANGED <<sock, told, lock, task, answer>>

\* A daemon is killed; its SST ends when its terminal is hung up.
Killed(id) ==
  /\ "kill" \in Faults /\ daemon[id] \in Alive
  /\ Die(id)
  /\ UNCHANGED <<meta, told, sst, lock, task, answer>>

HangUp(id) ==
  /\ daemon[id] \in {"dead", "failed"} /\ id \in sst
  /\ sst' = sst \ {id}
  /\ UNCHANGED <<meta, daemon, sock, told, lock, task, answer>>

-----------------------------------------------------------------------------
(* Stopping and cleaning up from outside.                                  *)

\* SessionManager.stop: connect, whatever the status says; without a socket
\* the probe decides the answer, and a meta without a pid probes dead.
McpStop(p, id) ==
  /\ At(p, "idle") /\ daemon[id] # "none"
  /\ \/ /\ id \in sock
        /\ StopSession(id) /\ Goto(p, "poll", id)
        /\ UNCHANGED <<meta, answer>>
     \/ /\ id \notin sock /\ (meta[id] = NoMeta \/ meta[id].pid)
        /\ RemoveSession(id)
        /\ Return(p, IF PidAlive(id) THEN "error" ELSE "stopped", id)
        /\ UNCHANGED daemon
     \/ /\ id \notin sock /\ meta[id] # NoMeta /\ ~meta[id].pid
        /\ Goto(p, "clean", id)
        /\ UNCHANGED <<meta, daemon, sock, answer>>
  /\ UNCHANGED <<told, sst, lock>>

\* The 5 s wait for the pid is over, or there was none to wait for.
McpCleanup(p) ==
  /\ At(p, "poll") \/ At(p, "clean")
  /\ RemoveSession(task[p].id)
  /\ Return(p, "stopped", task[p].id)
  /\ UNCHANGED <<daemon, told, sst, lock>>

\* resolve on a session that is neither starting nor serving: a daemon that no
\* longer listens is killed, and the directory goes.
Heal(id) ==
  /\ ~Serves(id)
  /\ IF PidAlive(id) THEN Become(id, "dead") ELSE UNCHANGED daemon
  /\ RemoveSession(id)

\* Mutant: resolve and list-sessions take a starting session for a stale one.
PruneStarting(id) ==
  /\ meta[id] # NoMeta
  /\ \/ Heal(id)
     \/ ~Serves(id) /\ RemoveSession(id) /\ UNCHANGED daemon
  /\ UNCHANGED <<told, sst, lock, task, answer>>

\* Any CLI command that resolves the session, or list-sessions.
Prune(id) ==
  /\ meta[id].pid /\ meta[id].status # "starting"
  /\ \/ Heal(id)
     \/ ~Serves(id) /\ RemoveSession(id) /\ UNCHANGED daemon
  /\ UNCHANGED <<told, sst, lock, task, answer>>

\* StopCommand: resolve, then stop_session over the connection it returns.
CliStop(p, id) ==
  /\ At(p, "idle") /\ daemon[id] # "none"
  /\ \/ /\ meta[id] # NoMeta /\ ~meta[id].pid
        /\ Return(p, "error", id)
        /\ UNCHANGED <<meta, daemon, sock>>
     \/ /\ Serves(id)
        /\ StopSession(id) /\ Goto(p, "quit", id)
        /\ UNCHANGED <<meta, answer>>
     \/ /\ meta[id] = NoMeta \/ meta[id].pid
        /\ Heal(id)
        /\ Return(p, "stopped", id)
  /\ UNCHANGED <<told, sst, lock>>

\* The poll saw the daemon gone, or ran out of time and killed it; then the
\* session directory is removed...
CliCleanup(p) ==
  /\ At(p, "quit")
  /\ IF meta[task[p].id].status \in {"none", "stopped"}
     THEN UNCHANGED daemon
     ELSE Become(task[p].id, IF daemon[task[p].id] \in Alive THEN "dead" ELSE daemon[task[p].id])
  /\ RemoveSession(task[p].id)
  /\ Goto(p, "unlock", task[p].id)
  /\ UNCHANGED <<told, sst, lock, answer>>

\* ... and the lock directory of its key, whoever holds it.
Unlock(p) ==
  /\ At(p, "unlock")
  /\ lock' = Nobody
  /\ Return(p, "stopped", task[p].id)
  /\ UNCHANGED <<meta, daemon, sock, told, sst>>

-----------------------------------------------------------------------------
StarterStep(p) ==
  \/ Clean(p) \/ MintFails(p) \/ Promote(p) \/ ReleaseLock(p) \/ SpawnFails(p) \/ WaitEnds(p)
  \/ \E id \in Ids : Reuse(p, id) \/ Discard(p, id) \/ Mint(p, id)

DaemonStep(id) ==
  \/ Load(id) \/ Listen(id) \/ Preflight(id) \/ SstUp(id)
  \/ SessionStopped(id) \/ StartAborted(id) \/ Exit(id) \/ HangUp(id)

ManagerNext ==
  \/ \E p \in Starters : Acquire(p) \/ Refuse(p) \/ StarterStep(p) \/ Crash(p)
  \/ \E p \in McpStoppers : McpCleanup(p) \/ \E id \in Ids : McpStop(p, id)
  \/ \E p \in CliStoppers : CliCleanup(p) \/ Unlock(p) \/ \E id \in Ids : CliStop(p, id)
  \/ \E id \in Ids : DaemonStep(id) \/ Deployed(id) \/ StartFails(id) \/ Killed(id) \/ Prune(id)

ManagerSpec == ManagerInit /\ [][ManagerNext]_vars

\* Processes keep running; how a deploy ends is up to SST.
ManagerFairSpec ==
  /\ ManagerSpec
  /\ \A p \in Starters : WF_vars(StarterStep(p))
  /\ \A p \in McpStoppers : WF_vars(McpCleanup(p))
  /\ \A p \in CliStoppers : WF_vars(CliCleanup(p) \/ Unlock(p))
  /\ \A id \in Ids : WF_vars(DaemonStep(id))

-----------------------------------------------------------------------------
\* The type of every variable; a process at work on a session knows its id.
ManagerTypeOK ==
  /\ meta \in [Ids -> [status : Statuses, pid : BOOLEAN]]
  /\ daemon \in [Ids -> DaemonStates]
  /\ sock \subseteq Ids /\ told \subseteq Ids /\ sst \subseteq Ids
  /\ lock \in Starters \cup {Nobody, Orphaned}
  /\ task \in [Procs -> [step : Steps, id : Ids \cup {NoId}, todo : SUBSET Ids]]
  /\ answer \in [Procs -> [result : {"none", "ready", "stopped", "error", "busy"},
                           id : Ids \cup {NoId}]]
  /\ \A p \in Procs : task[p].step \notin {"idle", "scan"} => task[p].id \in Ids

LiveIds == {id \in Ids : daemon[id] \in Live}

\* "Session: one running `sst dev' process for a (projectDir, stage) pair"
\* (server.ts, README.md): never two daemons that start or serve one key.
OneLiveSession == \A a, b \in LiveIds : a = b

\* "resolve" by project and stage never has to choose: a start removes what
\* earlier ones have left, failures and crashes included, before it makes a
\* directory of its own.
NeverAmbiguous == \A a, b \in Ids : meta[a] # NoMeta /\ meta[b] # NoMeta => a = b

\* A daemon that has come up can be found again: unless its starter is still
\* at work on it, its directory has a running meta and its socket.  (Whoever
\* removes the directory of a live daemon makes it unreachable for good: the
\* next start spawns another one, which then fails its collision check.)
LiveIsReachable ==
  \A id \in LiveIds :
    \/ meta[id].status = "running" /\ Serves(id)
    \/ \E p \in Starters : task[p].id = id /\ task[p].step \in {"spawn", "release"}

\* The abstract specification: one session at a time, each of them once.
One == INSTANCE OneSession
         WITH live <- LiveIds, begun <- {id \in Ids : daemon[id] # "none"}
OneSessionAtATime == One!OneSpec

\* startOrAttach ends, and the lock it took is free again, whatever becomes of
\* the daemon: only a starter that died keeps it.
StartReturns ==
  \A p \in Starters : task[p].step # "idle" ~> task[p].step = "idle" /\ lock # p

\* A daemon that was told to stop ends and takes its SST along, even if its
\* directory is removed meanwhile.
StopEnds ==
  \A id \in Ids : daemon[id] \in Closing ~> daemon[id] \in {"dead", "failed"} /\ id \notin sst
=============================================================================
