------------------------ MODULE SessionManagerProofs ------------------------
(***************************************************************************)
(* What holds of SessionManager for any number of processes and sessions.  *)
(* Without the CLI's stop, which removes the lock of others, the start     *)
(* lock guards the directories: there is never a choice between two.       *)
(* Without outside stops and deaths of starters there is never more than   *)
(* one live session, it can be found, and SessionManager implements        *)
(* OneSession.  Of SessionLookup, the manager's search for one of its      *)
(* sessions: the answer is right about those that serve all the while, for *)
(* any finite number of sessions and any number of projects.               *)
(***************************************************************************)
EXTENDS SessionManager, SessionLookup, FiniteSetTheorems, TLAPS

\* ManagerTypeOK by its parts.  A process at work on a session knows its id.
MetaType == [status : Statuses, pid : BOOLEAN]
Results == {"none", "ready", "stopped", "error", "busy"}
TaskType == [step : Steps, id : Ids \cup {NoId}, todo : SUBSET Ids]
KnowsId == \A q \in Procs : task[q].step \notin {"idle", "scan"} => task[q].id \in Ids
AnswerType == [result : Results, id : Ids \cup {NoId}]

Typed ==
  /\ meta \in [Ids -> MetaType] /\ daemon \in [Ids -> DaemonStates]
  /\ sock \subseteq Ids /\ told \subseteq Ids /\ sst \subseteq Ids
  /\ lock \in Starters \cup {Nobody, Orphaned}
  /\ task \in [Procs -> TaskType] /\ KnowsId /\ answer \in [Procs -> AnswerType]

\* What startOrAttach does between acquireLock and releaseLock.
Holds(p) == task[p].step \in {"scan", "clean", "spawn", "release"}
Metas == {id \in Ids : meta[id] # NoMeta}

Mutex == \A p \in Starters : Holds(p) => lock = p

\* The holder of the lock has every directory before it.
Surveyed ==
  \A p \in Starters :
    /\ At(p, "scan") => Metas \subseteq task[p].todo
    /\ At(p, "clean") => Metas \subseteq task[p].todo \cup {task[p].id}
    /\ task[p].step \in {"spawn", "release"} => Metas \subseteq {task[p].id}

LockInv == Typed /\ Mutex /\ Surveyed /\ NeverAmbiguous

-----------------------------------------------------------------------------
Spawning(id) == \E p \in Starters : At(p, "spawn") /\ task[p].id = id

\* An id that has not been minted has left no trace, and a daemon has a socket
\* and has sent `ready' only once it listens.
FreshInv ==
  \A id \in Ids :
    /\ daemon[id] = "none" => meta[id] = NoMeta
    /\ id \in sock \cup told => daemon[id] \notin {"none", "boot", "loaded"}

\* A live daemon is either its starter's to judge, or it has all that a probe
\* asks for.
LiveInv ==
  \A id \in Ids :
    /\ daemon[id] \in {"boot", "loaded"} => Spawning(id)
    /\ daemon[id] \in {"listening", "serving", "ready"} =>
         /\ id \in sock /\ id \in told
         /\ meta[id] = [status |-> "running", pid |-> TRUE] \/ Spawning(id)

\* What is spawned is out of reach of a clean-up, which wants a pid; what is
\* cleaned up is not live.
HolderInv ==
  \A p \in Starters :
    /\ At(p, "spawn") => ~meta[task[p].id].pid /\ daemon[task[p].id] # "none"
    /\ At(p, "clean") => daemon[task[p].id] \notin Live

SInv == LockInv /\ FreshInv /\ LiveInv /\ HolderInv /\ OneLiveSession

-----------------------------------------------------------------------------
(* Types.                                                                  *)

USE DEF At, Goto, Return, Become

\* A meta.json that is rewritten, and one that is removed.
LEMMA UpdateTypes ==
  ASSUME meta \in [Ids -> MetaType], NEW id \in Ids, NEW s \in Statuses, UpdateStatus(id, s)
  PROVE  /\ meta' \in [Ids -> MetaType]
         /\ Metas' \subseteq Metas
         /\ \A x \in Ids : meta'[x].pid = meta[x].pid
         /\ \A x \in Ids : x # id => meta'[x] = meta[x]
<1>1. CASE meta[id] = NoMeta
  BY <1>1 DEF UpdateStatus, Metas
<1>2. CASE meta[id] # NoMeta
  <2>1. meta' = [meta EXCEPT ![id].status = s]
    BY <1>2 DEF UpdateStatus, SetStatus
  <2>2. /\ meta' \in [Ids -> MetaType]
        /\ meta'[id].pid = meta[id].pid
        /\ \A x \in Ids : x # id => meta'[x] = meta[x]
    BY <2>1 DEF MetaType
  <2> QED
    BY <1>2, <2>2 DEF Metas
<1> QED
  BY <1>1, <1>2

LEMMA RemoveTypes ==
  ASSUME meta \in [Ids -> MetaType], NEW id \in Ids, RemoveSession(id)
  PROVE  /\ meta' \in [Ids -> MetaType]
         /\ meta'[id] = NoMeta
         /\ Metas' = Metas \ {id}
         /\ \A x \in Ids : x # id => meta'[x] = meta[x]
         /\ sock' = sock \ {id}
<1>1. NoMeta \in MetaType
  BY DEF NoMeta, MetaType, Statuses
<1>2. meta' = [meta EXCEPT ![id] = NoMeta] /\ sock' = sock \ {id}
  BY DEF RemoveSession
<1> QED
  BY <1>1, <1>2 DEF Metas

LEMMA DaemonTypes ==
  ASSUME ManagerTypeOK, NEW id \in Ids, NEW d \in DaemonStates
  PROVE  /\ Become(id, d) => daemon' \in [Ids -> DaemonStates]
         /\ Die(id) => daemon' \in [Ids -> DaemonStates] /\ sock' \subseteq Ids
         /\ StopSession(id) => daemon' \in [Ids -> DaemonStates] /\ sock' \subseteq Ids
  BY DEF ManagerTypeOK, Die, StopSession, DaemonStates, Alive, Live, Closing

LEMMA GotoTypes ==
  ASSUME task \in [Procs -> TaskType], KnowsId,
         NEW p \in Procs, NEW step \in Steps, NEW id \in Ids, Goto(p, step, id)
  PROVE  /\ task' \in [Procs -> TaskType] /\ KnowsId'
         /\ task'[p].step = step /\ task'[p].id = id /\ task'[p].todo = task[p].todo
         /\ \A q \in Procs : q # p => task'[q] = task[q]
<1>1. [step |-> step, id |-> id, todo |-> task[p].todo] \in TaskType
  BY DEF TaskType
<1> QED
  BY <1>1 DEF TaskType, KnowsId

LEMMA ReturnTypes ==
  ASSUME task \in [Procs -> TaskType], KnowsId, answer \in [Procs -> AnswerType],
         NEW p \in Procs, NEW outcome \in Results, NEW id \in Ids \cup {NoId},
         Return(p, outcome, id)
  PROVE  /\ task' \in [Procs -> TaskType] /\ KnowsId' /\ answer' \in [Procs -> AnswerType]
         /\ task'[p].step = "idle"
         /\ \A q \in Procs : q # p => task'[q] = task[q]
<1>1. Idle \in TaskType /\ Idle.step = "idle"
  BY DEF Idle, TaskType, Steps
<1>2. task' \in [Procs -> TaskType] /\ task'[p] = Idle /\ \A q \in Procs : q # p => task'[q] = task[q]
  BY <1>1
<1>3. answer' \in [Procs -> AnswerType]
  BY DEF AnswerType
<1> QED
  BY <1>1, <1>2, <1>3 DEF KnowsId

LEMMA TypedIsTypeOK == Typed <=> ManagerTypeOK
  BY DEF Typed, ManagerTypeOK, MetaType, TaskType, AnswerType, KnowsId, Results

\* What daemons do, by themselves or to others, and the clean-ups by commands
\* leave the lock and the processes alone and make no directory.
LEMMA WorldTypes ==
  ASSUME Typed, NEW id \in Ids,
         DaemonStep(id) \/ Deployed(id) \/ StartFails(id) \/ Killed(id) \/ Prune(id)
  PROVE  Typed' /\ Metas' \subseteq Metas /\ UNCHANGED <<lock, task, answer>>
<1> USE DEF Typed
<1>1. /\ {"boot", "loaded", "listening", "serving", "ready", "stopping", "aborting",
          "aborted", "exiting", "failing", "dead", "failed"} \subseteq DaemonStates
      /\ {"stopped", "failed"} \subseteq Statuses
  BY DEF DaemonStates, Alive, Live, Closing, Statuses
<1>2. CASE Load(id) \/ Listen(id) \/ SstUp(id) \/ HangUp(id) \/ Deployed(id)
  BY <1>1, <1>2 DEF Load, Listen, SstUp, HangUp, Deployed, Metas, KnowsId
<1>3. CASE StartRejected(id)
  BY <1>1, <1>3, UpdateTypes DEF StartRejected, KnowsId
<1>4. CASE Preflight(id) \/ StartFails(id)
  <2>1. CASE StartRejected(id)
    BY <2>1, <1>3
  <2>2. CASE Become(id, "serving") /\ UNCHANGED <<meta, sock, told, sst, lock, task, answer>>
    BY <1>1, <2>2 DEF Metas, KnowsId
  <2> QED
    BY <1>4, <2>1, <2>2 DEF Preflight, StartFails
<1>5. CASE SessionStopped(id) \/ StartAborted(id)
  BY <1>1, <1>5, UpdateTypes DEF SessionStopped, StartAborted, KnowsId
<1>6. CASE Exit(id)
  <2>1. UpdateStatus(id, "stopped") => meta' \in [Ids -> MetaType] /\ Metas' \subseteq Metas
    BY <1>1, UpdateTypes
  <2>2. UNCHANGED meta => meta' \in [Ids -> MetaType] /\ Metas' \subseteq Metas
    BY DEF Metas
  <2>3. Become(id, "dead") \/ Become(id, "failed")
    BY <1>6 DEF Exit
  <2>4. daemon' \in [Ids -> DaemonStates]
    BY <1>1, <2>3
  <2>5. /\ sst' \subseteq Ids /\ UNCHANGED <<sock, told, lock, task, answer>>
        /\ UpdateStatus(id, "stopped") \/ UNCHANGED meta
    BY <1>6 DEF Exit
  <2> QED
    BY <2>1, <2>2, <2>4, <2>5 DEF KnowsId
<1>7. CASE Killed(id)
  BY <1>1, <1>7 DEF Killed, Die, Metas, KnowsId
<1>8. CASE Prune(id)
  <2>1. /\ RemoveSession(id) /\ UNCHANGED <<told, sst, lock, task, answer>>
        /\ Become(id, "dead") \/ UNCHANGED daemon
    BY <1>8 DEF Prune, Heal
  <2>2. daemon' \in [Ids -> DaemonStates]
    BY <1>1, <2>1
  <2> QED
    BY <2>1, <2>2, RemoveTypes DEF KnowsId
<1> QED
  BY <1>2, <1>4, <1>5, <1>6, <1>7, <1>8 DEF DaemonStep

\* A stop through the MCP server is no starter's business either.
LEMMA McpStopTypes ==
  ASSUME Typed, NEW p \in McpStoppers, NEW id \in Ids, McpStop(p, id)
  PROVE  /\ Typed' /\ Metas' \subseteq Metas /\ UNCHANGED lock
         /\ \A q \in Starters : task'[q] = task[q]
<1> USE DEF Typed
<1>1. p \in Procs /\ p \notin Starters /\ Starters \subseteq Procs
  BY RolesAssumption DEF Procs
<1>2. /\ {"poll", "clean"} \subseteq Steps /\ {"stopped", "error"} \subseteq Results
      /\ {"stopping", "aborting"} \subseteq DaemonStates
  BY DEF Steps, Results, DaemonStates, Alive, Closing
<1>3. CASE StopSession(id) /\ Goto(p, "poll", id) /\ UNCHANGED <<meta, answer>>
  <2>1. /\ task' \in [Procs -> TaskType] /\ KnowsId'
        /\ \A q \in Procs : q # p => task'[q] = task[q]
    BY <1>1, <1>2, <1>3, GotoTypes
  <2>2. daemon' \in [Ids -> DaemonStates] /\ sock' \subseteq Ids /\ Metas' = Metas
    BY <1>2, <1>3 DEF StopSession, Metas
  <2> QED
    BY <1>1, <1>3, <2>1, <2>2 DEF McpStop
<1>4. CASE /\ RemoveSession(id) /\ UNCHANGED daemon
           /\ Return(p, IF PidAlive(id) THEN "error" ELSE "stopped", id)
  <2>1. /\ task' \in [Procs -> TaskType] /\ KnowsId' /\ answer' \in [Procs -> AnswerType]
        /\ \A q \in Procs : q # p => task'[q] = task[q]
    BY <1>1, <1>2, <1>4, ReturnTypes
  <2> QED
    BY <1>1, <1>4, <2>1, RemoveTypes DEF McpStop
<1>5. CASE Goto(p, "clean", id) /\ UNCHANGED <<meta, daemon, sock, answer>>
  <2>1. /\ task' \in [Procs -> TaskType] /\ KnowsId'
        /\ \A q \in Procs : q # p => task'[q] = task[q]
    BY <1>1, <1>2, <1>5, GotoTypes
  <2>2. Metas' = Metas
    BY <1>5 DEF Metas
  <2> QED
    BY <1>1, <1>5, <2>1, <2>2 DEF McpStop
<1> QED
  BY <1>3, <1>4, <1>5 DEF McpStop

LEMMA McpCleanupTypes ==
  ASSUME Typed, NEW p \in McpStoppers, McpCleanup(p)
  PROVE  /\ Typed' /\ Metas' \subseteq Metas /\ UNCHANGED lock
         /\ \A q \in Starters : task'[q] = task[q]
<1> USE DEF Typed
<1>1. p \in Procs /\ p \notin Starters /\ Starters \subseteq Procs
  BY RolesAssumption DEF Procs
<1>2. task[p].id \in Ids /\ "stopped" \in Results
  BY <1>1 DEF McpCleanup, KnowsId, Results
<1>3. /\ RemoveSession(task[p].id) /\ Return(p, "stopped", task[p].id)
      /\ UNCHANGED <<daemon, told, sst, lock>>
  BY DEF McpCleanup
<1>4. /\ task' \in [Procs -> TaskType] /\ KnowsId' /\ answer' \in [Procs -> AnswerType]
      /\ \A q \in Procs : q # p => task'[q] = task[q]
  BY <1>1, <1>2, <1>3, ReturnTypes
<1> QED
  BY <1>1, <1>2, <1>3, <1>4, RemoveTypes

\* The CLI's stop is typed too; what it does to the lock is its own affair.
LEMMA CliTypes ==
  ASSUME Typed, NEW p \in CliStoppers,
         CliCleanup(p) \/ Unlock(p) \/ \E id \in Ids : CliStop(p, id)
  PROVE  Typed'
<1> USE DEF Typed
<1>1. p \in Procs
  BY DEF Procs
<1>2. /\ {"quit", "unlock"} \subseteq Steps /\ {"stopped", "error"} \subseteq Results
      /\ {"stopping", "aborting", "dead"} \subseteq DaemonStates
  BY DEF Steps, Results, DaemonStates, Alive, Closing
<1>3. CASE CliCleanup(p)
  <2>1. task[p].id \in Ids
    BY <1>1, <1>3 DEF CliCleanup, KnowsId
  <2>2. daemon' \in [Ids -> DaemonStates]
    BY <1>2, <1>3, <2>1 DEF CliCleanup
  <2>3. /\ RemoveSession(task[p].id) /\ Goto(p, "unlock", task[p].id)
        /\ UNCHANGED <<told, sst, lock, answer>>
    BY <1>3 DEF CliCleanup
  <2>4. task' \in [Procs -> TaskType] /\ KnowsId'
    BY <1>1, <1>2, <2>1, <2>3, GotoTypes
  <2> QED
    BY <2>1, <2>2, <2>3, <2>4, RemoveTypes
<1>4. CASE Unlock(p)
  <2>1. task[p].id \in Ids
    BY <1>1, <1>4 DEF Unlock, KnowsId
  <2>2. /\ task' \in [Procs -> TaskType] /\ KnowsId' /\ answer' \in [Procs -> AnswerType]
    BY <1>1, <1>2, <1>4, <2>1, ReturnTypes DEF Unlock
  <2> QED
    BY <1>4, <2>2 DEF Unlock
<1>5. ASSUME NEW id \in Ids, CliStop(p, id) PROVE Typed'
  <2>1. CASE Return(p, "error", id) /\ UNCHANGED <<meta, daemon, sock>>
    <3>1. /\ task' \in [Procs -> TaskType] /\ KnowsId' /\ answer' \in [Procs -> AnswerType]
      BY <1>1, <1>2, <2>1, ReturnTypes
    <3> QED
      BY <1>5, <2>1, <3>1 DEF CliStop
  <2>2. CASE StopSession(id) /\ Goto(p, "quit", id) /\ UNCHANGED <<meta, answer>>
    BY <1>1, <1>2, <1>5, <2>2, GotoTypes DEF CliStop, StopSession
  <2>3. CASE Heal(id) /\ Return(p, "stopped", id)
    <3>1. /\ task' \in [Procs -> TaskType] /\ KnowsId' /\ answer' \in [Procs -> AnswerType]
      BY <1>1, <1>2, <2>3, ReturnTypes
    <3>2. RemoveSession(id) /\ (Become(id, "dead") \/ UNCHANGED daemon)
      BY <2>3 DEF Heal
    <3>3. daemon' \in [Ids -> DaemonStates]
      BY <1>2, <3>2
    <3> QED
      BY <1>5, <3>1, <3>2, <3>3, RemoveTypes DEF CliStop
  <2> QED
    BY <1>5, <2>1, <2>2, <2>3 DEF CliStop
<1> QED
  BY <1>3, <1>4, <1>5

\* What a starter does changes its own task only.
StarterAction(p) == Acquire(p) \/ Refuse(p) \/ StarterStep(p) \/ Crash(p)

LEMMA StarterTypes ==
  ASSUME Typed, NEW p \in Starters, StarterAction(p)
  PROVE  Typed' /\ \A q \in Procs : q # p => task'[q] = task[q]
<1> USE DEF Typed
<1>1. p \in Procs
  BY DEF Procs
<1>2. /\ {"idle", "scan", "clean", "spawn", "release", "wait"} \subseteq Steps
      /\ {"none", "ready", "busy", "error"} \subseteq Results
      /\ {"boot", "dead"} \subseteq DaemonStates
      /\ [status |-> "starting", pid |-> FALSE] \in MetaType
      /\ [status |-> "failed", pid |-> FALSE] \in MetaType
      /\ [status |-> "running", pid |-> TRUE] \in MetaType
      /\ Idle \in TaskType /\ Idle.step = "idle" /\ NoAnswer \in AnswerType
  BY DEF Steps, Results, DaemonStates, Alive, Live, MetaType, Statuses, Idle, TaskType,
         NoAnswer, AnswerType
<1>3. CASE Acquire(p)
  <2>1. [step |-> "scan", id |-> NoId, todo |-> {id \in Ids : meta[id] # NoMeta}] \in TaskType
    BY <1>2 DEF TaskType
  <2> QED
    BY <1>1, <1>2, <1>3, <2>1 DEF Acquire, KnowsId
<1>4. CASE Refuse(p)
  BY <1>1, <1>2, <1>4, ReturnTypes DEF Refuse
<1>5. CASE Crash(p)
  BY <1>1, <1>2, <1>5 DEF Crash, KnowsId
<1>6. CASE Clean(p)
  <2>1. task[p].id \in Ids /\ RemoveSession(task[p].id) /\ Goto(p, "scan", NoId)
        /\ UNCHANGED <<daemon, told, sst, lock, answer>>
    BY <1>1, <1>6 DEF Clean, KnowsId
  <2>2. [step |-> "scan", id |-> NoId, todo |-> task[p].todo] \in TaskType
    BY <1>1, <1>2 DEF TaskType
  <2>3. task' \in [Procs -> TaskType] /\ KnowsId' /\ \A q \in Procs : q # p => task'[q] = task[q]
    BY <1>1, <2>1, <2>2 DEF KnowsId
  <2> QED
    BY <2>1, <2>3, RemoveTypes
<1>7. CASE MintFails(p)
  BY <1>1, <1>2, <1>7, ReturnTypes DEF MintFails
<1>8. CASE Promote(p)
  <2>1. task[p].id \in Ids
    BY <1>1, <1>8 DEF Promote, KnowsId
  <2>2. task' \in [Procs -> TaskType] /\ KnowsId' /\ \A q \in Procs : q # p => task'[q] = task[q]
    BY <1>1, <1>2, <1>8, <2>1, GotoTypes DEF Promote
  <2> QED
    BY <1>2, <1>8, <2>1, <2>2 DEF Promote
<1>9. CASE ReleaseLock(p)
  <2>1. task[p].id \in Ids
    BY <1>1, <1>9 DEF ReleaseLock, KnowsId
  <2> QED
    BY <1>1, <1>2, <1>9, <2>1, GotoTypes DEF ReleaseLock
<1>10. CASE SpawnFails(p)
  <2>1. task[p].id \in Ids
    BY <1>1, <1>10 DEF SpawnFails, KnowsId
  <2>2. /\ task' \in [Procs -> TaskType] /\ KnowsId' /\ answer' \in [Procs -> AnswerType]
        /\ \A q \in Procs : q # p => task'[q] = task[q]
    BY <1>1, <1>2, <1>10, ReturnTypes DEF SpawnFails
  <2>3. daemon' \in [Ids -> DaemonStates] /\ sock' \subseteq Ids
    BY <1>2, <1>10, <2>1 DEF SpawnFails, Die
  <2> QED
    BY <1>2, <1>10, <2>1, <2>2, <2>3 DEF SpawnFails
<1>11. CASE WaitEnds(p)
  <2>1. task[p].id \in Ids
    BY <1>1, <1>11 DEF WaitEnds, KnowsId
  <2>2. Return(p, "ready", task[p].id) \/ Return(p, "error", NoId)
    BY <1>11 DEF WaitEnds
  <2>3. /\ task' \in [Procs -> TaskType] /\ KnowsId' /\ answer' \in [Procs -> AnswerType]
        /\ \A q \in Procs : q # p => task'[q] = task[q]
    BY <1>1, <1>2, <2>1, <2>2, ReturnTypes
  <2> QED
    BY <1>11, <2>3 DEF WaitEnds
<1>12. ASSUME NEW id \in Ids, Reuse(p, id) PROVE Typed' /\ \A q \in Procs : q # p => task'[q] = task[q]
  <2>1. \/ Return(p, "ready", id)
        \/ Goto(p, "wait", id) /\ UNCHANGED answer
    BY <1>12 DEF Reuse
  <2>2. /\ task' \in [Procs -> TaskType] /\ KnowsId' /\ answer' \in [Procs -> AnswerType]
        /\ \A q \in Procs : q # p => task'[q] = task[q]
    <3>1. CASE Return(p, "ready", id)
      BY <1>1, <1>2, <3>1, ReturnTypes
    <3>2. CASE Goto(p, "wait", id) /\ UNCHANGED answer
      BY <1>1, <1>2, <3>2, GotoTypes
    <3> QED
      BY <2>1, <3>1, <3>2
  <2> QED
    BY <1>12, <2>2 DEF Reuse
<1>13. ASSUME NEW id \in Ids, Discard(p, id) PROVE Typed' /\ \A q \in Procs : q # p => task'[q] = task[q]
  <2>1. [step |-> IF meta[id] = NoMeta THEN "scan" ELSE "clean",
         id |-> id, todo |-> task[p].todo \ {id}] \in TaskType
    BY <1>1, <1>2 DEF TaskType
  <2> QED
    BY <1>1, <1>13, <2>1 DEF Discard, KnowsId
<1>14. ASSUME NEW id \in Ids, Mint(p, id) PROVE Typed' /\ \A q \in Procs : q # p => task'[q] = task[q]
  <2>1. task' \in [Procs -> TaskType] /\ KnowsId' /\ \A q \in Procs : q # p => task'[q] = task[q]
    BY <1>1, <1>2, <1>14, GotoTypes DEF Mint
  <2> QED
    BY <1>2, <1>14, <2>1 DEF Mint
<1> QED
  BY <1>3, <1>4, <1>5, <1>6, <1>7, <1>8, <1>9, <1>10, <1>11, <1>12, <1>13, <1>14
     DEF StarterAction, StarterStep

LEMMA StepTyped == Typed /\ [ManagerNext]_vars => Typed'
<1> SUFFICES ASSUME Typed, [ManagerNext]_vars PROVE Typed'
  OBVIOUS
<1>1. CASE \E p \in Starters : StarterAction(p)
  BY <1>1, StarterTypes
<1>2. CASE \E p \in McpStoppers : McpCleanup(p) \/ \E id \in Ids : McpStop(p, id)
  BY <1>2, McpCleanupTypes, McpStopTypes
<1>3. CASE \E p \in CliStoppers : CliCleanup(p) \/ Unlock(p) \/ \E id \in Ids : CliStop(p, id)
  BY <1>3, CliTypes
<1>4. CASE \E id \in Ids :
             DaemonStep(id) \/ Deployed(id) \/ StartFails(id) \/ Killed(id) \/ Prune(id)
  BY <1>4, WorldTypes
<1>5. CASE UNCHANGED vars
  BY <1>5 DEF vars, Typed, KnowsId
<1> QED
  BY <1>1, <1>2, <1>3, <1>4, <1>5 DEF ManagerNext, StarterAction

LEMMA InitTyped == ManagerInit => Typed
  BY DEF ManagerInit, Typed, MetaType, NoMeta, Statuses, DaemonStates, TaskType, Idle, Steps,
         KnowsId, AnswerType, NoAnswer, Results

\* The type of every variable, whoever stops, crashes and is killed.
THEOREM ManagerTypes == ManagerSpec => []ManagerTypeOK
  BY InitTyped, StepTyped, TypedIsTypeOK, PTL DEF ManagerSpec

-----------------------------------------------------------------------------
(* The start lock guards the directories.                                  *)

LockParts == Mutex /\ Surveyed /\ NeverAmbiguous

\* A step that makes no directory and changes neither who is at work under the
\* lock nor, for whoever is, the lock.
LEMMA QuietLockInv ==
  ASSUME LockInv, Metas' \subseteq Metas,
         \A q \in Starters : \/ task'[q] = task[q] /\ (Holds(q) => lock' = lock)
                             \/ ~Holds(q)'
  PROVE  LockParts'
<1>1. Mutex'
  BY DEF LockInv, Mutex, Holds
<1>2. Surveyed'
  BY DEF LockInv, Surveyed, Holds
<1>3. NeverAmbiguous'
  BY DEF LockInv, NeverAmbiguous, Metas
<1> QED
  BY <1>1, <1>2, <1>3 DEF LockParts

\* A step of the holder, after which there is one directory at most.
LEMMA HolderLockInv ==
  ASSUME LockInv, NEW p \in Starters, NEW id, Holds(p),
         \A q \in Starters : q # p => task'[q] = task[q],
         Metas' \subseteq {id},
         Holds(p)' => lock' = p /\ ~At(p, "clean")',
         At(p, "scan")' => Metas' \subseteq task'[p].todo,
         task'[p].step \in {"spawn", "release"} => task'[p].id = id
  PROVE  LockParts'
<1>1. \A q \in Starters : q # p => ~Holds(q)'
  BY DEF LockInv, Mutex, Holds
<1>2. Mutex'
  BY <1>1 DEF Mutex
<1>3. Surveyed'
  <2> SUFFICES ASSUME NEW q \in Starters
               PROVE  /\ At(q, "scan")' => Metas' \subseteq task'[q].todo
                      /\ At(q, "clean")' => Metas' \subseteq task'[q].todo \cup {task'[q].id}
                      /\ task'[q].step \in {"spawn", "release"} => Metas' \subseteq {task'[q].id}
    BY DEF Surveyed
  <2>1. CASE q = p
    BY <2>1 DEF Holds
  <2>2. CASE q # p
    BY <1>1, <2>2 DEF Holds
  <2> QED
    BY <2>1, <2>2
<1>4. NeverAmbiguous'
  BY DEF NeverAmbiguous, Metas
<1> QED
  BY <1>2, <1>3, <1>4 DEF LockParts

LEMMA StarterLockInv ==
  ASSUME LockInv, NEW p \in Starters, StarterAction(p)
  PROVE  LockParts'
<1>1. /\ p \in Procs /\ Starters \subseteq Procs /\ \A q \in Starters : q # p => task'[q] = task[q]
      /\ Typed
  BY StarterTypes DEF Procs, LockInv
<1>2. \A q \in Starters : Holds(q) => lock = q
  BY DEF LockInv, Mutex
<1>3. CASE Acquire(p)
  <2>1. /\ \A q \in Starters : ~Holds(q)
        /\ lock' = p /\ Metas' = Metas /\ task'[p].step = "scan" /\ task'[p].todo = Metas
    BY <1>1, <1>2, <1>3, NobodyAssumption DEF Acquire, Metas, Typed
  <2>2. Mutex' /\ NeverAmbiguous'
    BY <1>1, <1>3, <2>1 DEF Mutex, NeverAmbiguous, LockInv, Holds, Acquire
  <2>3. Surveyed'
    BY <1>1, <2>1 DEF Surveyed, Holds
  <2> QED
    BY <2>2, <2>3 DEF LockParts
<1>4. CASE Refuse(p) \/ MintFails(p) \/ WaitEnds(p) \/ Crash(p) \/ \E id \in Ids : Reuse(p, id)
  <2>1. Metas' = Metas /\ (lock' = lock \/ lock = p \/ Holds(p))
    BY <1>4 DEF Refuse, MintFails, WaitEnds, Crash, Reuse, Metas, Holds
  <2>2. task'[p].step \in {"idle", "wait"}
    BY <1>1, <1>4 DEF Refuse, MintFails, WaitEnds, Crash, Reuse, Typed, Idle
  <2>3. \A q \in Starters : q # p /\ Holds(q) => lock' = lock
    BY <1>2, <2>1
  <2> QED
    BY <1>1, <2>1, <2>2, <2>3, QuietLockInv DEF Holds
<1>5. CASE Clean(p)
  <2>1. /\ At(p, "clean") /\ task[p].id \in Ids /\ RemoveSession(task[p].id)
        /\ Goto(p, "scan", NoId) /\ UNCHANGED lock
    BY <1>1, <1>5 DEF Clean, Typed, KnowsId
  <2>2. Metas' = Metas \ {task[p].id}
    BY <1>1, <2>1, RemoveTypes DEF Typed
  <2>3. task'[p].step = "scan" /\ task'[p].todo = task[p].todo
    BY <1>1, <2>1 DEF Typed
  <2>4. Metas' \subseteq task'[p].todo /\ NeverAmbiguous
    BY <2>1, <2>2, <2>3 DEF LockInv, Surveyed
  <2>5. PICK id : Metas' \subseteq {id}
    BY <2>2, <2>4 DEF NeverAmbiguous, Metas
  <2> QED
    BY <1>1, <1>2, <2>1, <2>3, <2>4, <2>5, HolderLockInv DEF Holds
<1>6. CASE \E id \in Ids : Discard(p, id)
  <2>1. PICK id \in Ids : Discard(p, id)
    BY <1>6
  <2>2. /\ At(p, "scan") /\ Metas' = Metas /\ lock' = lock
        /\ task'[p] = [step |-> IF meta[id] = NoMeta THEN "scan" ELSE "clean",
                       id |-> id, todo |-> task[p].todo \ {id}]
    BY <1>1, <2>1 DEF Discard, Metas, Typed
  <2>3. Metas \subseteq task[p].todo /\ (meta[id] = NoMeta => id \notin Metas)
    BY <2>2 DEF LockInv, Surveyed, Metas
  <2>4. \A q \in Starters : q # p => ~Holds(q) /\ ~Holds(q)'
    BY <1>1, <1>2, <2>2 DEF Holds
  <2>5. Mutex' /\ NeverAmbiguous'
    BY <1>2, <2>1, <2>2, <2>4 DEF Mutex, NeverAmbiguous, LockInv, Holds, Discard
  <2>6. task'[p].step \in {"scan", "clean"} /\ task'[p].id = id
        /\ task'[p].todo = task[p].todo \ {id}
        /\ (task'[p].step = "scan" => meta[id] = NoMeta)
    BY <2>2
  <2>7. Surveyed'
    BY <2>2, <2>3, <2>4, <2>6 DEF Surveyed, Holds
  <2> QED
    BY <2>5, <2>7 DEF LockParts
<1>7. CASE \E id \in Ids : Mint(p, id)
  <2>1. PICK id \in Ids : Mint(p, id)
    BY <1>7
  <2>2. At(p, "scan") /\ task[p].todo = {} /\ lock' = lock
        /\ meta' = [meta EXCEPT ![id] = [status |-> "starting", pid |-> FALSE]]
    BY <2>1 DEF Mint
  <2>3. task'[p].step = "spawn" /\ task'[p].id = id
    BY <1>1, <2>1 DEF Mint, Typed
  <2>4. Metas = {}
    BY <2>2 DEF LockInv, Surveyed
  <2>5. Metas' \subseteq {id}
    BY <1>1, <2>2, <2>4 DEF Metas, Typed
  <2> QED
    BY <1>1, <1>2, <2>2, <2>3, <2>5, HolderLockInv DEF Holds
<1>8. CASE Promote(p) \/ SpawnFails(p)
  <2>1. At(p, "spawn") /\ task[p].id \in Ids
    BY <1>1, <1>8 DEF Promote, SpawnFails, Typed, KnowsId
  <2>2. \A x \in Ids : x # task[p].id => meta'[x] = meta[x]
    BY <1>1, <1>8 DEF Promote, SpawnFails, Typed
  <2>3. Metas \subseteq {task[p].id}
    BY <2>1 DEF LockInv, Surveyed
  <2>4. Metas' \subseteq {task[p].id}
    BY <2>2, <2>3 DEF Metas
  <2>5. \/ task'[p].step = "release" /\ task'[p].id = task[p].id /\ lock' = lock
        \/ task'[p].step = "idle"
    BY <1>1, <1>8 DEF Promote, SpawnFails, Typed, Idle
  <2> QED
    BY <1>1, <1>2, <2>1, <2>4, <2>5, HolderLockInv DEF Holds
<1>9. CASE ReleaseLock(p)
  <2>1. At(p, "release") /\ Metas' = Metas /\ task'[p].step = "wait"
    BY <1>1, <1>9 DEF ReleaseLock, Metas, Typed
  <2>2. \A q \in Starters : q # p => ~Holds(q)
    BY <1>2, <2>1 DEF Holds
  <2> QED
    BY <1>1, <2>1, <2>2, QuietLockInv DEF Holds
<1> QED
  BY <1>3, <1>4, <1>5, <1>6, <1>7, <1>8, <1>9 DEF StarterAction, StarterStep

LEMMA StepLockInv ==
  ASSUME CliStoppers = {} PROVE LockInv /\ [ManagerNext]_vars => LockInv'
<1> SUFFICES ASSUME LockInv, [ManagerNext]_vars PROVE LockInv'
  OBVIOUS
<1>1. Typed /\ Typed'
  BY StepTyped DEF LockInv
<1>2. LockParts'
  <2>1. CASE \E p \in Starters : StarterAction(p)
    BY <2>1, StarterLockInv
  <2>2. CASE \E p \in McpStoppers : McpCleanup(p) \/ \E id \in Ids : McpStop(p, id)
    <3>1. Metas' \subseteq Metas /\ UNCHANGED lock /\ \A q \in Starters : task'[q] = task[q]
      BY <1>1, <2>2, McpCleanupTypes, McpStopTypes
    <3> QED
      BY <3>1, QuietLockInv
  <2>3. CASE \E id \in Ids :
               DaemonStep(id) \/ Deployed(id) \/ StartFails(id) \/ Killed(id) \/ Prune(id)
    <3>1. Metas' \subseteq Metas /\ UNCHANGED <<lock, task>>
      BY <1>1, <2>3, WorldTypes
    <3> QED
      BY <3>1, QuietLockInv
  <2>4. CASE UNCHANGED vars
    BY <2>4, QuietLockInv DEF vars, Metas
  <2> QED
    BY <2>1, <2>2, <2>3, <2>4 DEF ManagerNext, StarterAction
<1> QED
  BY <1>1, <1>2 DEF LockInv, LockParts

LEMMA InitLockInv == ManagerInit => LockInv
  BY InitTyped DEF ManagerInit, LockInv, Mutex, Surveyed, NeverAmbiguous, Holds, Idle, Procs

\* Unless the CLI's stop takes the lock from somebody, one session directory is
\* all there is, whoever crashes, is killed, stopped or cleaned up.
THEOREM OneDirectory ==
  ASSUME CliStoppers = {} PROVE ManagerSpec => []NeverAmbiguous
<1>1. LockInv => NeverAmbiguous
  BY DEF LockInv
<1> QED
  BY <1>1, InitLockInv, StepLockInv, PTL DEF ManagerSpec

-----------------------------------------------------------------------------
(* One live session, in reach.                                             *)

SParts == FreshInv /\ LiveInv /\ HolderInv /\ OneLiveSession
Early == {"boot", "loaded"}
Late == {"listening", "serving", "ready"}

LEMMA LiveIsEarlyOrLate == Live = Early \cup Late /\ Live \subseteq Alive /\ "none" \notin Alive
  BY DEF Live, Early, Late, Alive, Closing

\* FreshInv and LiveInv of one session.
FreshAt(id) ==
  /\ daemon[id] = "none" => meta[id] = NoMeta
  /\ id \in sock \cup told => daemon[id] \notin {"none", "boot", "loaded"}
LiveAt(id) ==
  /\ daemon[id] \in Early => Spawning(id)
  /\ daemon[id] \in Late =>
       /\ id \in sock /\ id \in told
       /\ meta[id] = [status |-> "running", pid |-> TRUE] \/ Spawning(id)

LEMMA SInvAt ==
  ASSUME SInv PROVE Typed /\ \A id \in Ids : FreshAt(id) /\ LiveAt(id)
  BY DEF SInv, LockInv, FreshInv, LiveInv, FreshAt, LiveAt, Early, Late

\* A step of one daemon, which can disturb the facts about its session only.
LEMMA LocalSInv ==
  ASSUME SInv, NEW id \in Ids, UNCHANGED task,
         \A x \in Ids : x # id =>
           /\ daemon'[x] = daemon[x] /\ meta'[x] = meta[x]
           /\ (x \in sock') = (x \in sock) /\ (x \in told') = (x \in told),
         daemon'[id] # "none", meta'[id].pid => meta[id].pid,
         daemon'[id] \in Live => daemon[id] \in Live,
         FreshAt(id)', LiveAt(id)'
  PROVE  SParts'
<1>1. \A x \in Ids : FreshAt(x) /\ LiveAt(x)
  BY SInvAt
<1>2. \A x \in Ids : Spawning(x)' = Spawning(x)
  BY DEF Spawning
<1>3. \A x \in Ids : FreshAt(x)' /\ LiveAt(x)'
  <2> SUFFICES ASSUME NEW x \in Ids PROVE FreshAt(x)' /\ LiveAt(x)'
    OBVIOUS
  <2>1. CASE x = id
    BY <2>1
  <2>2. CASE x # id
    BY <1>1, <1>2, <2>2 DEF FreshAt, LiveAt
  <2> QED
    BY <2>1, <2>2
<1>4. FreshInv' /\ LiveInv'
  BY <1>3 DEF FreshInv, LiveInv, FreshAt, LiveAt, Early, Late
<1>5. HolderInv'
  BY DEF SInv, HolderInv, LockInv, Typed, KnowsId, Procs
<1>6. LiveIds' \subseteq LiveIds
  BY DEF LiveIds
<1>7. OneLiveSession'
  BY <1>6 DEF SInv, OneLiveSession
<1> QED
  BY <1>4, <1>5, <1>7 DEF SParts

\* For a step that leaves every other session alone.
OthersSame(id) ==
  \A x \in Ids : x # id =>
    /\ daemon'[x] = daemon[x] /\ meta'[x] = meta[x]
    /\ (x \in sock') = (x \in sock) /\ (x \in told') = (x \in told)

\* A daemon on its way down, or gone, has nothing to keep.
LEMMA DownSInv ==
  ASSUME SInv, NEW id \in Ids, UNCHANGED task, OthersSame(id),
         daemon'[id] \notin Live \cup {"none"}, meta'[id].pid => meta[id].pid
  PROVE  SParts' /\ LiveIds' \subseteq LiveIds
<1>1. FreshAt(id)' /\ LiveAt(id)'
  BY LiveIsEarlyOrLate DEF FreshAt, LiveAt, Early
<1>2. SParts'
  BY <1>1, LocalSInv DEF OthersSame
<1> QED
  BY <1>2 DEF LiveIds, OthersSame

LEMMA WorldSInv ==
  ASSUME SInv, NEW id \in Ids,
         DaemonStep(id) \/ Deployed(id) \/ StartFails(id) \/ Killed(id) \/ Prune(id)
  PROVE  SParts' /\ LiveIds' \subseteq LiveIds
<1>1. FreshAt(id) /\ LiveAt(id) /\ meta \in [Ids -> MetaType] /\ daemon \in [Ids -> DaemonStates]
  BY SInvAt DEF Typed
<1>2. {"stopped", "failed"} \subseteq Statuses
  BY DEF Statuses
<1>3. CASE Load(id)
  <2>1. /\ daemon[id] = "boot" /\ UNCHANGED <<meta, sock, told, task>>
        /\ daemon' = [daemon EXCEPT ![id] = IF meta[id] # NoMeta THEN "loaded" ELSE "dead"]
    BY <1>3 DEF Load
  <2>2. FreshAt(id)' /\ LiveAt(id)'
    BY <1>1, <2>1 DEF FreshAt, LiveAt, Spawning, Early, Late
  <2>3. daemon[id] \in Live /\ daemon'[id] # "none" /\ OthersSame(id)
    BY <1>1, <2>1 DEF Live, OthersSame
  <2> QED
    BY <2>1, <2>2, <2>3, LocalSInv DEF OthersSame, LiveIds
<1>4. CASE Listen(id)
  <2>1. /\ daemon[id] = "loaded" /\ UNCHANGED <<meta, task>>
        /\ \/ /\ daemon' = [daemon EXCEPT ![id] = "listening"]
              /\ sock' = sock \cup {id} /\ told' = told \cup {id}
           \/ daemon' = [daemon EXCEPT ![id] = "dead"] /\ UNCHANGED <<sock, told>>
    BY <1>4 DEF Listen
  <2>2. FreshAt(id)' /\ LiveAt(id)'
    BY <1>1, <2>1 DEF FreshAt, LiveAt, Spawning, Early, Late
  <2>3. daemon[id] \in Live /\ daemon'[id] # "none" /\ OthersSame(id)
    BY <1>1, <2>1 DEF Live, OthersSame
  <2> QED
    BY <2>1, <2>2, <2>3, LocalSInv DEF OthersSame, LiveIds
<1>5. CASE StartRejected(id)
  <2>1. /\ daemon' = [daemon EXCEPT ![id] = "failing"] /\ UpdateStatus(id, "failed")
        /\ sock' = sock \ {id} /\ UNCHANGED <<told, task>>
    BY <1>5 DEF StartRejected
  <2>2. OthersSame(id) /\ meta'[id].pid = meta[id].pid
    BY <1>1, <1>2, <2>1, UpdateTypes DEF OthersSame
  <2>3. daemon'[id] \notin Live \cup {"none"}
    BY <1>1, <2>1 DEF Live
  <2> QED
    BY <2>1, <2>2, <2>3, DownSInv
<1>6. CASE Preflight(id) \/ SstUp(id) \/ Deployed(id)
  <2>1. CASE StartRejected(id)
    BY <2>1, <1>5
  <2>2. CASE ~StartRejected(id)
    <3>1. /\ daemon[id] \in {"listening", "serving"} /\ UNCHANGED <<meta, sock, told, task>>
          /\ \/ UNCHANGED daemon
             \/ daemon' = [daemon EXCEPT ![id] = "serving"]
             \/ daemon' = [daemon EXCEPT ![id] = "ready"]
      BY <1>6, <2>2 DEF Preflight, SstUp, Deployed
    <3>2. daemon[id] \in Late /\ daemon'[id] \in Late /\ OthersSame(id)
      BY <1>1, <3>1 DEF Late, OthersSame
    <3>3. FreshAt(id)' /\ LiveAt(id)'
      BY <1>1, <3>1, <3>2 DEF FreshAt, LiveAt, Spawning, Early, Late
    <3> QED
      BY <3>1, <3>2, <3>3, LocalSInv, LiveIsEarlyOrLate DEF OthersSame, LiveIds, Late
  <2> QED
    BY <2>1, <2>2
<1>7. CASE SessionStopped(id) \/ StartAborted(id) \/ Exit(id)
  <2>1. /\ UpdateStatus(id, "stopped") \/ UpdateStatus(id, "failed") \/ UNCHANGED meta
        /\ \E d \in {"exiting", "aborted", "dead", "failed"} : daemon' = [daemon EXCEPT ![id] = d]
        /\ UNCHANGED <<sock, told, task>>
    BY <1>7 DEF SessionStopped, StartAborted, Exit
  <2>2. meta'[id].pid = meta[id].pid /\ \A x \in Ids : x # id => meta'[x] = meta[x]
    BY <1>1, <1>2, <2>1, UpdateTypes
  <2>3. daemon'[id] \notin Live \cup {"none"} /\ OthersSame(id)
    BY <1>1, <2>1, <2>2 DEF Live, OthersSame
  <2> QED
    BY <2>1, <2>2, <2>3, DownSInv
<1>8. CASE HangUp(id)
  <2>1. daemon[id] \in {"dead", "failed"} /\ UNCHANGED <<meta, daemon, sock, told, task>>
    BY <1>8 DEF HangUp
  <2> QED
    BY <2>1, DownSInv DEF OthersSame, Live
<1>9. CASE StartFails(id)
  BY <1>5, <1>9 DEF StartFails
<1>10. CASE Killed(id)
  <2>1. /\ daemon' = [daemon EXCEPT ![id] = "dead"] /\ sock' = sock \ {id}
        /\ UNCHANGED <<meta, told, task>>
    BY <1>10 DEF Killed, Die
  <2>2. daemon'[id] \notin Live \cup {"none"} /\ OthersSame(id)
    BY <1>1, <2>1 DEF Live, OthersSame
  <2> QED
    BY <2>1, <2>2, DownSInv
<1>11. CASE Prune(id)
  <2>1. /\ meta[id].pid /\ ~Serves(id) /\ RemoveSession(id) /\ UNCHANGED <<told, task>>
        /\ daemon' = [daemon EXCEPT ![id] = "dead"] \/ UNCHANGED daemon
    BY <1>11 DEF Prune, Heal
  <2>2. ~Spawning(id)
    BY <2>1 DEF SInv, HolderInv, Spawning
  <2>3. daemon[id] \notin Live
    BY <1>1, <2>1, <2>2, LiveIsEarlyOrLate DEF LiveAt, Serves, PidAlive, SocketAlive
  <2>4. daemon[id] # "none"
    BY <1>1, <2>1 DEF FreshAt, NoMeta
  <2>5. OthersSame(id) /\ ~meta'[id].pid
    BY <1>1, <2>1, RemoveTypes DEF OthersSame, NoMeta
  <2>6. daemon'[id] \notin Live \cup {"none"}
    BY <1>1, <2>1, <2>3, <2>4 DEF Live
  <2> QED
    BY <2>1, <2>5, <2>6, DownSInv
<1> QED
  BY <1>3, <1>4, <1>6, <1>7, <1>8, <1>9, <1>10, <1>11 DEF DaemonStep

\* A starter's step that touches no session, at which it spawns nothing.
LEMMA QuietSInv ==
  ASSUME SInv, NEW p \in Starters, UNCHANGED <<meta, daemon, sock, told>>,
         \A q \in Procs : q # p => task'[q] = task[q],
         ~At(p, "spawn"), ~At(p, "spawn")',
         At(p, "clean")' => daemon[task'[p].id] \notin Live
  PROVE  SParts' /\ LiveIds' = LiveIds
<1>1. \A x \in Ids : Spawning(x)' = Spawning(x)
  BY DEF Spawning, Procs
<1>2. FreshInv' /\ LiveInv' /\ OneLiveSession' /\ LiveIds' = LiveIds
  BY <1>1 DEF SInv, FreshInv, LiveInv, OneLiveSession, LiveIds
<1>3. HolderInv'
  BY DEF SInv, HolderInv, Procs
<1> QED
  BY <1>2, <1>3 DEF SParts

\* Nobody is at work on a session that lives while somebody else holds the lock.
LEMMA OnlyTheHolder ==
  ASSUME SInv, NEW p \in Starters, Holds(p), ~At(p, "spawn")
  PROVE  \A id \in Ids : ~Spawning(id) /\ (daemon[id] \in Live => id \in Metas /\ Reusable(id))
<1>1. \A id \in Ids : ~Spawning(id)
  BY DEF SInv, LockInv, Mutex, Holds, Spawning
<1>2. \A id \in Ids : daemon[id] \in Live =>
        meta[id] = [status |-> "running", pid |-> TRUE] /\ id \in sock /\ daemon[id] \in Alive
  BY <1>1, SInvAt, LiveIsEarlyOrLate DEF LiveAt
<1>3. [status |-> "running", pid |-> TRUE] # NoMeta
  BY DEF NoMeta
<1>4. \A id \in Ids : daemon[id] \in Live => meta[id].status = "running" /\ meta[id].pid
  BY <1>2
<1>5. \A id \in Ids : daemon[id] \in Live => Reusable(id)
  BY <1>2, <1>4 DEF Reusable, Serves, PidAlive, SocketAlive
<1> QED
  BY <1>1, <1>2, <1>3, <1>5 DEF Metas

LEMMA StarterSInv ==
  ASSUME SInv, NEW p \in Starters, Acquire(p) \/ Refuse(p) \/ StarterStep(p)
  PROVE  SParts' /\ (LiveIds' \subseteq LiveIds \/ (LiveIds = {} /\ \E id \in Ids : Mint(p, id)))
<1>1. /\ p \in Procs /\ \A q \in Procs : q # p => task'[q] = task[q]
      /\ Typed /\ Starters \subseteq Procs
  BY StarterTypes, SInvAt DEF StarterAction, Procs
<1>2. \A id \in Ids : FreshAt(id) /\ LiveAt(id)
  BY SInvAt
<1>3. CASE \/ Acquire(p) \/ Refuse(p) \/ MintFails(p) \/ ReleaseLock(p) \/ WaitEnds(p)
           \/ \E id \in Ids : Reuse(p, id)
  <2>1. UNCHANGED <<meta, daemon, sock, told>> /\ ~At(p, "spawn")
    BY <1>3 DEF Acquire, Refuse, MintFails, ReleaseLock, WaitEnds, Reuse
  <2>2. task'[p].step \in {"idle", "scan", "wait"}
    BY <1>1, <1>3 DEF Acquire, Refuse, MintFails, ReleaseLock, WaitEnds, Reuse, Typed, Idle
  <2> QED
    BY <1>1, <2>1, <2>2, QuietSInv
<1>4. CASE \E id \in Ids : Discard(p, id)
  <2>1. PICK id \in Ids : Discard(p, id)
    BY <1>4
  <2>2. /\ UNCHANGED <<meta, daemon, sock, told>> /\ At(p, "scan")
        /\ meta[id] = NoMeta \/ ~Reusable(id)
        /\ task'[p] = [step |-> IF meta[id] = NoMeta THEN "scan" ELSE "clean",
                       id |-> id, todo |-> task[p].todo \ {id}]
    BY <1>1, <2>1 DEF Discard, Typed
  <2>3. daemon[id] \notin Live
    BY <2>2, OnlyTheHolder DEF Holds, Metas
  <2>4. task'[p].id = id /\ task'[p].step \in {"scan", "clean"}
    BY <2>2
  <2> QED
    BY <1>1, <2>2, <2>3, <2>4, QuietSInv
<1>5. CASE Clean(p)
  <2> DEFINE id == task[p].id
  <2>1. /\ At(p, "clean") /\ id \in Ids /\ RemoveSession(id) /\ Goto(p, "scan", NoId)
        /\ UNCHANGED <<daemon, told>>
    BY <1>1, <1>5 DEF Clean, Typed, KnowsId
  <2>2. /\ sock' = sock \ {id} /\ meta'[id] = NoMeta /\ \A x \in Ids : x # id => meta'[x] = meta[x]
    BY <1>1, <2>1, RemoveTypes DEF Typed
  <2>3. task'[p].step = "scan"
    BY <1>1, <2>1 DEF Typed
  <2>4. daemon[id] \notin Live
    BY <2>1 DEF SInv, HolderInv
  <2>5. \A x \in Ids : Spawning(x)' = Spawning(x)
    BY <1>1, <2>1, <2>3 DEF Spawning
  <2>6. FreshInv'
    BY <1>2, <2>1, <2>2 DEF FreshInv, FreshAt
  <2>7. LiveInv'
    <3> SUFFICES ASSUME NEW x \in Ids PROVE LiveAt(x)'
      BY DEF LiveInv, LiveAt, Early, Late
    <3>1. CASE x = id
      BY <2>1, <2>4, <3>1, LiveIsEarlyOrLate DEF LiveAt
    <3>2. CASE x # id
      BY <1>2, <2>1, <2>2, <2>5, <3>2 DEF LiveAt
    <3> QED
      BY <3>1, <3>2
  <2>8. \A q \in Starters : q # p => ~At(q, "spawn")'
    BY <1>1, <2>1 DEF SInv, LockInv, Mutex, Holds
  <2>9. HolderInv'
    BY <1>1, <2>1, <2>3, <2>8 DEF SInv, HolderInv
  <2> QED
    BY <2>1, <2>6, <2>7, <2>9 DEF SInv, SParts, OneLiveSession, LiveIds
<1>6. CASE \E id \in Ids : Mint(p, id)
  <2>1. PICK id \in Ids : Mint(p, id)
    BY <1>6
  <2>2. /\ At(p, "scan") /\ task[p].todo = {} /\ daemon[id] = "none"
        /\ meta' = [meta EXCEPT ![id] = [status |-> "starting", pid |-> FALSE]]
        /\ daemon' = [daemon EXCEPT ![id] = "boot"]
        /\ UNCHANGED <<sock, told>>
    BY <2>1 DEF Mint
  <2>3. task'[p].step = "spawn" /\ task'[p].id = id
    BY <1>1, <2>1 DEF Mint, Typed
  <2>4. Metas = {}
    BY <2>2 DEF SInv, LockInv, Surveyed
  <2>5. LiveIds = {}
    BY <2>2, <2>4, OnlyTheHolder DEF LiveIds, Holds
  <2>6. /\ \A x \in Ids : x # id => meta'[x] = meta[x] /\ daemon'[x] = daemon[x]
        /\ daemon'[id] = "boot" /\ meta'[id] = [status |-> "starting", pid |-> FALSE]
    BY <1>1, <2>2 DEF Typed
  <2>7. FreshInv'
    BY <1>2, <2>2, <2>6 DEF FreshInv, FreshAt
  <2>8. LiveInv'
    <3>1. Spawning(id)'
      BY <2>3 DEF Spawning
    <3>2. \A x \in Ids : x # id => daemon'[x] \notin Live
      BY <2>5, <2>6 DEF LiveIds
    <3> QED
      BY <2>6, <3>1, <3>2, LiveIsEarlyOrLate DEF LiveInv, Early, Late
  <2>9. HolderInv'
    BY <1>1, <2>2, <2>3, <2>6 DEF SInv, HolderInv, LockInv, Mutex, Holds
  <2>10. OneLiveSession'
    BY <2>5, <2>6 DEF OneLiveSession, LiveIds
  <2> QED
    BY <2>1, <2>5, <2>7, <2>8, <2>9, <2>10 DEF SParts
<1>7. CASE Promote(p)
  <2> DEFINE id == task[p].id
  <2>1. /\ At(p, "spawn") /\ id \in Ids /\ id \in told /\ Goto(p, "release", id)
        /\ meta' = [meta EXCEPT ![id] = [status |-> "running", pid |-> TRUE]]
        /\ UNCHANGED <<daemon, sock, told>>
    BY <1>1, <1>7 DEF Promote, Typed, KnowsId
  <2>2. task'[p].step = "release"
    BY <1>1, <2>1 DEF Typed
  <2>3. /\ \A x \in Ids : x # id => meta'[x] = meta[x]
        /\ meta'[id] = [status |-> "running", pid |-> TRUE]
    BY <1>1, <2>1 DEF Typed
  <2>4. daemon[id] \notin {"none", "boot", "loaded"}
    BY <1>2, <2>1 DEF FreshAt
  <2>5. \A x \in Ids : x # id => Spawning(x)' = Spawning(x)
    BY <1>1, <2>1, <2>2 DEF Spawning
  <2>6. FreshInv'
    BY <1>2, <2>1, <2>3, <2>4 DEF FreshInv, FreshAt
  <2>7. LiveInv'
    <3> SUFFICES ASSUME NEW x \in Ids PROVE LiveAt(x)'
      BY DEF LiveInv, LiveAt, Early, Late
    <3>1. CASE x = id
      BY <1>2, <2>1, <2>3, <2>4, <3>1 DEF LiveAt, Early
    <3>2. CASE x # id
      BY <1>2, <2>1, <2>3, <2>5, <3>2 DEF LiveAt
    <3> QED
      BY <3>1, <3>2
  <2>8. \A q \in Starters : q # p => ~Holds(q)'
    BY <1>1, <2>1 DEF SInv, LockInv, Mutex, Holds
  <2>9. HolderInv'
    BY <2>2, <2>8 DEF HolderInv, Holds
  <2> QED
    BY <2>1, <2>6, <2>7, <2>9 DEF SInv, SParts, OneLiveSession, LiveIds
<1>8. CASE SpawnFails(p)
  <2> DEFINE id == task[p].id
  <2>1. /\ At(p, "spawn") /\ id \in Ids /\ Die(id) /\ Return(p, "error", NoId)
        /\ meta' = [meta EXCEPT ![id] = [status |-> "failed", pid |-> FALSE]]
        /\ UNCHANGED told
    BY <1>1, <1>8 DEF SpawnFails, Typed, KnowsId
  <2>2. task'[p].step = "idle"
    BY <1>1, <2>1 DEF Typed, Idle
  <2>3. /\ \A x \in Ids : x # id => meta'[x] = meta[x] /\ daemon'[x] = daemon[x]
        /\ sock' = sock \ {id}
    BY <1>1, <2>1 DEF Typed, Die
  <2>4. daemon[id] # "none"
    BY <2>1 DEF SInv, HolderInv
  <2>5. daemon'[id] \notin Live \cup {"none"}
    BY <1>1, <2>1, <2>4, LiveIsEarlyOrLate DEF Typed, Die, Early, Late
  <2>6. \A x \in Ids : x # id => Spawning(x)' = Spawning(x)
    BY <1>1, <2>1, <2>2 DEF Spawning
  <2>7. FreshInv' /\ LiveInv'
    <3> SUFFICES ASSUME NEW x \in Ids PROVE FreshAt(x)' /\ LiveAt(x)'
      BY DEF FreshInv, FreshAt, LiveInv, LiveAt, Early, Late
    <3>1. CASE x = id
      BY <2>5, <3>1, LiveIsEarlyOrLate DEF FreshAt, LiveAt, Early
    <3>2. CASE x # id
      BY <1>2, <2>1, <2>3, <2>6, <3>2 DEF FreshAt, LiveAt
    <3> QED
      BY <3>1, <3>2
  <2>8. \A q \in Starters : q # p => ~Holds(q)'
    BY <1>1, <2>1 DEF SInv, LockInv, Mutex, Holds
  <2>9. HolderInv'
    BY <2>2, <2>8 DEF HolderInv, Holds
  <2>10. LiveIds' \subseteq LiveIds
    BY <2>3, <2>5 DEF LiveIds
  <2> QED
    BY <2>7, <2>9, <2>10 DEF SInv, SParts, OneLiveSession
<1> QED
  BY <1>3, <1>4, <1>5, <1>6, <1>7, <1>8 DEF StarterStep

\* Nobody stops a session from outside and no starter dies.
Undisturbed == CliStoppers = {} /\ McpStoppers = {} /\ "crash" \notin Faults

\* The live sessions after a step: no new ones, or the first after the last.
LEMMA StepSInv ==
  ASSUME Undisturbed, SInv, [ManagerNext]_vars
  PROVE  SInv' /\ (LiveIds' \subseteq LiveIds
                   \/ (LiveIds = {} /\ \E p \in Starters : \E id \in Ids : Mint(p, id)))
<1>1. LockInv'
  BY StepLockInv DEF Undisturbed, SInv
<1>2. CASE \E p \in Starters : Acquire(p) \/ Refuse(p) \/ StarterStep(p)
  BY <1>1, <1>2, StarterSInv DEF SInv, SParts
<1>3. CASE \E id \in Ids :
             DaemonStep(id) \/ Deployed(id) \/ StartFails(id) \/ Killed(id) \/ Prune(id)
  BY <1>1, <1>3, WorldSInv DEF SInv, SParts
<1>4. CASE UNCHANGED vars
  <2>1. FreshInv' /\ LiveInv' /\ HolderInv' /\ OneLiveSession' /\ LiveIds' = LiveIds
    BY <1>4 DEF vars, SInv, FreshInv, LiveInv, HolderInv, OneLiveSession, LiveIds, Spawning
  <2> QED
    BY <1>1, <2>1 DEF SInv
<1> QED
  BY <1>2, <1>3, <1>4 DEF ManagerNext, Undisturbed, Crash

LEMMA InitSInv == ManagerInit => SInv
<1> SUFFICES ASSUME ManagerInit PROVE SInv
  OBVIOUS
<1>1. \A id \in Ids : daemon[id] = "none" /\ meta[id] = NoMeta /\ id \notin sock \cup told
  BY DEF ManagerInit
<1>2. \A p \in Starters : task[p].step = "idle"
  BY DEF ManagerInit, Idle, Procs
<1> QED
  BY <1>1, <1>2, InitLockInv
     DEF SInv, FreshInv, LiveInv, HolderInv, OneLiveSession, LiveIds, Live

LEMMA AlwaysSInv == ASSUME Undisturbed PROVE ManagerSpec => []SInv
<1>1. SInv /\ [ManagerNext]_vars => SInv'
  BY StepSInv
<1> QED
  BY <1>1, InitSInv, PTL DEF ManagerSpec

\* Never two daemons that start or serve one key, for any number of processes
\* that start it, whatever daemons are killed and whoever cleans up.
THEOREM OneSessionOfAKey ==
  ASSUME Undisturbed PROVE ManagerSpec => []OneLiveSession
<1>1. SInv => OneLiveSession
  BY DEF SInv
<1> QED
  BY <1>1, AlwaysSInv, PTL

\* And the one there is has a running meta and its socket, or its starter is
\* still at work on it.
THEOREM LiveSessionsAreReachable ==
  ASSUME Undisturbed PROVE ManagerSpec => []LiveIsReachable
<1>1. ASSUME SInv, NEW id \in LiveIds
      PROVE  \/ meta[id].status = "running" /\ Serves(id)
             \/ \E p \in Starters : task[p].id = id /\ task[p].step \in {"spawn", "release"}
  <2>1. id \in Ids /\ LiveAt(id) /\ daemon[id] \in Early \cup Late /\ daemon[id] \in Alive
    BY <1>1, SInvAt, LiveIsEarlyOrLate DEF LiveIds
  <2>2. CASE Spawning(id)
    BY <2>2 DEF Spawning
  <2>3. CASE ~Spawning(id)
    <3>1. meta[id] = [status |-> "running", pid |-> TRUE] /\ id \in sock
      BY <2>1, <2>3 DEF LiveAt
    <3>2. meta[id].status = "running" /\ meta[id].pid
      BY <3>1
    <3> QED
      BY <2>1, <3>1, <3>2 DEF Serves, PidAlive, SocketAlive
  <2> QED
    BY <2>2, <2>3
<1>2. SInv => LiveIsReachable
  BY <1>1 DEF LiveIsReachable
<1> QED
  BY <1>2, AlwaysSInv, PTL

\* A session is begun by Mint alone, and for good.
LEMMA OnlyMintBegins ==
  ASSUME Undisturbed, SInv, [ManagerNext]_vars, NEW x \in Ids,
         ~\E p \in Starters : \E id \in Ids : Mint(p, id)
  PROVE  daemon'[x] = "none" <=> daemon[x] = "none"
<1>1. Typed
  BY SInvAt
<1>2. ASSUME NEW id \in Ids,
             DaemonStep(id) \/ Deployed(id) \/ StartFails(id) \/ Killed(id) \/ Prune(id)
      PROVE  \/ UNCHANGED daemon
             \/ daemon[id] # "none" /\ \E d \in DaemonStates \ {"none"} :
                                         daemon' = [daemon EXCEPT ![id] = d]
  <2>1. CASE StartRejected(id) /\ daemon[id] \in {"listening", "serving"}
    BY <2>1 DEF StartRejected, DaemonStates, Alive, Closing
  <2>2. CASE Prune(id)
    BY <2>2, LiveIsEarlyOrLate DEF Prune, Heal, PidAlive, DaemonStates
  <2>3. CASE Killed(id)
    BY <2>3, LiveIsEarlyOrLate DEF Killed, Die, DaemonStates
  <2>4. CASE Load(id) \/ Listen(id) \/ SstUp(id) \/ Deployed(id)
    BY <2>4 DEF Load, Listen, SstUp, Deployed, DaemonStates, Alive, Live
  <2>5. CASE SessionStopped(id) \/ StartAborted(id) \/ Exit(id) \/ HangUp(id)
    BY <2>5 DEF SessionStopped, StartAborted, Exit, HangUp, DaemonStates, Alive, Closing
  <2>6. CASE Preflight(id) \/ StartFails(id)
    BY <2>1, <2>6 DEF Preflight, StartFails, DaemonStates, Alive, Live
  <2> QED
    BY <1>2, <2>2, <2>3, <2>4, <2>5, <2>6 DEF DaemonStep
<1>3. ASSUME NEW p \in Starters, Acquire(p) \/ Refuse(p) \/ StarterStep(p)
      PROVE  UNCHANGED daemon \/ SpawnFails(p)
  BY <1>3 DEF Acquire, Refuse, StarterStep, Clean, MintFails, Promote, ReleaseLock, WaitEnds,
              Reuse, Discard
<1>4. ASSUME NEW p \in Starters, SpawnFails(p)
      PROVE  daemon' = [daemon EXCEPT ![task[p].id] = IF @ \in Alive THEN "dead" ELSE @]
  BY <1>4 DEF SpawnFails, Die
<1>5. CASE \E id \in Ids :
             DaemonStep(id) \/ Deployed(id) \/ StartFails(id) \/ Killed(id) \/ Prune(id)
  BY <1>1, <1>2, <1>5 DEF Typed
<1>6. CASE \E p \in Starters : Acquire(p) \/ Refuse(p) \/ StarterStep(p)
  BY <1>1, <1>3, <1>4, <1>6, LiveIsEarlyOrLate DEF Typed
<1>7. CASE UNCHANGED vars
  BY <1>7 DEF vars
<1> QED
  BY <1>5, <1>6, <1>7 DEF ManagerNext, Undisturbed, Crash

\* SessionManager implements OneSession: a step begins a session when none
\* lives, ends the one that does, or neither.
THEOREM ManagerImplementsOneSession ==
  ASSUME Undisturbed PROVE ManagerSpec => OneSessionAtATime
<1> DEFINE begun == {id \in Ids : daemon[id] # "none"}
<1>1. ManagerInit => One!OneInit
  BY DEF ManagerInit, One!OneInit, LiveIds, Live
<1>2. ASSUME SInv, [ManagerNext]_vars
      PROVE  [One!OneNext]_<<LiveIds, begun>>
  <2>1. /\ Typed /\ Typed' /\ OneLiveSession
        /\ LiveIds' \subseteq LiveIds
             \/ (LiveIds = {} /\ \E p \in Starters : \E id \in Ids : Mint(p, id))
    BY <1>2, StepSInv DEF SInv, LockInv
  <2>2. CASE \E p \in Starters : \E id \in Ids : LiveIds = {} /\ Mint(p, id)
    <3>1. PICK id \in Ids : /\ LiveIds = {} /\ daemon[id] = "none"
                            /\ daemon' = [daemon EXCEPT ![id] = "boot"]
      BY <2>2 DEF Mint
    <3>2. LiveIds' = {id} /\ begun' = begun \cup {id} /\ id \notin begun
      BY <2>1, <3>1 DEF LiveIds, Live, Typed
    <3> QED
      BY <3>1, <3>2 DEF One!OneNext, One!Begin
  <2>3. CASE ~\E p \in Starters : \E id \in Ids : Mint(p, id)
    <3>1. LiveIds' \subseteq LiveIds
      BY <2>1, <2>3
    <3>2. begun' = begun
      BY <1>2, <2>3, OnlyMintBegins
    <3>3. LiveIds' = LiveIds \/ (LiveIds # {} /\ LiveIds' = {})
      BY <2>1, <3>1 DEF OneLiveSession
    <3> QED
      BY <3>2, <3>3 DEF One!OneNext, One!End
  <2>4. ASSUME NEW p \in Starters, NEW id \in Ids, Mint(p, id) PROVE ~(LiveIds' \subseteq LiveIds)
    BY <2>1, <2>4 DEF Mint, LiveIds, Live, Typed
  <2> QED
    BY <2>1, <2>2, <2>3, <2>4
<1> QED
  BY <1>1, <1>2, AlwaysSInv, PTL DEF ManagerSpec, OneSessionAtATime, One!OneSpec

-----------------------------------------------------------------------------
(* SessionLookup.                                                          *)

Stages == {"idle", "scan", "read", "probe", "join", "done"}

Types ==
  /\ session \in [Sessions -> States]
  /\ stage \in Stages /\ todo \subseteq Sessions /\ seen \subseteq Sessions
  /\ target \in Sessions \cup {NoSession}
  /\ stage \in {"read", "probe", "join"} => target \in Sessions
  /\ stage # "idle" => request \in Requests

\* Starts keep the directories of a key apart.
OnePerKey == \A s, t \in OnDisk : KeyOf[s] = KeyOf[t] => s = t

\* The sessions the answer has to be true of: those the request is about that
\* have served ever since.
Awaited ==
  {s \in throughout :
     CASE request.mode = "project" -> KeyOf[s] = request.which
       [] request.mode \in {"session", "connect"} -> s = request.which
       [] OTHER -> TRUE}

\* Nothing it is about is lost on the way: it is in the directories to come or
\* among those found, then it is the target, and then the caller is connected.
CallerInv ==
  /\ throughout \subseteq Serving
  /\ stage = "idle" => throughout = {}
  /\ stage = "scan" => request.mode \in {"implicit", "list"} /\ throughout \subseteq todo \cup seen
  /\ stage \in {"read", "probe", "join"} => request.mode # "list" /\ Awaited \subseteq {target}
  /\ stage = "done" /\ request.mode = "list" => throughout \subseteq seen
  /\ stage = "done" /\ request.mode # "list" =>
       \/ Awaited = {}
       \/ request.mode = "implicit" /\ result = "ambiguous"
       \/ result = "connected" /\ Awaited \subseteq {target}

LInv == Types /\ OnePerKey /\ CallerInv

USE SessionsAssumption, KeyAssumption

LEMMA OneElement ==
  ASSUME NEW S \in SUBSET Sessions
  PROVE  /\ Cardinality(S) = 1 => \A s, t \in S : s = t
         /\ S # {} /\ (\A s, t \in S : s = t) => Cardinality(S) = 1
<1>1. IsFiniteSet(S)
  BY FS_Subset
<1>2. ASSUME Cardinality(S) = 1 PROVE \A s, t \in S : s = t
  BY <1>1, <1>2, FS_Singleton
<1>3. ASSUME S # {}, \A s, t \in S : s = t PROVE Cardinality(S) = 1
  <2>1. PICK x \in S : S = {x}
    BY <1>3
  <2> QED
    BY <2>1, FS_Singleton
<1> QED
  BY <1>2, <1>3

LEMMA InitLInv == LookupInit => LInv
  BY DEF LookupInit, LInv, Types, Stages, States, OnePerKey, OnDisk, CallerInv, Serving

\* What becomes of any other session takes nothing away that is awaited.
LEMMA HappensLInv ==
  ASSUME LInv, NEW s \in Sessions, Happens(s)
  PROVE  LInv'
<1> USE DEF LInv
<1>1. /\ session[s] # "gone"
      /\ \E to \in States \ {"new"} : session' = [session EXCEPT ![s] = to]
  BY DEF Happens, Moves, Types, States
<1>2. Types'
  BY <1>1 DEF Happens, caller, Types
<1>3. OnDisk' \subseteq OnDisk \cup {s}
  BY <1>1 DEF OnDisk, Types
<1>4. OnePerKey'
  BY <1>1, <1>3 DEF Happens, OnePerKey, OnDisk, Types
<1>5. throughout' \subseteq throughout /\ throughout' \subseteq Serving'
  BY <1>1 DEF Happens, Serving, CallerInv, Types
<1>6. Awaited' \subseteq Awaited
  BY <1>5 DEF Happens, caller, Awaited
<1>7. CallerInv'
  BY <1>5, <1>6 DEF CallerInv, Happens, caller
<1> QED
  BY <1>2, <1>4, <1>7

\* Of a project there is one directory at most, so one that serves is it.
LEMMA AskLInv ==
  ASSUME LInv, NEW r \in Requests, Ask(r)
  PROVE  LInv'
<1> USE DEF LInv
<1>1. /\ stage = "idle" /\ request' = r /\ throughout' = Serving
      /\ session' = session /\ seen' = seen
  BY DEF Ask
<1>2. /\ r.mode \in {"session", "connect"} => r.which \in Sessions
      /\ r.mode \in {"session", "connect", "project", "implicit", "list"}
  BY DEF Requests
<1>3. Serving \subseteq OnDisk /\ OnDisk \subseteq Sessions
  BY DEF Serving, OnDisk
<1>4. OnePerKey' /\ throughout' \subseteq Serving'
  BY <1>1 DEF OnePerKey, OnDisk, Serving
<1>5. CASE r.mode \in {"session", "connect"}
  <2>1. target' = r.which /\ stage' = "read" /\ todo' = todo
    BY <1>5 DEF Ask
  <2>2. Awaited' \subseteq {target'}
    BY <1>1, <1>5, <2>1 DEF Awaited
  <2> QED
    BY <1>1, <1>2, <1>4, <1>5, <2>1, <2>2 DEF Types, Stages, CallerInv
<1>6. CASE r.mode = "project"
  <2> DEFINE K == Matches(r.which)
  <2>1. K \in SUBSET Sessions /\ \A s, t \in K : s = t
    BY <1>3 DEF Matches, OnePerKey
  <2>2. Awaited' \subseteq K
    BY <1>1, <1>6 DEF Awaited, Matches, Serving, OnDisk
  <2>3. CASE Cardinality(K) = 1
    <3>1. target' \in K /\ stage' = "read" /\ todo' = todo
      BY <1>6, <2>3 DEF Ask
    <3>2. Awaited' \subseteq {target'}
      BY <2>1, <2>2, <3>1
    <3> QED
      BY <1>1, <1>4, <1>6, <2>1, <3>1, <3>2 DEF Types, Stages, CallerInv
  <2>4. CASE Cardinality(K) # 1
    <3>1. stage' = "done" /\ todo' = todo /\ target' = target
      BY <1>6, <2>4 DEF Ask, Answer
    <3>2. K = {}
      BY <2>1, <2>4, OneElement
    <3> QED
      BY <1>1, <1>4, <1>6, <2>2, <3>1, <3>2 DEF Types, Stages, CallerInv
  <2> QED
    BY <2>3, <2>4
<1>7. CASE r.mode \in {"implicit", "list"}
  <2>1. todo' = OnDisk /\ stage' = "scan" /\ target' = target
    BY <1>7 DEF Ask
  <2> QED
    BY <1>1, <1>3, <1>4, <1>7, <2>1 DEF Types, Stages, CallerInv
<1> QED
  BY <1>2, <1>5, <1>6, <1>7

\* Whoever serves throughout is found by its probe.
LEMMA LookLInv ==
  ASSUME LInv, NEW s \in Sessions, Look(s)
  PROVE  LInv'
<1> USE DEF LInv
<1>1. /\ stage = "scan" /\ todo' = todo \ {s}
      /\ seen' \subseteq seen \cup {s} /\ seen \subseteq seen' /\ (s \in Serving => s \in seen')
      /\ UNCHANGED <<session, request, stage, target, throughout>>
  BY DEF Look
<1>2. OnePerKey' /\ Types' /\ Serving' = Serving
  BY <1>1 DEF OnePerKey, OnDisk, Types, Serving
<1> QED
  BY <1>1, <1>2 DEF CallerInv

\* If several were found, or none, no single one was awaited.
LEMMA DecideLInv ==
  ASSUME LInv, Decide
  PROVE  LInv'
<1> USE DEF LInv
<1>1. /\ stage = "scan" /\ todo = {} /\ request.mode = "implicit"
      /\ UNCHANGED <<session, request, todo, seen, throughout>>
  BY DEF Decide
<1>2. throughout \subseteq seen /\ seen \in SUBSET Sessions /\ Awaited' \subseteq throughout
  BY <1>1 DEF CallerInv, Types, Awaited
<1>3. OnePerKey' /\ throughout' \subseteq Serving'
  BY <1>1 DEF OnePerKey, OnDisk, CallerInv, Serving
<1>4. CASE Cardinality(seen) = 1
  <2>1. target' \in seen /\ stage' = "read"
    BY <1>4 DEF Decide
  <2>2. Awaited' \subseteq {target'}
    BY <1>2, <1>4, <2>1, OneElement
  <2> QED
    BY <1>1, <1>2, <1>3, <2>1, <2>2 DEF Types, Stages, CallerInv
<1>5. CASE Cardinality(seen) # 1
  <2>1. /\ stage' = "done" /\ target' = target
        /\ seen = {} \/ result' = "ambiguous"
    BY <1>5 DEF Decide, Answer
  <2> QED
    BY <1>1, <1>2, <1>3, <2>1 DEF Types, Stages, CallerInv
<1> QED
  BY <1>4, <1>5

\* A target that is not served was not awaited, and may be removed.
LEMMA CleanupKeeps ==
  ASSUME LInv, target \in Sessions \ Serving, Cleanup \/ UNCHANGED session,
         UNCHANGED throughout
  PROVE  session' \in [Sessions -> States] /\ OnePerKey' /\ throughout' \subseteq Serving'
<1> USE DEF LInv
<1>1. session' \in [Sessions -> States]
  BY DEF Cleanup, Types, States
<1>2. OnDisk' \subseteq OnDisk
  BY DEF OnDisk, Cleanup, Types
<1>3. Serving \subseteq Serving'
  BY DEF Serving, Cleanup, Types
<1> QED
  BY <1>1, <1>2, <1>3 DEF OnePerKey, CallerInv

LEMMA ReadLInv ==
  ASSUME LInv, ReadMeta \/ Probe \/ ReadToConnect \/ Join
  PROVE  LInv'
<1> USE DEF LInv
<1>1. /\ stage \in {"read", "probe", "join"} /\ target \in Sessions
      /\ UNCHANGED <<request, todo, seen, target, throughout>>
  BY DEF ReadMeta, Probe, ReadToConnect, Join, Types
<1>2. /\ stage' \in {"probe", "join", "done"}
      /\ UNCHANGED session \/ (Cleanup /\ target \notin Serving)
      /\ stage' = "done" => target \notin Serving \/ result' = "connected"
  BY <1>1 DEF ReadMeta, Probe, ReadToConnect, Join, Answer, Serving
<1>3. request.mode # "list" /\ Awaited \subseteq {target} /\ throughout \subseteq Serving
  BY <1>1 DEF CallerInv
<1>4. Awaited' = Awaited /\ Awaited \subseteq Serving
  BY <1>1, <1>3 DEF Awaited
<1>5. session' \in [Sessions -> States] /\ OnePerKey' /\ throughout' \subseteq Serving'
  <2>1. CASE UNCHANGED session
    BY <1>1, <1>3, <2>1 DEF OnePerKey, OnDisk, Serving, Types
  <2>2. CASE Cleanup /\ target \notin Serving
    BY <1>1, <2>2, CleanupKeeps
  <2> QED
    BY <1>2, <2>1, <2>2
<1>6. Types'
  BY <1>1, <1>2, <1>5 DEF Types, Stages
<1>7. CallerInv'
  BY <1>1, <1>2, <1>3, <1>4, <1>5 DEF CallerInv
<1> QED
  BY <1>5, <1>6, <1>7

LEMMA ListLInv ==
  ASSUME LInv, List
  PROVE  LInv'
  BY DEF LInv, List, Answer, Types, Stages, OnePerKey, OnDisk, CallerInv, Serving

LEMMA LeaveLInv ==
  ASSUME LInv, Leave
  PROVE  LInv'
  BY DEF LInv, Leave, Types, Stages, OnePerKey, OnDisk, CallerInv, Serving

LEMMA IdleLInv ==
  ASSUME LInv, UNCHANGED lookupVars
  PROVE  LInv'
  BY DEF LInv, lookupVars, caller, Types, OnePerKey, OnDisk, CallerInv, Serving, Awaited

LEMMA LInvIsTrue == LInv => LookupIsTrue
<1> SUFFICES ASSUME LInv, stage = "done", throughout # {}
    PROVE  /\ request.mode = "implicit" => ExitCode = 2 \/ (ExitCode = 0 /\ throughout = {target})
           /\ request.mode = "list" => throughout \subseteq seen
           /\ request.mode \in {"session", "connect"} /\ request.which \in throughout => ExitCode = 0
           /\ request.mode = "project" /\ (\E s \in throughout : KeyOf[s] = request.which)
                => ExitCode = 0
  BY DEF LookupIsTrue
<1>1. /\ request.mode = "list" => throughout \subseteq seen
      /\ request.mode # "list" =>
           \/ Awaited = {}
           \/ request.mode = "implicit" /\ result = "ambiguous"
           \/ result = "connected" /\ Awaited \subseteq {target}
  BY DEF LInv, CallerInv
<1>2. /\ result = "ambiguous" => ExitCode = 2
      /\ result = "connected" => ExitCode = 0
  BY DEF ExitCode
<1>3. CASE request.mode = "implicit"
  <2>1. Awaited = throughout
    BY <1>3 DEF Awaited
  <2> QED
    BY <1>1, <1>2, <1>3, <2>1
<1>4. CASE request.mode \in {"session", "connect"} /\ request.which \in throughout
  <2>1. request.which \in Awaited
    BY <1>4 DEF Awaited
  <2> QED
    BY <1>1, <1>2, <1>4, <2>1
<1>5. CASE request.mode = "project" /\ \E s \in throughout : KeyOf[s] = request.which
  <2>1. Awaited # {}
    BY <1>5 DEF Awaited
  <2> QED
    BY <1>1, <1>2, <1>5, <2>1
<1> QED
  BY <1>1, <1>3, <1>4, <1>5

LookupSpec == LookupInit /\ [][LookupNext]_lookupVars

\* However many sessions of however many projects come and go while a command
\* looks for its own (SessionManager.resolve, list and connect), its answer is
\* right about those that serve from its beginning to its end.
THEOREM LookupsAreTrue == LookupSpec => []LookupIsTrue
<1>1. LInv /\ [LookupNext]_lookupVars => LInv'
  <2> SUFFICES ASSUME LInv, [LookupNext]_lookupVars PROVE LInv'
    OBVIOUS
  <2>1. ASSUME NEW s \in Sessions, Happens(s) \/ Look(s) PROVE LInv'
    BY <2>1, HappensLInv, LookLInv
  <2>2. ASSUME NEW r \in Requests, Ask(r) PROVE LInv'
    BY <2>2, AskLInv
  <2>3. ASSUME Decide \/ List \/ ReadMeta \/ Probe \/ ReadToConnect \/ Join \/ Leave PROVE LInv'
    BY <2>3, DecideLInv, ListLInv, ReadLInv, LeaveLInv
  <2>4. ASSUME UNCHANGED lookupVars PROVE LInv'
    BY <2>4, IdleLInv
  <2> QED
    BY <2>1, <2>2, <2>3, <2>4 DEF LookupNext
<1> QED
  BY InitLInv, <1>1, LInvIsTrue, PTL DEF LookupSpec
=============================================================================
