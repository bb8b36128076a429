----------------------------- MODULE StartLock -----------------------------
(***************************************************************************)
(* The lock that serialises startOrAttach per (projectDir, stage): a       *)
(* directory created with mkdir, polled by the others, and taken away from *)
(* a holder once it is 60 s old and no live session exists for the key.    *)
(* Every process is a CLI or MCP process of its own; only single file      *)
(* system calls are atomic.                                                *)
(***************************************************************************)
EXTENDS Naturals

CONSTANTS
  Procs,        \* processes that call startOrAttach for one key
  Nobody,
  MaxAttempts,  \* maxAttempts of acquireLock
  Faults        \* sets of things that may go wrong; a behaviour has one of them

ASSUME ProcsAssumption == Nobody \notin Procs
ASSUME AttemptsAssumption == MaxAttempts \in Nat \ {0}

VARIABLES
  faults,    \* what may go wrong in this behaviour: a process may "crash" (and
             \* be run again), be "slow" and hold the lock past staleAfterMs; a
             \* stop command may "remove"
  dir,       \* the lock directory: "absent", "fresh" or "stale" (mtime > 60 s)
  maker,     \* the process whose mkdir made it
  pc,        \* where each process is in acquireLock
  attempt,   \* its loop counter
  snatched   \* observer: a reclaim has removed a directory that was not stale

lockVars == <<faults, dir, maker, pc, attempt, snatched>>

PCs == {"idle", "mkdir", "stat", "inspect", "reclaim", "sleep", "held", "busy", "crashed"}
Acquiring == {"mkdir", "stat", "inspect", "reclaim", "sleep"}

LockInit ==
  /\ faults \in Faults
  /\ dir = "absent" /\ maker = Nobody
  /\ pc = [p \in Procs |-> "idle"]
  /\ attempt = [p \in Procs |-> 0]
  /\ snatched = FALSE

Goto(p, to) == pc' = [pc EXCEPT ![p] = to]

\* `continue', or the end of the loop body: the next attempt, if any is left.
NextAttempt(p) ==
  /\ attempt' = [attempt EXCEPT ![p] = @ + 1]
  /\ Goto(p, IF attempt[p] + 1 < MaxAttempts THEN "mkdir" ELSE "busy")

-----------------------------------------------------------------------------
Request(p) ==
  /\ pc[p] = "idle"
  /\ attempt' = [attempt EXCEPT ![p] = 0]
  /\ Goto(p, "mkdir")
  /\ UNCHANGED <<faults, dir, maker, snatched>>

\* Mutant: an existing directory is not an error (recursive: true).
MkdirRecursive(p) ==
  /\ pc[p] = "mkdir"
  /\ dir' = "fresh" /\ maker' = p /\ Goto(p, "held")
  /\ UNCHANGED <<faults, attempt, snatched>>

\* mkdirSync(lockPath, {recursive: false}) is the only atomic test-and-set.
Mkdir(p) ==
  /\ pc[p] = "mkdir"
  /\ IF dir = "absent"
     THEN dir' = "fresh" /\ maker' = p /\ Goto(p, "held")
     ELSE UNCHANGED <<dir, maker>> /\ Goto(p, "stat")
  /\ UNCHANGED <<faults, attempt, snatched>>

\* Any error but EEXIST is rethrown.
MkdirThrows(p) ==
  /\ pc[p] = "mkdir"
  /\ Goto(p, "idle")
  /\ UNCHANGED <<faults, dir, maker, attempt, snatched>>

\* EEXIST: how old is it?
Stat(p) ==
  /\ pc[p] = "stat"
  /\ \/ dir = "absent" /\ NextAttempt(p)
     \/ dir = "fresh" /\ Goto(p, "sleep") /\ UNCHANGED attempt
     \/ dir = "stale" /\ Goto(p, "inspect") /\ UNCHANGED attempt
  /\ UNCHANGED <<faults, dir, maker, snatched>>

\* isLiveForKey has answered `live'.
Inspect(p, live) ==
  /\ pc[p] = "inspect"
  /\ Goto(p, IF live THEN "sleep" ELSE "reclaim")
  /\ UNCHANGED <<faults, dir, maker, attempt, snatched>>

RemoveDir == dir' = "absent" /\ maker' = Nobody

\* rmdirSync of whatever directory is there by now, not of the one that was
\* inspected.
Reclaim(p) ==
  /\ pc[p] = "reclaim"
  /\ RemoveDir
  /\ snatched' = (snatched \/ dir = "fresh")
  /\ NextAttempt(p)
  /\ UNCHANGED faults

\* Mutant: sleeping does not count as an attempt.
WakeForFree(p) ==
  /\ pc[p] = "sleep"
  /\ Goto(p, "mkdir")
  /\ UNCHANGED <<faults, dir, maker, attempt, snatched>>

Wake(p) ==
  /\ pc[p] = "sleep"
  /\ NextAttempt(p)
  /\ UNCHANGED <<faults, dir, maker, snatched>>

\* Mutant: the caller releases in a `finally' around acquireLock as well.
GiveUpReleasing(p) ==
  /\ pc[p] = "busy"
  /\ RemoveDir
  /\ Goto(p, "idle")
  /\ UNCHANGED <<faults, attempt, snatched>>

\* SessionBusyError reaches the caller.
GiveUp(p) ==
  /\ pc[p] = "busy"
  /\ Goto(p, "idle")
  /\ UNCHANGED <<faults, dir, maker, attempt, snatched>>

\* release() removes the directory whoever made it.
Release(p) ==
  /\ pc[p] = "held"
  /\ RemoveDir
  /\ Goto(p, "idle")
  /\ UNCHANGED <<faults, attempt, snatched>>

-----------------------------------------------------------------------------
\* A directory passes staleAfterMs: a held one only if its holder is slow.
GrowStale ==
  /\ dir = "fresh"
  /\ "slow" \in faults \/ (maker \in Procs => pc[maker] # "held")
  /\ dir' = "stale"
  /\ UNCHANGED <<faults, maker, pc, attempt, snatched>>

\* A process dies and leaves the directory behind; later it is run again.
Crash(p) ==
  /\ "crash" \in faults /\ pc[p] \notin {"idle", "crashed"}
  /\ Goto(p, "crashed")
  /\ UNCHANGED <<faults, dir, maker, attempt, snatched>>

Rerun(p) ==
  /\ pc[p] = "crashed"
  /\ Goto(p, "idle")
  /\ UNCHANGED <<faults, dir, maker, attempt, snatched>>

\* The stop command of the CLI removes the lock directory of its session's key.
StopRemoves ==
  /\ "remove" \in faults
  /\ RemoveDir
  /\ UNCHANGED <<faults, pc, attempt, snatched>>

-----------------------------------------------------------------------------
Step(p) ==
  \/ Request(p) \/ Mkdir(p) \/ MkdirThrows(p) \/ Stat(p) \/ Reclaim(p) \/ Wake(p) \/ GiveUp(p)
  \/ Release(p) \/ Crash(p) \/ Rerun(p)
  \/ \E live \in BOOLEAN : Inspect(p, live)

LockNext == GrowStale \/ StopRemoves \/ \E p \in Procs : Step(p)

LockSpec == LockInit /\ [][LockNext]_lockVars

\* A process that runs makes progress through acquireLock; nothing obliges it
\* to ask for the lock, to release it or to crash.
Progress(p) ==
  Mkdir(p) \/ Stat(p) \/ Reclaim(p) \/ Wake(p) \/ \E live \in BOOLEAN : Inspect(p, live)

LockFairSpec == LockSpec /\ \A p \in Procs : WF_lockVars(Progress(p))

-----------------------------------------------------------------------------
\* The type of every variable.
LockTypeOK ==
  /\ faults \in Faults
  /\ dir \in {"absent", "fresh", "stale"}
  /\ maker \in Procs \cup {Nobody}
  /\ pc \in [Procs -> PCs]
  /\ attempt \in [Procs -> 0..MaxAttempts]
  /\ snatched \in BOOLEAN

\* Processes may die anywhere and be run again, but nobody takes the lock from
\* outside and no living holder outstays staleAfterMs.
OnlyDeaths == faults \subseteq {"crash"}

\* "Acquire an exclusive lock" (locks.ts): no two processes are past acquireLock
\* and before release at the same time.
Exclusive == \A p, q \in Procs : pc[p] = "held" /\ pc[q] = "held" => p = q

\* Reclaiming is the only hole: however many processes poll, die, are run again
\* and reclaim the same orphan, the lock is exclusive as long as no reclaim hits
\* a directory made after the one it had inspected.
MutualExclusion == OnlyDeaths /\ ~snatched => Exclusive

\* release() and reclaiming are unconditional rmdirs, also of those who come
\* late; with the same exception a process inside the lock never loses its
\* directory, nor finds another's in its place.
HolderKeepsDirectory ==
  OnlyDeaths /\ ~snatched => \A p \in Procs : pc[p] = "held" => dir = "fresh" /\ maker = p

\* Waiting for the lock is bounded: acquireLock returns or throws EBUSY.
AcquireReturns ==
  \A p \in Procs : pc[p] \in Acquiring ~> pc[p] \notin Acquiring
=============================================================================
