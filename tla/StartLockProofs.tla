-------------------------- MODULE StartLockProofs --------------------------
(***************************************************************************)
(* When the start lock is exclusive, for any number of processes and       *)
(* attempts: in every behaviour in which processes die, are run again and  *)
(* reclaim what the dead have left, up to the first reclaim that removes a *)
(* directory it had not inspected.  (TLC finds three processes getting     *)
(* there, and two of them in the lock.)                                    *)
(***************************************************************************)
EXTENDS StartLock, TLAPS

\* A process still in the loop has an attempt left to count.
AttemptsLeft == \A p \in Procs : pc[p] \in Acquiring => attempt[p] < MaxAttempts

\* LockTypeOK without the observer.
ProtocolTypes ==
  /\ faults \in Faults
  /\ dir \in {"absent", "fresh", "stale"}
  /\ maker \in Procs \cup {Nobody}
  /\ pc \in [Procs -> PCs]
  /\ attempt \in [Procs -> 0..MaxAttempts]

TInv == ProtocolTypes /\ AttemptsLeft

LEMMA TInvInductive == LockSpec => []TInv
<1> USE DEF ProtocolTypes, AttemptsLeft, TInv, PCs, Acquiring
<1>1. LockInit => TInv
  BY AttemptsAssumption DEF LockInit
<1>2. TInv /\ [LockNext]_lockVars => TInv'
  <2> SUFFICES ASSUME TInv, [LockNext]_lockVars PROVE TInv'
    OBVIOUS
  <2> USE AttemptsAssumption DEF Goto, NextAttempt, RemoveDir
  <2>1. CASE GrowStale
    BY <2>1 DEF GrowStale
  <2>2. CASE StopRemoves
    BY <2>2 DEF StopRemoves
  <2>3. ASSUME NEW p \in Procs, Request(p) PROVE TInv'
    BY <2>3 DEF Request
  <2>4. ASSUME NEW p \in Procs, Mkdir(p) PROVE TInv'
    BY <2>4 DEF Mkdir
  <2>5. ASSUME NEW p \in Procs, Stat(p) PROVE TInv'
    BY <2>5 DEF Stat
  <2>6. ASSUME NEW p \in Procs, NEW live \in BOOLEAN, Inspect(p, live) PROVE TInv'
    BY <2>6 DEF Inspect
  <2>7. ASSUME NEW p \in Procs, Reclaim(p) PROVE TInv'
    BY <2>7 DEF Reclaim
  <2>8. ASSUME NEW p \in Procs, Wake(p) PROVE TInv'
    BY <2>8 DEF Wake
  <2>9. ASSUME NEW p \in Procs, MkdirThrows(p) \/ GiveUp(p) \/ Release(p) \/ Crash(p) \/ Rerun(p)
        PROVE  TInv'
    BY <2>9 DEF MkdirThrows, GiveUp, Release, Crash, Rerun
  <2>10. CASE UNCHANGED lockVars
    BY <2>10 DEF lockVars
  <2>11. QED
    BY <2>1, <2>2, <2>3, <2>4, <2>5, <2>6, <2>7, <2>8, <2>9, <2>10 DEF LockNext, Step
<1>3. QED
  BY <1>1, <1>2, PTL DEF LockSpec

\* What goes wrong is fixed, and only a reclaim moves the observer.
LEMMA ObserverStep ==
  ASSUME [LockNext]_lockVars
  PROVE  /\ faults' = faults
         /\ snatched' = snatched \/ \E p \in Procs : Reclaim(p)
<1>1. CASE GrowStale \/ StopRemoves \/ UNCHANGED lockVars
  BY <1>1 DEF GrowStale, StopRemoves, lockVars
<1>2. ASSUME NEW p \in Procs, Step(p), ~Reclaim(p)
      PROVE  faults' = faults /\ snatched' = snatched
  BY <1>2 DEF Step, Request, Mkdir, MkdirThrows, Stat, Inspect, Wake, GiveUp, Release, Crash, Rerun
<1>3. ASSUME NEW p \in Procs, Reclaim(p) PROVE faults' = faults
  BY <1>3 DEF Reclaim
<1> QED
  BY <1>1, <1>2, <1>3 DEF LockNext

\* Every variable keeps its type; the loop never counts past maxAttempts.
THEOREM LockTypeCorrect == LockSpec => []LockTypeOK
<1>1. LockInit => snatched \in BOOLEAN
  BY DEF LockInit
<1>2. snatched \in BOOLEAN /\ [LockNext]_lockVars => (snatched \in BOOLEAN)'
  <2>1. ASSUME NEW p \in Procs, Reclaim(p) PROVE snatched' \in BOOLEAN
    BY <2>1, Zenon DEF Reclaim
  <2> QED
    BY <2>1, ObserverStep, Zenon
<1>3. TInv /\ snatched \in BOOLEAN => LockTypeOK
  BY DEF TInv, ProtocolTypes, LockTypeOK
<1> QED
  BY <1>1, <1>2, <1>3, TInvInductive, PTL DEF LockSpec

-----------------------------------------------------------------------------
\* A holder's directory is its own and not stale: so no two hold, a directory
\* that may be reclaimed is nobody's, and one that may be made replaces none.
HolderInv ==
  OnlyDeaths /\ ~snatched => \A p \in Procs : pc[p] = "held" => dir = "fresh" /\ maker = p

LEMMA HolderInvStep ==
  ASSUME TInv, HolderInv, [LockNext]_lockVars
  PROVE  HolderInv'
<1>1. faults' = faults /\ (snatched => snatched')
  <2>1. ASSUME NEW p \in Procs, Reclaim(p), snatched PROVE snatched'
    BY <2>1, Zenon DEF Reclaim
  <2>2. ASSUME snatched' = snatched, snatched PROVE snatched'
    BY <2>2
  <2> QED
    BY <2>1, <2>2, ObserverStep, Zenon
<1> SUFFICES ASSUME OnlyDeaths, ~snatched'
             PROVE  (\A p \in Procs : pc[p] = "held" => dir = "fresh" /\ maker = p)'
  BY <1>1 DEF HolderInv, OnlyDeaths
<1>2. \A p \in Procs : pc[p] = "held" => dir = "fresh" /\ maker = p
  BY <1>1 DEF HolderInv
<1>3. pc \in [Procs -> PCs] /\ "slow" \notin faults /\ "remove" \notin faults
  BY DEF TInv, ProtocolTypes, OnlyDeaths
<1> USE <1>2, <1>3 DEF Goto, NextAttempt, RemoveDir
<1>4. CASE GrowStale
  BY <1>4 DEF GrowStale
<1>5. CASE StopRemoves
  BY <1>5 DEF StopRemoves
<1>6. ASSUME NEW q \in Procs,
             \/ Request(q) \/ MkdirThrows(q) \/ Stat(q) \/ Wake(q) \/ GiveUp(q) \/ Crash(q) \/ Rerun(q)
             \/ \E live \in BOOLEAN : Inspect(q, live)
      PROVE  (\A p \in Procs : pc[p] = "held" => dir = "fresh" /\ maker = p)'
  BY <1>6 DEF Request, MkdirThrows, Stat, Wake, GiveUp, Crash, Rerun, Inspect
<1>7. ASSUME NEW q \in Procs, Mkdir(q)
      PROVE  (\A p \in Procs : pc[p] = "held" => dir = "fresh" /\ maker = p)'
  BY <1>7 DEF Mkdir
<1>8. ASSUME NEW q \in Procs, Reclaim(q)
      PROVE  (\A p \in Procs : pc[p] = "held" => dir = "fresh" /\ maker = p)'
  <2>1. dir # "fresh"
    BY <1>8 DEF Reclaim
  <2>2. \A p \in Procs : pc[p] # "held"
    BY <2>1
  <2> QED
    BY <1>8, <2>2 DEF Reclaim
<1>9. ASSUME NEW q \in Procs, Release(q)
      PROVE  (\A p \in Procs : pc[p] = "held" => dir = "fresh" /\ maker = p)'
  BY <1>9 DEF Release
<1>10. CASE UNCHANGED lockVars
  BY <1>10 DEF lockVars
<1> QED
  BY <1>4, <1>5, <1>6, <1>7, <1>8, <1>9, <1>10 DEF LockNext, Step

\* For any number of processes: whatever dies and is reclaimed, a holder has the
\* directory it made until it releases it, unless a reclaim has hit the wrong one.
THEOREM HolderIsNotRobbed == LockSpec => []HolderKeepsDirectory
<1>1. LockInit => HolderInv
  BY DEF LockInit, HolderInv
<1>2. TInv /\ HolderInv /\ [LockNext]_lockVars => HolderInv'
  BY HolderInvStep
<1>3. HolderInv => HolderKeepsDirectory
  BY DEF HolderInv, HolderKeepsDirectory
<1> QED
  BY <1>1, <1>2, <1>3, TInvInductive, PTL DEF LockSpec

\* For any number of processes the lock is exclusive as long as every reclaim
\* removes a directory that was stale.
THEOREM LockExclusive == LockSpec => []MutualExclusion
<1>1. HolderKeepsDirectory => MutualExclusion
  BY DEF HolderKeepsDirectory, MutualExclusion, Exclusive
<1> QED
  BY <1>1, HolderIsNotRobbed, PTL
=============================================================================
