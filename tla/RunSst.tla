------------------------------- MODULE RunSst -------------------------------
(***************************************************************************)
(* runSst: one `sst' subcommand as a child process with a time limit.  The *)
(* limit sends SIGTERM, and SIGKILL 5 s later; the call settles when the   *)
(* child could not be started or when it has exited and its output is      *)
(* closed, which whoever has inherited its pipes may delay.                *)
(***************************************************************************)
VARIABLES
  child,      \* the process; "unspawned" if sst cannot be executed
  stubborn,   \* it does not end on SIGTERM
  signals,    \* what it has been sent
  heirs,      \* a descendant holds its pipes
  limit,      \* the timer of timeoutMs
  grace,      \* the timer of the SIGKILL
  timedOut,
  outcome     \* of the promise

runVars == <<child, stubborn, signals, heirs, limit, grace, timedOut, outcome>>

RunInit ==
  /\ child \in {"running", "unspawned"} /\ stubborn \in BOOLEAN /\ signals = {}
  /\ heirs = FALSE
  /\ limit = "armed" /\ grace = "off" /\ timedOut = FALSE
  /\ outcome = "pending"

\* The `error' event.
SpawnFailed ==
  /\ child = "unspawned" /\ outcome = "pending"
  /\ limit' = "off"
  /\ outcome' = "rejected"
  /\ UNCHANGED <<child, stubborn, signals, heirs, grace, timedOut>>

ChildForks ==
  /\ child = "running" /\ ~heirs /\ heirs' = TRUE
  /\ UNCHANGED <<child, stubborn, signals, limit, grace, timedOut, outcome>>

ChildExits ==
  /\ child = "running" /\ child' = "exited"
  /\ UNCHANGED <<stubborn, signals, heirs, limit, grace, timedOut, outcome>>

HeirsEnd ==
  /\ heirs /\ heirs' = FALSE
  /\ UNCHANGED <<child, stubborn, signals, limit, grace, timedOut, outcome>>

\* Mutant: SIGTERM is all there is.
TimeLimitOnce ==
  /\ limit = "armed"
  /\ limit' = "off" /\ timedOut' = TRUE
  /\ signals' = IF child = "running" THEN signals \cup {"SIGTERM"} ELSE signals
  /\ UNCHANGED <<child, stubborn, heirs, grace, outcome>>

\* kill() reaches nobody once the child has exited.
TimeLimit ==
  /\ limit = "armed"
  /\ limit' = "off" /\ timedOut' = TRUE
  /\ signals' = IF child = "running" THEN signals \cup {"SIGTERM"} ELSE signals
  /\ grace' = "armed"
  /\ UNCHANGED <<child, stubborn, heirs, outcome>>

\* Whether the call has settled or not: nobody clears this timer.
GraceEnds ==
  /\ grace = "armed" /\ grace' = "off"
  /\ signals' = IF child = "running" THEN signals \cup {"SIGKILL"} ELSE signals
  /\ UNCHANGED <<child, stubborn, heirs, limit, timedOut, outcome>>

\* The `close' event: the child has exited and nobody holds its pipes.
Closed ==
  /\ child = "exited" /\ ~heirs /\ outcome = "pending"
  /\ limit' = "off"
  /\ outcome' = IF timedOut THEN "timed out" ELSE "done"
  /\ UNCHANGED <<child, stubborn, signals, heirs, grace, timedOut>>

\* It has been sent a signal it ends on.
Obeys == "SIGKILL" \in signals \/ ("SIGTERM" \in signals /\ ~stubborn)

RunNext ==
  SpawnFailed \/ ChildForks \/ ChildExits \/ HeirsEnd \/ TimeLimit \/ GraceEnds \/ Closed

\* A run is over in time, with the child gone, unless somebody who outlives the
\* child keeps its output open: that is the only thing nothing bounds.
RunEnds ==
  limit = "armed" /\ child = "running" ~> child # "running" /\ (outcome # "pending" \/ heirs)
=============================================================================
