---------------------------- MODULE SessionLookup ----------------------------
(***************************************************************************)
(* How a command finds its session among all that are on disk, of every    *)
(* project and stage: SessionManager.resolve, list and connect, and what   *)
(* the CLI and the MCP server make of their answers.  The caller reads one *)
(* directory after the other and awaits a probe in between, while daemons  *)
(* come and go (SessionManager has their protocol; here it is the world    *)
(* around the caller).                                                     *)
(***************************************************************************)
EXTENDS Naturals, FiniteSets

CONSTANTS
  Sessions,   \* session ids
  Keys,       \* projects with their stage
  KeyOf       \* the key in each meta.json

ASSUME SessionsAssumption == IsFiniteSet(Sessions)
ASSUME KeyAssumption == KeyOf \in [Sessions -> Keys]

VARIABLES
  session,      \* what is on disk of each, and whether its daemon answers
  request,      \* what the caller asks for
  stage,        \* how far it has come
  todo,         \* directories it has not looked at yet
  seen,         \* the sessions it has found to serve
  target,       \* the session it has decided on
  result,       \* its answer
  throughout    \* (history) sessions that have served ever since it asked

caller == <<request, stage, todo, seen, target, result>>
lookupVars == <<session, caller, throughout>>

\* "new" and "gone" have no directory, "bare" none with a readable meta.json;
\* "starting" and "unborn" (failed before it was ready) have a meta without a
\* pid.  Of those with a pid only "serving" listens, and "deaf" (a stop under
\* way) and "failing" are processes that do not; "dead", "stopped" and
\* "failed" are none any more.
States == {"new", "bare", "starting", "unborn", "serving", "deaf", "dead",
           "stopped", "failing", "failed", "gone"}
OnDisk == {s \in Sessions : session[s] \notin {"new", "gone"}}
Serving == {s \in Sessions : session[s] = "serving"}
NoSession == "none"

NoRequest == [mode |-> "none", which |-> NoSession]
Requests ==
  [mode : {"session", "connect"}, which : Sessions] \cup [mode : {"project"}, which : Keys]
    \cup [mode : {"implicit", "list"}, which : {NoSession}]

LookupInit ==
  /\ session = [s \in Sessions |-> "new"]
  /\ request = NoRequest /\ stage = "idle"
  /\ todo = {} /\ seen = {} /\ target = NoSession /\ result = "none"
  /\ throughout = {}

-----------------------------------------------------------------------------
(* The world: starts, stops, failures and deaths of daemons.               *)

Moves(from) ==
  CASE from = "new" -> {"bare"}
    [] from = "bare" -> {"starting"}
    [] from = "starting" -> {"serving", "unborn"}
    [] from = "serving" -> {"deaf", "dead", "failing"}
    [] from = "deaf" -> {"stopped", "dead"}
    [] from = "failing" -> {"failed"}
    [] from \in {"unborn", "dead", "stopped", "failed"} -> {"gone"}
    [] from = "gone" -> {}

\* (A start cleans up what earlier ones of its key have left before it makes a
\* directory: SessionManager, NeverAmbiguous.)
Happens(s) ==
  /\ session[s] = "new" => \A t \in OnDisk : KeyOf[t] # KeyOf[s]
  /\ \E to \in Moves(session[s]) : session' = [session EXCEPT ![s] = to]
  /\ throughout' = throughout \ {s}
  /\ UNCHANGED caller

-----------------------------------------------------------------------------
(* The caller.                                                             *)

Answer(r) == result' = r /\ stage' = "done"

\* resolve with --project: the scan does not await anything.
Matches(key) == {s \in OnDisk : session[s] # "bare" /\ KeyOf[s] = key}

Ask(r) ==
  /\ stage = "idle" /\ request' = r
  /\ throughout' = Serving
  /\ \/ /\ r.mode \in {"session", "connect"}
        /\ target' = r.which /\ stage' = "read" /\ UNCHANGED <<todo, result>>
     \/ /\ r.mode = "project" /\ Cardinality(Matches(r.which)) = 1
        /\ target' \in Matches(r.which) /\ stage' = "read" /\ UNCHANGED <<todo, result>>
     \/ /\ r.mode = "project" /\ Cardinality(Matches(r.which)) # 1
        /\ Answer(IF Matches(r.which) = {} THEN "not found" ELSE "ambiguous")
        /\ UNCHANGED <<todo, target>>
     \/ /\ r.mode \in {"implicit", "list"}
        /\ todo' = OnDisk /\ stage' = "scan" /\ UNCHANGED <<target, result>>
  /\ UNCHANGED <<session, seen>>

\* Mutant: the first session that serves is taken.
LookHastily(s) ==
  /\ stage = "scan" /\ s \in todo
  /\ todo' = IF s \in Serving THEN {} ELSE todo \ {s}
  /\ seen' = IF s \in Serving THEN seen \cup {s} ELSE seen
  /\ UNCHANGED <<session, request, stage, target, result, throughout>>

\* livenessLookup, or what list() does for one record: only a running meta is
\* probed, and it serves if its pid and its socket answer.
Look(s) ==
  /\ stage = "scan" /\ s \in todo
  /\ todo' = todo \ {s}
  /\ seen' = IF s \in Serving THEN seen \cup {s} ELSE seen
  /\ UNCHANGED <<session, request, stage, target, result, throughout>>

\* resolve without arguments.
Decide ==
  /\ stage = "scan" /\ todo = {} /\ request.mode = "implicit"
  /\ \/ Cardinality(seen) = 1 /\ target' \in seen /\ stage' = "read" /\ UNCHANGED result
     \/ /\ Cardinality(seen) # 1 /\ UNCHANGED target
        /\ Answer(IF seen = {} THEN "not found" ELSE "ambiguous")
  /\ UNCHANGED <<session, request, todo, seen, throughout>>

List ==
  /\ stage = "scan" /\ todo = {} /\ request.mode = "list"
  /\ Answer("listed")
  /\ UNCHANGED <<session, request, todo, seen, target, throughout>>

Cleanup == session' = [session EXCEPT ![target] = "gone"]

\* resolve reads the meta of its target; without one, if only because there is
\* no such session yet, it cleans up (and a start that has not written its meta
\* yet makes the directory again, or fails).
ReadMeta ==
  /\ stage = "read" /\ request.mode # "connect"
  /\ \/ /\ session[target] \in {"new", "bare", "gone"}
        /\ (session[target] = "bare" /\ Cleanup) \/ UNCHANGED session
        /\ Answer("unhealthy")
     \/ /\ session[target] \in {"starting", "unborn"}
        /\ Answer("starting") /\ UNCHANGED session
     \/ /\ session[target] \in {"serving", "deaf", "dead", "stopped", "failing", "failed"}
        /\ stage' = "probe" /\ UNCHANGED <<session, result>>
  /\ UNCHANGED <<request, todo, seen, target, throughout>>

\* ... and probes it: a daemon that does not listen is killed, and what is not
\* served is removed.
Probe ==
  /\ stage = "probe"
  /\ \/ target \in Serving /\ stage' = "join" /\ UNCHANGED <<session, result>>
     \/ target \notin Serving /\ Cleanup /\ Answer("unhealthy")
  /\ UNCHANGED <<request, todo, seen, target, throughout>>

\* connect() of the MCP server reads the meta and trusts a pid.
ReadToConnect ==
  /\ stage = "read" /\ request.mode = "connect"
  /\ \/ session[target] \in {"new", "bare", "gone"} /\ Answer("not found")
     \/ session[target] \in {"starting", "unborn"} /\ Answer("starting")
     \/ session[target] \in {"failing", "failed"} /\ Answer("failed")
     \/ /\ session[target] \in {"serving", "deaf", "dead", "stopped"}
        /\ stage' = "join" /\ UNCHANGED result
  /\ UNCHANGED <<session, request, todo, seen, target, throughout>>

\* IpcClient.connect.
Join ==
  /\ stage = "join"
  /\ Answer(IF target \in Serving THEN "connected" ELSE "error")
  /\ UNCHANGED <<session, request, todo, seen, target, throughout>>

\* The command is over; it closes its client.
Leave ==
  /\ stage = "done"
  /\ request' = NoRequest /\ stage' = "idle"
  /\ todo' = {} /\ seen' = {} /\ target' = NoSession /\ result' = "none"
  /\ throughout' = {}
  /\ UNCHANGED session

LookupNext ==
  \/ \E s \in Sessions : Happens(s) \/ Look(s)
  \/ \E r \in Requests : Ask(r)
  \/ Decide \/ List \/ ReadMeta \/ Probe \/ ReadToConnect \/ Join \/ Leave

-----------------------------------------------------------------------------
\* The exit code of a CLI command that could not, or could, reach its session.
ExitCode ==
  CASE result = "connected" -> 0
    [] result = "ambiguous" -> 2
    [] result = "not found" -> 3
    [] result \in {"unhealthy", "starting"} -> 4
    [] OTHER -> 1

\* Though the directories are read one by one while daemons come and go, a
\* command agrees with every session that serves from its beginning to its end.
\* Without arguments it is connected to that session or told that there are
\* several, never that there is none, and never connected to another one; its
\* id, its project or a list finds it.
LookupIsTrue ==
  stage = "done" /\ throughout # {} =>
    /\ request.mode = "implicit" => ExitCode = 2 \/ (ExitCode = 0 /\ throughout = {target})
    /\ request.mode = "list" => throughout \subseteq seen
    /\ request.mode \in {"session", "connect"} /\ request.which \in throughout => ExitCode = 0
    /\ request.mode = "project" /\ (\E s \in throughout : KeyOf[s] = request.which) => ExitCode = 0
=============================================================================
