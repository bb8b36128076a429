------------------------- MODULE SstSessionHistory -------------------------
(***************************************************************************)
(* SstSession with, for every call, what could be observed while it was in *)
(* flight.  The observer reads states and statuses only, never the phase   *)
(* of the call, so it can judge the outcome the call reports.              *)
(***************************************************************************)
EXTENDS SstSession

VARIABLE observed

hvars == <<vars, observed>>

\* kind: the operation; opened: the first thing it waits for has happened since
\* the call (BUSY; the named command left RUNNING); closed: the second one has
\* happened after it (READY; RUNNING); owed: the autostart commands that have
\* been registered all along and were RUNNING at no moment.
Nothing == [kind |-> "none", opened |-> FALSE, closed |-> FALSE, owed |-> {}]

Down == {n \in Autostart : registry[n] \notin {Absent, "running"}}

KindOf(pc) ==
  CASE pc \in {"machine", "woken", "command"} -> "ready"
    [] pc \in {"busy", "again"} -> "next"
    [] pc \in {"exit", "running"} -> "nextOf"
    [] OTHER -> "none"

Advance(o, opens, closes) ==
  [o EXCEPT !.opened = @ \/ opens, !.closed = @ \/ (o.opened /\ closes)]

\* What the state this step leads to adds to the observation of call k.
Extended(o, k) ==
  CASE o.kind = "next" -> Advance(o, state' = "busy", state' = "ready")
    [] o.kind = "nextOf" ->
         Advance(o, registry'[k.cmd] \in {"starting", "stopped", "errored"},
                    registry'[k.cmd] = "running")
    [] o.kind = "ready" ->
         [o EXCEPT !.closed = @ \/ state' = "ready", !.owed = @ \cap Down']
    [] OTHER -> o

\* The observation of call k begins with the state it is made in.
Begun(k) ==
  LET kind == KindOf(k.pc) IN
  Extended([Nothing EXCEPT !.kind = kind,
                           !.owed = IF kind = "ready" THEN Down' ELSE {}], k)

\* A call that fails promises nothing: its observation is dropped.
Observe(c) ==
  IF call'[c].result \notin {"none", "ok"} THEN Nothing
  ELSE IF Waiting(c) THEN Extended(observed[c], call[c])
  ELSE IF Waiting(c)' THEN Begun(call'[c])
  ELSE observed[c]

HInit == Init /\ observed = [c \in Clients |-> Nothing]
HNext == Next /\ observed' = [c \in Clients |-> Observe(c)]
HSpec == HInit /\ [][HNext]_hvars
HFairSpec == HSpec /\ Fairness

-----------------------------------------------------------------------------
Returned(c, kind) == call[c].result = "ok" /\ observed[c].kind = kind

\* A waitForNextReady that returns has seen a whole cycle: the session was busy
\* at or after the call, and ready after that; never the READY it started in.
NextReadyIsACycle ==
  \A c \in Clients : Returned(c, "next") => observed[c].opened /\ observed[c].closed

\* With a command name: the command left RUNNING and then ran again.
NextReadyOfIsARestart ==
  \A c \in Clients : Returned(c, "nextOf") => observed[c].opened /\ observed[c].closed

\* A waitForReady that returns has seen the session READY and has seen every
\* autostart command run that was registered for as long as the call lasted,
\* however the registry was resynchronised and statuses moved meanwhile.
ReadyMeansAutostarted ==
  \A c \in Clients : Returned(c, "ready") => observed[c].closed /\ observed[c].owed = {}
=============================================================================
