----------------------------- MODULE EventStream -----------------------------
(***************************************************************************)
(* How a session follows SST's event stream: ServerFileWatcher finds the   *)
(* URL in .sst/<stage>.server, SSTSession subscribes to the first one it   *)
(* sees, and HttpEventStream reads it and reconnects on a budget.  The     *)
(* objects in the stream are JsonFraming's and SstSession's.               *)
(***************************************************************************)
EXTENDS Naturals

CONSTANT MaxReconnects
ASSUME ReconnectsAssumption == MaxReconnects \in Nat

VARIABLES
  file,       \* content of the server file: "none", "stale" or "fresh"
  serving,    \* SST answers at the fresh URL
  url,        \* ServerFileWatcher._url
  followed,   \* the URL the stream was started with
  conn,       \* its read loop
  attempt,    \* failed connects counted against the budget
  delivered,  \* dispatchedAny of the present connection
  lost,       \* StreamConnectionError was dispatched
  stop,       \* SSTSession.stop: which of its awaits it is in
  failures    \* observer: connections in a row that failed or delivered nothing

loopVars == <<conn, attempt, delivered, lost, failures>>
streamVars == <<file, serving, url, followed, stop, loopVars>>

\* The observer counts no further than the budget.
More(n) == IF n > MaxReconnects THEN n ELSE n + 1

Conns == {"off", "connecting", "open", "sleeping", "ended"}
Running == {"connecting", "open", "sleeping"}
Urls == {"none", "stale", "fresh"}

\* SSTSession.start: the watcher's first poll, and a subscription if it found
\* a URL (the file of a dead SST is only probed by the collision check).
StreamInit ==
  /\ file \in {"none", "stale"} /\ serving = FALSE
  /\ url = file /\ followed = file
  /\ conn = IF file = "none" THEN "off" ELSE "connecting"
  /\ attempt = 0 /\ delivered = FALSE /\ lost = FALSE
  /\ stop = "no" /\ failures = 0

-----------------------------------------------------------------------------
\* SST comes up and writes its URL; it goes down, with or without its file.
ServerUp ==
  /\ ~serving
  /\ serving' = TRUE /\ file' = "fresh"
  /\ UNCHANGED <<url, followed, stop, loopVars>>

ServerDown ==
  /\ serving
  /\ serving' = FALSE /\ file' \in {"none", "fresh"}
  /\ UNCHANGED <<url, followed, stop, loopVars>>

\* Mutants: the handler does not check for a stop; only changes are reported.
TickUnstopped ==
  /\ stop # "done" /\ file \notin {"none", url}
  /\ url' = file
  /\ IF followed = "none"
     THEN followed' = file /\ conn' = "connecting"
     ELSE UNCHANGED <<followed, conn>>
  /\ UNCHANGED <<file, serving, stop, attempt, delivered, lost, failures>>
TickOnChange ==
  /\ stop # "done" /\ file \notin {"none", url}
  /\ url' = file
  /\ IF followed = "none" /\ stop = "no" /\ url # "none"
     THEN followed' = file /\ conn' = "connecting"
     ELSE UNCHANGED <<followed, conn>>
  /\ UNCHANGED <<file, serving, stop, attempt, delivered, lost, failures>>

\* The watcher polls.  Its handler unsubscribes itself, so only the first URL
\* starts the stream, and start() of a stopped stream is rejected.
Tick ==
  /\ stop # "done" /\ file \notin {"none", url}
  /\ url' = file
  /\ IF followed = "none" /\ stop = "no"
     THEN followed' = file /\ conn' = "connecting"
     ELSE UNCHANGED <<followed, conn>>
  /\ UNCHANGED <<file, serving, stop, attempt, delivered, lost, failures>>

-----------------------------------------------------------------------------
\* The fetch is answered.
Connect ==
  /\ conn = "connecting" /\ stop = "no"
  /\ followed = "fresh" /\ serving
  /\ conn' = "open" /\ delivered' = FALSE
  /\ UNCHANGED <<file, serving, url, followed, stop, attempt, lost, failures>>

\* _handleObject.  A chunk that was read before the abort is still dispatched.
Deliver ==
  /\ conn = "open"
  /\ delivered' = TRUE
  /\ UNCHANGED <<file, serving, url, followed, stop, conn, attempt, lost, failures>>

\* The rest of the loop body once _runOnce has returned or thrown.
Retry(n) ==
  /\ attempt' = n
  /\ conn' = IF n > MaxReconnects THEN "ended" ELSE "sleeping"
  /\ lost' = (n > MaxReconnects)
  /\ UNCHANGED <<file, serving, url, followed, stop, delivered>>

\* What the connection that is over has shown the observer.
Observed == failures' = IF conn = "open" /\ delivered THEN 0 ELSE More(failures)

\* The body ends: the budget is new if it delivered anything.
BodyEnds ==
  /\ conn = "open" /\ stop = "no"
  /\ Retry(IF delivered THEN 0 ELSE attempt + 1)
  /\ Observed

\* Mutant: a failed connect is not counted.
FailFree ==
  /\ conn \in {"connecting", "open"} /\ stop = "no"
  /\ Retry(attempt)
  /\ Observed

\* The fetch or the read throws (refused, bad status, reset, oversized object):
\* dispatchedAny is lost with the read, and the connection counts as failed.
Fail ==
  /\ conn \in {"connecting", "open"} /\ stop = "no"
  /\ Retry(attempt + 1)
  /\ Observed

Wake ==
  /\ conn = "sleeping" /\ stop = "no"
  /\ conn' = "connecting"
  /\ UNCHANGED <<file, serving, url, followed, stop, attempt, delivered, lost, failures>>

-----------------------------------------------------------------------------
\* Mutant: the abort does not reach a pending read.
LoopEndsUnread ==
  /\ stop # "no" /\ conn \in Running \ {"open"}
  /\ conn' = "ended"
  /\ UNCHANGED <<file, serving, url, followed, stop, attempt, delivered, lost, failures>>

\* The abort ends the fetch, the read or the sleep, and the loop returns.
LoopEnds ==
  /\ stop # "no" /\ conn \in Running
  /\ conn' = "ended"
  /\ UNCHANGED <<file, serving, url, followed, stop, attempt, delivered, lost, failures>>

\* SSTSession.stop: stream.stop() (which awaits the loop), the pane watcher,
\* and only then ServerFileWatcher.stop().
StopStream ==
  /\ stop = "no" /\ stop' = "stream"
  /\ UNCHANGED <<file, serving, url, followed, loopVars>>

StopPanes ==
  /\ stop = "stream" /\ conn \notin Running
  /\ stop' = "panes"
  /\ UNCHANGED <<file, serving, url, followed, loopVars>>

StopWatcher ==
  /\ stop = "panes" /\ stop' = "done"
  /\ url' = "none"
  /\ UNCHANGED <<file, serving, followed, loopVars>>

-----------------------------------------------------------------------------
StreamNext ==
  \/ ServerUp \/ ServerDown \/ Tick
  \/ Connect \/ Deliver \/ BodyEnds \/ Fail \/ Wake \/ LoopEnds
  \/ StopStream \/ StopPanes \/ StopWatcher

StreamSpec == StreamInit /\ [][StreamNext]_streamVars

-----------------------------------------------------------------------------
\* The type of every variable.
StreamTypeOK ==
  /\ file \in Urls /\ url \in Urls /\ followed \in Urls
  /\ serving \in BOOLEAN /\ delivered \in BOOLEAN /\ lost \in BOOLEAN
  /\ conn \in Conns
  /\ attempt \in 0..(MaxReconnects + 1)
  /\ stop \in {"no", "stream", "panes", "done"}
  /\ failures \in 0..(MaxReconnects + 1)

\* "Only consecutive failed connects exhaust the budget" (the comment in
\* _runWithReconnect, on the reset when events were delivered): a stream is given
\* up only after more than maxReconnects connections in a row brought nothing.
OnlyFailedConnectsExhaust == lost => failures > MaxReconnects

\* Once stream.stop() has returned nothing is dispatched and no loop is
\* started, although the watcher is still polling.
SilentAfterStop ==
  [][(stop \in {"panes", "done"}) => loopVars' = loopVars]_streamVars

\* The first URL the watcher ever sees is subscribed to if it appears after the
\* session was started (a second one, which replaces a stale first, is not).
UrlIsFollowed == file = "fresh" /\ url = "none" ~> followed # "none" \/ stop # "no" \/ file = "none"

\* A stream that lost its connection either has a new one or is given up; it
\* does not retry for ever.
RetryEnds == conn \in {"connecting", "sleeping"} ~> conn \in {"open", "ended"}

\* SSTSession.stop gets past its sources, whatever the stream was doing.
SourcesStop == stop = "stream" ~> stop = "done"
=============================================================================
