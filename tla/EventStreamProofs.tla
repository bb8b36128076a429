------------------------- MODULE EventStreamProofs -------------------------
(***************************************************************************)
(* What holds of EventStream for any reconnect budget: its types, and that *)
(* a stopped stream is silent.                                             *)
(***************************************************************************)
EXTENDS EventStream, TLAPS

\* The loop runs within its budget, begins with a URL to follow and is over
\* before the next source is stopped.
LoopInv ==
  /\ conn \in Running => attempt <= MaxReconnects
  /\ followed = "none" => conn = "off" /\ attempt = 0
  /\ stop \in {"panes", "done"} => conn \notin Running

Inv == StreamTypeOK /\ LoopInv

USE ReconnectsAssumption DEF Urls, Conns, Running

\* The flags of StreamTypeOK, and the rest of it.
Flags == serving \in BOOLEAN /\ delivered \in BOOLEAN /\ lost \in BOOLEAN
Rest ==
  /\ file \in Urls /\ url \in Urls /\ followed \in Urls /\ conn \in Conns
  /\ attempt \in 0..(MaxReconnects + 1)
  /\ stop \in {"no", "stream", "panes", "done"}
  /\ failures \in 0..(MaxReconnects + 1)

LEMMA InvParts == Inv <=> Flags /\ Rest /\ LoopInv
  BY DEF Inv, StreamTypeOK, Flags, Rest

LEMMA InitInv == StreamInit => Inv
<1> SUFFICES ASSUME StreamInit PROVE Inv
  OBVIOUS
<1>1. Flags
  BY DEF StreamInit, Flags
<1>2. Rest
  BY DEF StreamInit, Rest
<1>3. /\ attempt = 0 /\ stop = "no"
      /\ followed = "none" => conn = "off"
  BY DEF StreamInit
<1>4. LoopInv
  BY <1>3 DEF LoopInv
<1> QED
  BY <1>1, <1>2, <1>4, InvParts

\* Counting one more connection, or starting again from none.
LEMMA RetryInv ==
  ASSUME Inv, conn \in Running, NEW n \in Nat, Retry(n), n <= MaxReconnects + 1,
         stop = "no",
         failures' \in 0..(MaxReconnects + 1)
  PROVE  Inv'
<1>1. Flags /\ Rest /\ LoopInv
  BY InvParts
<1>2. attempt' = n /\ UNCHANGED <<file, serving, url, followed, stop, delivered>> /\ followed # "none"
  BY <1>1 DEF Retry, LoopInv
<1>3. \/ n > MaxReconnects /\ conn' = "ended" /\ lost' = TRUE
      \/ n <= MaxReconnects /\ conn' = "sleeping" /\ lost' = FALSE
  <2>1. CASE n > MaxReconnects
    BY <2>1, Zenon DEF Retry
  <2>2. CASE ~(n > MaxReconnects)
    <3>1. n <= MaxReconnects
      BY <2>2
    <3>2. (n > MaxReconnects) = FALSE
      BY <2>2
    <3>3. conn' = "sleeping"
      BY <2>2, Zenon DEF Retry
    <3>4. lost' = FALSE
      BY <3>2, Zenon DEF Retry
    <3> QED
      BY <3>1, <3>3, <3>4
  <2> QED
    BY <2>1, <2>2
<1>4. Flags'
  BY <1>1, <1>2, <1>3 DEF Flags
<1>5. Rest'
  <2>1. attempt' \in 0..(MaxReconnects + 1) /\ failures' \in 0..(MaxReconnects + 1)
    BY <1>2
  <2>2. conn' \in Conns
    BY <1>3
  <2> QED
    BY <1>1, <1>2, <2>1, <2>2 DEF Rest
<1>6. LoopInv'
  BY <1>2, <1>3 DEF LoopInv
<1> QED
  BY <1>4, <1>5, <1>6 DEF Inv, StreamTypeOK, Flags, Rest

LEMMA ObservedType ==
  ASSUME Rest, Observed
  PROVE  failures' \in 0..(MaxReconnects + 1)
<1>1. failures \in 0..(MaxReconnects + 1)
  BY DEF Rest
<1>2. More(failures) \in 0..(MaxReconnects + 1)
  <2>1. CASE failures > MaxReconnects
    BY <1>1, <2>1 DEF More
  <2>2. CASE ~(failures > MaxReconnects)
    <3>1. More(failures) = failures + 1
      BY <2>2 DEF More
    <3> QED
      BY <1>1, <2>2, <3>1
  <2> QED
    BY <2>1, <2>2
<1>3. failures' = 0 \/ failures' = More(failures)
  BY Zenon DEF Observed
<1> QED
  BY <1>2, <1>3

LEMMA StepInv == Inv /\ [StreamNext]_streamVars => Inv'
<1> SUFFICES ASSUME Inv, [StreamNext]_streamVars PROVE Inv'
  OBVIOUS
<1>1. Flags /\ Rest /\ LoopInv
  BY InvParts
<1>2. CASE \/ ServerUp \/ ServerDown \/ Tick \/ Connect \/ Deliver \/ Wake \/ LoopEnds
           \/ StopStream \/ StopPanes \/ StopWatcher \/ UNCHANGED streamVars
  <2> USE DEF ServerUp, ServerDown, Tick, Connect, Deliver, Wake, LoopEnds,
              StopStream, StopPanes, StopWatcher, loopVars, streamVars
  <2>1. Flags'
    BY <1>1, <1>2 DEF Flags
  <2>2. Rest'
    BY <1>1, <1>2 DEF Rest
  <2>3. /\ UNCHANGED <<attempt, failures>>
        /\ conn' \in Running => conn \in Running \/ (Tick /\ followed = "none" /\ stop' = "no")
        /\ followed' = "none" => followed = "none" /\ conn' = conn
        /\ stop' \in {"panes", "done"} => stop \in {"panes", "done"} \/ conn' \notin Running
    BY <1>1, <1>2 DEF LoopInv
  <2>4. LoopInv'
    BY <1>1, <2>3 DEF LoopInv
  <2> QED
    BY <2>1, <2>2, <2>4 DEF Inv, StreamTypeOK, Flags, Rest
<1>3. CASE Fail \/ BodyEnds
  <2>1. conn \in Running /\ stop = "no" /\ Observed
    BY <1>3 DEF Fail, BodyEnds
  <2>2. attempt + 1 \in Nat /\ attempt + 1 <= MaxReconnects + 1
    BY <1>1, <2>1 DEF Rest, LoopInv
  <2>3. Retry(attempt + 1) \/ Retry(0)
    BY <1>3, Zenon DEF Fail, BodyEnds
  <2>4. failures' \in 0..(MaxReconnects + 1)
    BY <1>1, <2>1, ObservedType
  <2> QED
    BY <2>1, <2>2, <2>3, <2>4, RetryInv
<1> QED
  BY <1>2, <1>3 DEF StreamNext

LEMMA AlwaysInv == StreamSpec => []Inv
  BY InitInv, StepInv, PTL DEF StreamSpec

\* The type of every variable; the loop never counts past its budget.
THEOREM StreamTypes == StreamSpec => []StreamTypeOK
<1>1. Inv => StreamTypeOK
  BY DEF Inv
<1> QED
  BY <1>1, AlwaysInv, PTL

\* After stream.stop() no step of the watcher, the server or the loop itself
\* dispatches an event, reconnects or starts the loop again.
THEOREM StoppedIsSilent == StreamSpec => SilentAfterStop
<1>1. ASSUME Inv, [StreamNext]_streamVars
      PROVE  [(stop \in {"panes", "done"}) => loopVars' = loopVars]_streamVars
  <2>1. CASE stop \notin {"panes", "done"}
    BY <2>1
  <2>2. CASE stop \in {"panes", "done"}
    <3>1. conn \notin Running
      BY <1>1, <2>2, InvParts DEF LoopInv
    <3> QED
      BY <1>1, <2>2, <3>1
         DEF StreamNext, ServerUp, ServerDown, Tick, Connect, Deliver, BodyEnds, Fail, Wake, LoopEnds,
             StopStream, StopPanes, StopWatcher, streamVars, loopVars
  <2> QED
    BY <2>1, <2>2
<1> QED
  BY <1>1, AlwaysInv, PTL DEF StreamSpec, SilentAfterStop
=============================================================================
