------------------------------ MODULE MCUnits ------------------------------
(***************************************************************************)
(* Five parts that do not touch each other, each checked alone: the event  *)
(* stream with its default budget of three reconnects, its framing, the    *)
(* scan of sst.config.ts, a run of one subcommand and the lookup of a      *)
(* session.  A behaviour is one of one of them.                            *)
(***************************************************************************)
EXTENDS EventStream, JsonFraming, ConfigScan, RunSst, SessionLookup, TLC

CONSTANTS s1, s2, s3

VARIABLE unit   \* the part that moves

units == <<streamVars, vars, configVars, runVars, lookupVars, unit>>

\* Nested objects, brackets and quotes in strings, an escaped quote, an escaped
\* backslash.
MCObjects ==
  { <<"{", "a", "}">>,
    <<"{", "{", "}", "a", "{", "}", "}">>,
    <<"{", "q", "}", "q", "}">>,
    <<"{", "q", "e", "q", "{", "q", "}">>,
    <<"{", "q", "e", "e", "q", "}">> }
MCGaps == { <<>>, <<"a">> }

\* Every text of up to six symbols behind a brace, with comments and one kind of
\* quote or with two kinds and no comments; and a declaration followed by
\* phrases, braces, and braces hidden in a string that holds the other quote, a
\* string with an escaped quote, a line comment and a block comment.
MCCorpora ==
  { [begin |-> <<"open">>, most |-> 6,
     pieces |-> {<<"open">>, <<"close">>, <<"q">>, <<"e">>, <<"/">>, <<"*">>, <<"n">>}],
    [begin |-> <<"open">>, most |-> 6,
     pieces |-> {<<"open">>, <<"close">>, <<"q">>, <<"t">>, <<"e">>}],
    [begin |-> <<"new", "open">>, most |-> 5,
     pieces |-> {<<"new", "open">>, <<"dev", "open">>, <<"command">>, <<"off">>, <<"close">>,
                 <<"t", "q", "close", "t">>, <<"q", "e", "q", "open", "q">>, <<"/", "/", "close", "n">>,
                 <<"/", "*", "open", "*", "/">>}] }

MCKeyOf == (s1 :> "a" @@ s2 :> "b" @@ s3 :> "a")

UnitsInit ==
  /\ unit \in {"stream", "framing", "config", "run", "lookup"}
  /\ StreamInit /\ Init /\ ConfigInit /\ RunInit /\ LookupInit
  /\ unit # "stream" => file = "none"
  /\ unit # "config" => corpus = CHOOSE c \in Corpora : TRUE
  /\ unit # "run" => child = "unspawned" /\ ~stubborn

UnitsNext ==
  /\ UNCHANGED unit
  /\ \/ unit = "stream" /\ StreamNext /\ UNCHANGED <<vars, configVars, runVars, lookupVars>>
     \/ unit = "framing" /\ Next /\ UNCHANGED <<streamVars, configVars, runVars, lookupVars>>
     \/ unit = "config" /\ ConfigNext /\ UNCHANGED <<streamVars, vars, runVars, lookupVars>>
     \/ unit = "run" /\ RunNext /\ UNCHANGED <<streamVars, vars, configVars, lookupVars>>
     \/ unit = "lookup" /\ LookupNext /\ UNCHANGED <<streamVars, vars, configVars, runVars>>

\* Timers and events of runSst's loop come; a process ends on the signals it
\* cannot withstand.
RunFairness ==
  /\ WF_runVars(unit = "run" /\ SpawnFailed) /\ WF_runVars(unit = "run" /\ TimeLimit)
  /\ WF_runVars(unit = "run" /\ GraceEnds) /\ WF_runVars(unit = "run" /\ Closed)
  /\ WF_runVars(unit = "run" /\ Obeys /\ ChildExits)

\* The watcher's timer and the backoff fire, requests are answered one way or
\* the other, and what stop() awaits goes on.
StreamFairness ==
  /\ WF_streamVars(unit = "stream" /\ Tick) /\ WF_streamVars(unit = "stream" /\ (Connect \/ Fail))
  /\ WF_streamVars(unit = "stream" /\ Wake) /\ WF_streamVars(unit = "stream" /\ LoopEnds)
  /\ WF_streamVars(unit = "stream" /\ StopPanes) /\ WF_streamVars(unit = "stream" /\ StopWatcher)

UnitsSpec == UnitsInit /\ [][UnitsNext]_units /\ StreamFairness /\ RunFairness
=============================================================================
