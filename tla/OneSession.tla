----------------------------- MODULE OneSession -----------------------------
(***************************************************************************)
(* What the session manager promises for one (projectDir, stage): at any   *)
(* time at most one session, a new one only after the last has ended, and  *)
(* an ended one never comes back.  ("Session: one running `sst dev'        *)
(* process for a (projectDir, stage) pair", src/mcp/src/server.ts.)        *)
(***************************************************************************)
CONSTANT Ids

VARIABLES
  live,   \* the sessions that run
  begun   \* those that were ever begun

Begin(id) ==
  /\ live = {} /\ id \notin begun
  /\ live' = {id} /\ begun' = begun \cup {id}

End ==
  /\ live # {}
  /\ live' = {} /\ UNCHANGED begun

OneInit == live = {} /\ begun = {}

OneNext == End \/ \E id \in Ids : Begin(id)

OneSpec == OneInit /\ [][OneNext]_<<live, begun>>
=============================================================================
