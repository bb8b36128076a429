-------------------------- MODULE MCCommandControl --------------------------
(* CommandControl with a few panes; the configurations choose who is there *)
(* and what the processes and the clock may do.                            *)
EXTENDS CommandControl, TLC
Symmetric == Permutations(Clients)
=============================================================================
