----------------------------- MODULE MCMCSched -----------------------------
(* Model-checking instances of MCSched. *)
EXTENDS MCSched, TLC

MCProcs == Workers \cup {Host}
MCRings == Workers \cup {Global}
MCTasks == Tasks
=============================================================================
