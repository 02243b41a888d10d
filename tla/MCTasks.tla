------------------------------- MODULE MCTasks -------------------------------
(* Tasks on one tab or on none; the configurations give the sets.          *)
EXTENDS Tasks
=============================================================================
