-------------------------- MODULE MCRolloutCache --------------------------
(* Instances of RolloutCache for TLC. *)
EXTENDS RolloutCache

\* The page the live window shows, and one with details.
TwoViews    == {"latest", "details"}
DetailViews == {"details"}
===========================================================================
