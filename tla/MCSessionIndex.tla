-------------------------- MODULE MCSessionIndex --------------------------
(* Instances of SessionIndex for TLC. *)
EXTENDS SessionIndex, TLC

ProcSymmetry == Permutations(Procs)

\* Entries of three lengths: with two entries and four bytes allowed, either
\* limit may be the one that evicts.
Heavy   == CHOOSE k \in Keys : TRUE
Light   == CHOOSE k \in Keys \ {Heavy} : TRUE
Weights == [k \in Keys |-> IF k = Heavy THEN 3 ELSE IF k = Light THEN 1 ELSE 2]
Uniform == [k \in Keys |-> 1]

\* Only one process is known to be scheduled: the others may stop anywhere.
Scheduled == CHOOSE p \in Procs : TRUE
ScheduledSpec == Spec /\ WF_vars(Step(Scheduled))

\* Index failures never block session reads (flush): the call of a scheduled
\* process ends whatever the process that holds the lock does.
FlushNeverBlocks == pc[Scheduled] # "idle" ~> pc[Scheduled] = "idle"
===========================================================================
