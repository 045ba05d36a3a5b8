---------------------------- MODULE MCTrajectory ----------------------------
(***************************************************************************)
(* Instance for TLC of the two ends of a trajectory: the log it is         *)
(* projected from, and the panel that shows it.  The panel sees of the log *)
(* only its version, so the two share no variable; `part` says which of    *)
(* them runs, and the other stays where it began.                          *)
(***************************************************************************)
EXTENDS MCTurnProjection, Viewer

VARIABLE part

trajectoryVars == <<part, vars, viewerVars>>

InitLog   == part = "log" /\ Init /\ ViewerInit /\ ~stored /\ panel = EmptyPanel
\* (One empty log will do for the panel.)
InitPanel == /\ part = "panel" /\ ViewerInit /\ Init
             /\ scope = CHOOSE s \in DOMAIN Scopes : TRUE

TrajectoryInit == InitLog \/ InitPanel

NextLog   == \E kinds \in {TurnEvents, Items, LegacyEvents, ResponseItems, Always, Silent} :
                part = "log" /\ Read(kinds) /\ UNCHANGED <<part, viewerVars>>
NextPanel == part = "panel" /\ ViewerNext /\ UNCHANGED <<part, vars>>

TrajectoryNext == NextLog \/ NextPanel

TrajectorySpec == TrajectoryInit /\ [][TrajectoryNext]_trajectoryVars

\* Tasks are only compared with one another.
TaskSymmetry == Permutations(Tasks)

AllTypesOK == TypeOK /\ ViewerTypeOK
=============================================================================
