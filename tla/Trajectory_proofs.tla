--------------------------- MODULE Trajectory_proofs ---------------------------
(***************************************************************************)
(* The two ends of a trajectory, run side by side, are each still what     *)
(* their own modules specify: every behaviour of TrajectorySpec is one of  *)
(* Spec, which reads the log, and one of ViewerSpec, the panel.  What is   *)
(* proved of either therefore holds of the whole.                          *)
(***************************************************************************)
EXTENDS MCTrajectory, TurnProjection_proofs, Viewer_proofs

LEMMA LogStarts == TrajectoryInit => Init
  BY DEF TrajectoryInit, InitLog, InitPanel

LEMMA PanelStarts == TrajectoryInit => ViewerInit
  BY DEF TrajectoryInit, InitLog, InitPanel

LEMMA LogSteps == [TrajectoryNext]_trajectoryVars => [Next]_vars
  <1> SUFFICES ASSUME [TrajectoryNext]_trajectoryVars PROVE [Next]_vars
    OBVIOUS
  <1>1. CASE UNCHANGED trajectoryVars
    BY <1>1 DEF trajectoryVars
  <1>2. CASE NextLog
    BY <1>2 DEF NextLog, Next, ReadTurnEvent, ReadItem, ReadLegacyEvent, ReadResponseItem,
                ReadAlways, ReadSilent
  <1>3. CASE NextPanel
    BY <1>3 DEF NextPanel
  <1> QED  BY <1>1, <1>2, <1>3 DEF TrajectoryNext

LEMMA PanelSteps == [TrajectoryNext]_trajectoryVars => [ViewerNext]_viewerVars
  <1> SUFFICES ASSUME [TrajectoryNext]_trajectoryVars PROVE [ViewerNext]_viewerVars
    OBVIOUS
  <1>1. CASE UNCHANGED trajectoryVars
    BY <1>1 DEF trajectoryVars
  <1>2. CASE NextLog
    BY <1>2 DEF NextLog
  <1>3. CASE NextPanel
    BY <1>3 DEF NextPanel
  <1> QED  BY <1>1, <1>2, <1>3 DEF TrajectoryNext

\* Whichever end of a trajectory runs, the log is read as its module says.
THEOREM TrajectoryReadsLog == TrajectorySpec => Spec
  BY LogStarts, LogSteps, PTL DEF TrajectorySpec, Spec

\* Whichever end of a trajectory runs, the panel does what its module says.
THEOREM TrajectoryShowsPanel == TrajectorySpec => ViewerSpec
  BY PanelStarts, PanelSteps, PTL DEF TrajectorySpec, ViewerSpec

\* Both ends always have the values they should have.
THEOREM TrajectoryTypeCorrect == TrajectorySpec => []AllTypesOK
  <1>1. TypeOK /\ ViewerTypeOK => AllTypesOK
    BY DEF AllTypesOK
  <1> QED  BY <1>1, TrajectoryReadsLog, TrajectoryShowsPanel, ProjectionTypeCorrect,
              ViewerTypeCorrect, PTL

\* What the log's projection and the panel promise, they promise together.
THEOREM TrajectoryIsSound ==
    TrajectorySpec => [](/\ TurnsAreSeparate /\ CountsExact /\ UsageConserved
                         /\ PageSound /\ IndexedPageAgrees
                         /\ ShownHoldsTogether /\ ConsentIsFresh /\ PollingNeverStalls
                         /\ LocksAreHeldByRequests)
  BY TrajectoryReadsLog, TrajectoryShowsPanel, TurnsStaySeparate, CountsHold, UsageIsConserved,
     PageHolds, IndexAgrees, ShownStaysTogether, ConsentStaysFresh, PollingGoesOn, LocksComeFree, PTL
=============================================================================
