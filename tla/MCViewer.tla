------------------------------ MODULE MCViewer ------------------------------
(* Instance of Viewer for TLC: the panel alone.                              *)
EXTENDS Viewer
=============================================================================
