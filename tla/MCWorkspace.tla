----------------------------- MODULE MCWorkspace -----------------------------
(* Workspace.tla for TLC: shared files as model values. *)
EXTENDS Workspace, TLC

CONSTANTS report, notes

OneFile == {report}
TwoFiles == {report, notes}
=============================================================================
