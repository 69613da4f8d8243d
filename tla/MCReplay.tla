------------------------------ MODULE MCReplay ------------------------------
(* A workflow whose fingerprints cover what its replayable nodes depend on.  *)
EXTENDS MCExecution

ASSUME SavedIsCovered == FingerprintCovers

=============================================================================
