------------------------ MODULE MCSharedListDetector ------------------------
(* A small cluster of first-version detectors for TLC.                     *)
EXTENDS SharedListDetector

\* The stopped nodes come before those a search may pass over.
FourNodes == <<4, 1, 2, 3>>
=============================================================================
