------------------------ MODULE MCDiagnosticsLatch ------------------------
(* A small instance of DiagnosticsLatch for TLC.                            *)
EXTENDS DiagnosticsLatch
=============================================================================
